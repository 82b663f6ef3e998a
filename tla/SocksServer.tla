----------------------------- MODULE SocksServer -----------------------------
(***************************************************************************)
(* The SOCKS5 front door (src/src/socks/server.rs): the accept loop and    *)
(* one handler task per client connection, with the registry (streams.rs), *)
(* the counters (metrics.rs), the byte meter (socks/metered.rs) and the    *)
(* isolation map (tor.rs) the handlers share.                              *)
(*                                                                         *)
(* tord is one thread: a task runs from one await to the next without      *)
(* interruption, and that is the grain of the actions.  Consecutive awaits *)
(* of one handler with nothing shared between them are one action.         *)
(*                                                                         *)
(* Abstracted.  The client's bytes are a script of protocol items,         *)
(* each what one stage of the handler reads ([kind |-> "greeting", ...],   *)
(* "auth", "request", "target", "data"); an item of another kind than the  *)
(* stage expects stands for bytes that do not parse there.  A client may   *)
(* send any prefix of its script, ahead of the replies, and half-close or  *)
(* reset at any time.  Payload is counted in chunks: their order is TCP's  *)
(* and the copy buffer's.  arti is external: it opens a stream or refuses. *)
(***************************************************************************)
EXTENDS Integers, Sequences, FiniteSets, FiniteSetsExt, Functions

CONSTANTS
  Conns,            \* client connections
  Hosts,            \* CONNECT targets
  Users,            \* SOCKS usernames
  NoUser,           \* no username was given
  Garbled,          \* a username or host name that is not UTF-8
  Scripts,          \* what clients may send: sequences of Items
  BufCap,           \* chunks copy_bidirectional buffers in each direction
  MaxDown,          \* bound: chunks a destination sends
  MaxAcceptErrors   \* bound: failed accepts

Methods == {"noauth", "userpass", "other"}

Items ==
  [kind : {"greeting"}, methods : SUBSET Methods]
    \cup [kind : {"auth"}, user : Users \cup {Garbled}]
    \cup [kind : {"request"}, cmd : {"connect", "other"},
          atyp : {"known", "unknown"}]
    \cup [kind : {"target"}, host : Hosts \cup {Garbled}]
    \cup [kind : {"data"}]

ASSUME ServerAssumption ==
  /\ IsFiniteSet(Conns)
  /\ Scripts \subseteq Seq(Items)
  /\ Garbled \notin Users \cup Hosts
  /\ NoUser \notin Users
  /\ BufCap \in Nat \ {0}
  /\ MaxDown \in Nat
  /\ MaxAcceptErrors \in Nat

\* How a script stands for bytes: what follows a target is payload, whatever
\* it looks like.
DataFollowsTarget ==
  \A s \in Scripts : \A i, j \in 1 .. Len(s) :
    i < j /\ s[i].kind = "target" => s[j].kind = "data"

VARIABLES
  \* the client's end
  script,       \* what it will send, chosen once
  sent,         \* items sent so far
  net,          \* its half of the TCP connection: "open", "fin" or "reset"
  \* the handler task
  pc,           \* the await it is at
  taken,        \* items read so far
  user,         \* iso_user
  handle,       \* id of the StreamHandle it holds, or NoHandle
  token,        \* the isolation token given to arti, or NoToken
  out,          \* replies written to the client
  \* the splice
  fwd, back,    \* copy_bidirectional's two directions: "run" or "done"
  took,         \* chunks read from the client
  gave,         \* chunks written to the Tor stream
  got,          \* chunks read from the Tor stream
  wrote,        \* chunks written to the client
  \* the Tor stream
  up,           \* "none", "open", "eof", "err", or "dropped" by the handler
  upSent,       \* chunks the destination has sent
  \* shared by the handlers
  metrics,
  rows, next_id,                      \* StreamRegistry
  isolation, per_upstream, minted,    \* TorManager
  \* the accept loop
  acceptor,     \* "accepting" or "backoff"
  acceptErrors

clientVars == <<script, sent, net>>
taskVars == <<pc, taken, user, handle, token, out>>
spliceVars == <<fwd, back, took, gave, got, wrote>>
torVars == <<up, upSent>>
registryVars == <<rows, next_id>>
isolationVars == <<isolation, per_upstream, minted>>
acceptVars == <<acceptor, acceptErrors>>
sharedVars == <<metrics, registryVars, isolationVars>>
vars == <<clientVars, taskVars, spliceVars, torVars, sharedVars, acceptVars>>

Replies == {"method_userpass", "method_noauth", "method_none", "auth_ok",
            "rep_ok", "rep_fail", "rep_cmd", "rep_atyp"}

Registry == INSTANCE StreamRegistry
              WITH Peers <- Conns, IsoUsers <- Users \cup {NoUser}
Tor == INSTANCE TorIsolation

NoHandle == -1
NoToken == -1

\* The handler holds a StreamHandle from register to its return.
Registered == {"connecting", "reply_ok", "reply_fail", "splice"}
Phases == {"new", "greeting", "auth", "request", "target", "closed"}
            \cup Registered

Init ==
  /\ script \in [Conns -> Scripts]
  /\ sent = [c \in Conns |-> 0]
  /\ net = [c \in Conns |-> "open"]
  /\ pc = [c \in Conns |-> "new"]
  /\ taken = [c \in Conns |-> 0]
  /\ user = [c \in Conns |-> NoUser]
  /\ handle = [c \in Conns |-> NoHandle]
  /\ token = [c \in Conns |-> NoToken]
  /\ out = [c \in Conns |-> <<>>]
  /\ fwd = [c \in Conns |-> "run"]
  /\ back = [c \in Conns |-> "run"]
  /\ took = [c \in Conns |-> 0]
  /\ gave = [c \in Conns |-> 0]
  /\ got = [c \in Conns |-> 0]
  /\ wrote = [c \in Conns |-> 0]
  /\ up = [c \in Conns |-> "none"]
  /\ upSent = [c \in Conns |-> 0]
  /\ metrics = [connects_total |-> 0, connects_ok |-> 0, connects_failed |-> 0,
                bytes_to_upstream |-> 0, bytes_to_client |-> 0]
  /\ Registry!Init
  /\ Tor!Init
  /\ acceptor = "accepting"
  /\ acceptErrors = 0

-----------------------------------------------------------------------------
(* The client, external. *)

Alive(c) == pc[c] \notin {"new", "closed"}

ClientSends(c) ==
  /\ Alive(c) /\ net[c] = "open" /\ sent[c] < Len(script[c])
  /\ sent' = [sent EXCEPT ![c] = @ + 1]
  /\ UNCHANGED <<script, net, taskVars, spliceVars, torVars, sharedVars, acceptVars>>

ClientFin(c) ==
  /\ Alive(c) /\ net[c] = "open"
  /\ net' = [net EXCEPT ![c] = "fin"]
  /\ UNCHANGED <<script, sent, taskVars, spliceVars, torVars, sharedVars, acceptVars>>

ClientResets(c) ==
  /\ Alive(c) /\ net[c] # "reset"
  /\ net' = [net EXCEPT ![c] = "reset"]
  /\ UNCHANGED <<script, sent, taskVars, spliceVars, torVars, sharedVars, acceptVars>>

-----------------------------------------------------------------------------
(* serve: the accept loop. *)

Accept(c) ==
  /\ acceptor = "accepting" /\ pc[c] = "new"
  /\ pc' = [pc EXCEPT ![c] = "greeting"]
  /\ UNCHANGED <<clientVars, taken, user, handle, token, out, spliceVars,
                 torVars, sharedVars, acceptVars>>

\* Faulty variant: the loop lets the error end it, with `?`.
AcceptFailsForGood ==
  /\ acceptor = "accepting" /\ acceptErrors < MaxAcceptErrors
  /\ acceptor' = "stopped"
  /\ acceptErrors' = acceptErrors + 1
  /\ UNCHANGED <<clientVars, taskVars, spliceVars, torVars, sharedVars>>

\* Either the connection is gone (ECONNABORTED), or the call failed and the
\* connection waits in the backlog.
AcceptFails ==
  /\ acceptor = "accepting" /\ acceptErrors < MaxAcceptErrors
  /\ acceptor' = "backoff"
  /\ acceptErrors' = acceptErrors + 1
  /\ \/ \E c \in Conns : pc[c] = "new" /\ pc' = [pc EXCEPT ![c] = "closed"]
     \/ UNCHANGED pc
  /\ UNCHANGED <<clientVars, taken, user, handle, token, out, spliceVars,
                 torVars, sharedVars>>

BackoffEnds ==
  /\ acceptor = "backoff"
  /\ acceptor' = "accepting"
  /\ UNCHANGED <<clientVars, taskVars, spliceVars, torVars, sharedVars,
                 acceptErrors>>

-----------------------------------------------------------------------------
(* handle, up to the target: nothing shared is touched. *)

Item(c) == script[c][taken[c] + 1]
Arrived(c) == taken[c] < sent[c]
AtEof(c) == net[c] = "fin" /\ taken[c] = sent[c]
Take(c) == taken' = [taken EXCEPT ![c] = @ + 1]

Goto(c, next) == pc' = [pc EXCEPT ![c] = next]

\* write_all of one reply, then on to `next`; a write to a reset connection
\* fails, and `?` ends the task.
Say(c, rep, next) ==
  IF net[c] = "reset"
    THEN Goto(c, "closed") /\ UNCHANGED out
    ELSE Goto(c, next) /\ out' = [out EXCEPT ![c] = Append(@, rep)]

Bail(c) == Goto(c, "closed") /\ UNCHANGED out

HandshakeOnly ==
  UNCHANGED <<clientVars, handle, token, spliceVars, torVars, sharedVars,
              acceptVars>>

Offers(c, m) == Item(c).kind = "greeting" /\ m \in Item(c).methods

Greeting(c) ==
  /\ pc[c] = "greeting" /\ Arrived(c)
  /\ Take(c)
  /\ \/ Item(c).kind # "greeting" /\ Bail(c)
     \/ Offers(c, "userpass") /\ Say(c, "method_userpass", "auth")
     \/ /\ Offers(c, "noauth") /\ ~ Offers(c, "userpass")
        /\ Say(c, "method_noauth", "request")
     \/ /\ Item(c).kind = "greeting"
        /\ ~ Offers(c, "noauth") /\ ~ Offers(c, "userpass")
        /\ Say(c, "method_none", "closed")
  /\ UNCHANGED user
  /\ HandshakeOnly

\* read_userpass: any credentials will do, and the username is kept.
Auth(c) ==
  /\ pc[c] = "auth" /\ Arrived(c)
  /\ Take(c)
  /\ \/ /\ Item(c).kind = "auth" /\ Item(c).user # Garbled
        /\ user' = [user EXCEPT ![c] = Item(c).user]
        /\ Say(c, "auth_ok", "request")
     \/ /\ Item(c).kind # "auth" \/ Item(c).user = Garbled
        /\ UNCHANGED user
        /\ Bail(c)
  /\ HandshakeOnly

Request(c) ==
  /\ pc[c] = "request" /\ Arrived(c)
  /\ Take(c)
  /\ \/ Item(c).kind # "request" /\ Bail(c)
     \/ /\ Item(c).kind = "request" /\ Item(c).cmd # "connect"
        /\ Say(c, "rep_cmd", "closed")
     \/ /\ Item(c).kind = "request" /\ Item(c).cmd = "connect"
        /\ Item(c).atyp = "unknown"
        /\ Say(c, "rep_atyp", "closed")
     \/ /\ Item(c).kind = "request" /\ Item(c).cmd = "connect"
        /\ Item(c).atyp = "known"
        /\ Goto(c, "target") /\ UNCHANGED out
  /\ UNCHANGED user
  /\ HandshakeOnly

\* Faulty variant: a read of no bytes is taken for a short read and repeated.
ReadFailsOnResetOnly(c) ==
  /\ pc[c] \in {"greeting", "auth", "request"} /\ net[c] = "reset"
  /\ Bail(c)
  /\ UNCHANGED <<taken, user>>
  /\ HandshakeOnly

\* read_exact meets the end of the connection before the item is whole.
ReadFails(c) ==
  /\ pc[c] \in {"greeting", "auth", "request"}
  /\ AtEof(c) \/ net[c] = "reset"
  /\ Bail(c)
  /\ UNCHANGED <<taken, user>>
  /\ HandshakeOnly

\* Any error of read_target is answered with 0x08, a connection that ends
\* half-way included.
TargetFails(c) ==
  /\ pc[c] = "target"
  /\ \/ /\ Arrived(c)
        /\ Item(c).kind # "target" \/ Item(c).host = Garbled
        /\ Take(c)
     \/ /\ AtEof(c) \/ net[c] = "reset"
        /\ UNCHANGED taken
  /\ Say(c, "rep_atyp", "closed")
  /\ UNCHANGED user
  /\ HandshakeOnly

-----------------------------------------------------------------------------
(* handle, from the target on: counters, registry and isolation. *)

Bump(field) == metrics' = [metrics EXCEPT ![field] = @ + 1]

\* Faulty variant: the handshake reads through a buffer that it then drops,
\* with what the client sent behind the target in it.
DialReadingAhead(c) ==
  /\ pc[c] = "target" /\ Arrived(c)
  /\ Item(c).kind = "target" /\ Item(c).host # Garbled
  /\ taken' = [taken EXCEPT ![c] = sent[c]]
  /\ Bump("connects_total")
  /\ Registry!Register(c, Item(c).host, user[c])
  /\ handle' = [handle EXCEPT ![c] = next_id]
  /\ token' = [token EXCEPT ![c] = Tor!isolation_token(user[c])]
  /\ Tor!ResolveToken(user[c])
  /\ Goto(c, "connecting")
  /\ UNCHANGED <<clientVars, user, out, spliceVars, torVars, acceptVars>>

\* The target is read, and without an await the CONNECT is counted, its row
\* registered and its isolation token resolved.
Dial(c) ==
  /\ pc[c] = "target" /\ Arrived(c)
  /\ Item(c).kind = "target" /\ Item(c).host # Garbled
  /\ Take(c)
  /\ Bump("connects_total")
  /\ Registry!Register(c, Item(c).host, user[c])
  /\ handle' = [handle EXCEPT ![c] = next_id]
  /\ token' = [token EXCEPT ![c] = Tor!isolation_token(user[c])]
  /\ Tor!ResolveToken(user[c])
  /\ Goto(c, "connecting")
  /\ UNCHANGED <<clientVars, user, out, spliceVars, torVars, acceptVars>>

\* The handler resumes from connect().await with a stream ...
TorOpens(c) ==
  /\ pc[c] = "connecting"
  /\ up' = [up EXCEPT ![c] = "open"]
  /\ Goto(c, "reply_ok")
  /\ UNCHANGED <<clientVars, taken, user, handle, token, out, spliceVars,
                 upSent, sharedVars, acceptVars>>

\* Faulty variant: a refused connect goes on as if it had been opened.
TorRefusesOpenly(c) ==
  /\ pc[c] = "connecting"
  /\ Bump("connects_failed")
  /\ Goto(c, "reply_ok")
  /\ UNCHANGED <<clientVars, taken, user, handle, token, out, spliceVars,
                 torVars, registryVars, isolationVars, acceptVars>>

\* ... or with an error.
TorRefuses(c) ==
  /\ pc[c] = "connecting"
  /\ Bump("connects_failed")
  /\ Goto(c, "reply_fail")
  /\ UNCHANGED <<clientVars, taken, user, handle, token, out, spliceVars,
                 torVars, registryVars, isolationVars, acceptVars>>

\* Faulty variant: the id of a dropped row is handed out again.
ReturnRecyclingId(c) ==
  /\ Goto(c, "closed")
  /\ rows' = Restrict(rows, DOMAIN rows \ {handle[c]})
  /\ next_id' = handle[c]
  /\ handle' = [handle EXCEPT ![c] = NoHandle]
  /\ up' = [up EXCEPT ![c] = IF @ = "none" THEN "none" ELSE "dropped"]
  /\ UNCHANGED <<clientVars, taken, user, token, spliceVars, upSent,
                 isolationVars, acceptVars>>

\* handle returns: its locals are dropped, the Tor stream and the
\* StreamHandle among them, and the client's socket is closed.
Return(c) ==
  /\ Goto(c, "closed")
  /\ Registry!DropHandle(handle[c])
  /\ handle' = [handle EXCEPT ![c] = NoHandle]
  /\ up' = [up EXCEPT ![c] = IF @ = "none" THEN "none" ELSE "dropped"]
  /\ UNCHANGED <<clientVars, taken, user, token, spliceVars, upSent,
                 isolationVars, acceptVars>>

Confirm(c) ==
  /\ pc[c] = "reply_ok" /\ net[c] # "reset"
  /\ out' = [out EXCEPT ![c] = Append(@, "rep_ok")]
  /\ Bump("connects_ok")
  /\ Goto(c, "splice")
  /\ UNCHANGED <<clientVars, taken, user, handle, token, spliceVars, torVars,
                 registryVars, isolationVars, acceptVars>>

\* Faulty variant: connects_ok is counted ahead of the reply.
ConfirmFailsCounted(c) ==
  /\ pc[c] = "reply_ok" /\ net[c] = "reset"
  /\ Return(c)
  /\ Bump("connects_ok")
  /\ UNCHANGED out

\* Faulty variant: the row is removed by hand at the end of handle, which an
\* early return does not reach.
ConfirmFailsLeakingRow(c) ==
  /\ pc[c] = "reply_ok" /\ net[c] = "reset"
  /\ Goto(c, "closed")
  /\ handle' = [handle EXCEPT ![c] = NoHandle]
  /\ up' = [up EXCEPT ![c] = "dropped"]
  /\ UNCHANGED <<clientVars, taken, user, token, out, spliceVars, upSent,
                 sharedVars, acceptVars>>

\* The success reply cannot be written: connects_ok is not reached.
ConfirmFails(c) ==
  /\ pc[c] = "reply_ok" /\ net[c] = "reset"
  /\ Return(c)
  /\ UNCHANGED <<out, metrics>>

\* Faulty variant: a failed connect ends the handler without a reply.
FailClosedSilently(c) ==
  /\ pc[c] = "reply_fail"
  /\ Return(c)
  /\ UNCHANGED <<out, metrics>>

FailClosed(c) ==
  /\ pc[c] = "reply_fail"
  /\ out' = IF net[c] = "reset" THEN out
            ELSE [out EXCEPT ![c] = Append(@, "rep_fail")]
  /\ Return(c)
  /\ UNCHANGED metrics

-----------------------------------------------------------------------------
(* The splice: copy_bidirectional over the Metered client. *)

SpliceOnly ==
  UNCHANGED <<clientVars, pc, user, handle, token, out, isolationVars,
              acceptVars>>

\* Metered::poll_read.
TakeFromClient(c) ==
  /\ pc[c] = "splice" /\ fwd[c] = "run"
  /\ Arrived(c) /\ took[c] - gave[c] < BufCap
  /\ Take(c)
  /\ took' = [took EXCEPT ![c] = @ + 1]
  /\ Bump("bytes_to_upstream")
  /\ Registry!CountToUpstream(handle[c])
  /\ UNCHANGED <<fwd, back, gave, got, wrote, torVars>>
  /\ SpliceOnly

GiveToTor(c) ==
  /\ pc[c] = "splice" /\ gave[c] < took[c] /\ up[c] # "err"
  /\ gave' = [gave EXCEPT ![c] = @ + 1]
  /\ UNCHANGED <<taken, fwd, back, took, got, wrote, torVars, metrics,
                 registryVars>>
  /\ SpliceOnly

\* The client's end of file, once the buffer is flushed, shuts the Tor
\* stream's write half down.
ShutTor(c) ==
  /\ pc[c] = "splice" /\ fwd[c] = "run"
  /\ AtEof(c) /\ took[c] = gave[c]
  /\ fwd' = [fwd EXCEPT ![c] = "done"]
  /\ UNCHANGED <<taken, back, took, gave, got, wrote, torVars, metrics,
                 registryVars>>
  /\ SpliceOnly

TakeFromTor(c) ==
  /\ pc[c] = "splice" /\ back[c] = "run"
  /\ got[c] < upSent[c] /\ got[c] - wrote[c] < BufCap
  /\ got' = [got EXCEPT ![c] = @ + 1]
  /\ UNCHANGED <<taken, fwd, back, took, gave, wrote, torVars, metrics,
                 registryVars>>
  /\ SpliceOnly

\* Faulty variant: the process total is left to copy_bidirectional's result.
WriteToClientUncounted(c) ==
  /\ pc[c] = "splice" /\ wrote[c] < got[c] /\ net[c] # "reset"
  /\ wrote' = [wrote EXCEPT ![c] = @ + 1]
  /\ Registry!CountToClient(handle[c])
  /\ UNCHANGED <<taken, fwd, back, took, gave, got, torVars, metrics>>
  /\ SpliceOnly

\* Metered::poll_write.
WriteToClient(c) ==
  /\ pc[c] = "splice" /\ wrote[c] < got[c] /\ net[c] # "reset"
  /\ wrote' = [wrote EXCEPT ![c] = @ + 1]
  /\ Bump("bytes_to_client")
  /\ Registry!CountToClient(handle[c])
  /\ UNCHANGED <<taken, fwd, back, took, gave, got, torVars>>
  /\ SpliceOnly

\* Metered::poll_shutdown, after the destination's end of file.
ShutClient(c) ==
  /\ pc[c] = "splice" /\ back[c] = "run"
  /\ up[c] = "eof" /\ upSent[c] = got[c] /\ got[c] = wrote[c]
  /\ net[c] # "reset"
  /\ back' = [back EXCEPT ![c] = "done"]
  /\ UNCHANGED <<taken, fwd, took, gave, got, wrote, torVars, metrics,
                 registryVars>>
  /\ SpliceOnly

SpliceEnds(c) ==
  /\ pc[c] = "splice" /\ fwd[c] = "done" /\ back[c] = "done"
  /\ Return(c)
  /\ UNCHANGED <<out, metrics>>

\* An error of either side ends both directions at once; a side that no
\* pending read or write touches is not noticed.
SpliceFails(c) ==
  /\ pc[c] = "splice"
  /\ \/ net[c] = "reset"
        /\ \/ fwd[c] = "run"
           \/ wrote[c] < got[c]
           \/ back[c] = "run" /\ up[c] = "eof" /\ got[c] = upSent[c]
     \/ up[c] = "err"
        /\ \/ back[c] = "run"
           \/ gave[c] < took[c]
           \/ fwd[c] = "run" /\ AtEof(c)
  /\ Return(c)
  /\ UNCHANGED <<out, metrics>>

-----------------------------------------------------------------------------
(* The destination and its circuit, external. *)

TorEnvironment(c) ==
  UNCHANGED <<clientVars, taskVars, spliceVars, sharedVars, acceptVars>>

DestinationSends(c) ==
  /\ up[c] = "open" /\ upSent[c] < MaxDown
  /\ upSent' = [upSent EXCEPT ![c] = @ + 1]
  /\ UNCHANGED up
  /\ TorEnvironment(c)

DestinationEnds(c) ==
  /\ up[c] = "open"
  /\ up' = [up EXCEPT ![c] = "eof"]
  /\ UNCHANGED upSent
  /\ TorEnvironment(c)

CircuitFails(c) ==
  /\ up[c] \in {"open", "eof"}
  /\ up' = [up EXCEPT ![c] = "err"]
  /\ UNCHANGED upSent
  /\ TorEnvironment(c)

-----------------------------------------------------------------------------

Client(c) == ClientSends(c) \/ ClientFin(c) \/ ClientResets(c)

Handshake(c) ==
  \/ Greeting(c) \/ Auth(c) \/ Request(c) \/ ReadFails(c)
  \/ TargetFails(c) \/ Dial(c)

TorAnswers(c) == TorOpens(c) \/ TorRefuses(c)
Answer(c) == Confirm(c) \/ ConfirmFails(c) \/ FailClosed(c)
Forward(c) == TakeFromClient(c) \/ GiveToTor(c) \/ ShutTor(c)
Backward(c) == TakeFromTor(c) \/ WriteToClient(c) \/ ShutClient(c)
Finish(c) == SpliceEnds(c) \/ SpliceFails(c)

Destination(c) ==
  DestinationSends(c) \/ DestinationEnds(c) \/ CircuitFails(c)

Next ==
  \/ \E c \in Conns :
       \/ Client(c) \/ Accept(c) \/ Handshake(c) \/ TorAnswers(c) \/ Answer(c)
       \/ Forward(c) \/ Backward(c) \/ Finish(c) \/ Destination(c)
  \/ AcceptFails
  \/ BackoffEnds

Spec == Init /\ [][Next]_vars

(***************************************************************************)
(* Fairness.  A woken task is polled again (tokio's scheduler is fair to   *)
(* ready tasks), copy_bidirectional polls both of its directions each      *)
(* time, and the accept loop and its 50 ms timer go on.  Of arti it is     *)
(* assumed that it answers a connect, of a destination that it ends a      *)
(* stream whose client has ended (handle has no timeout of its own), and   *)
(* of a client that it reads what is written to it; that a client ever     *)
(* sends, finishes or resets is not assumed.                               *)
(***************************************************************************)
Fairness ==
  /\ WF_vars(BackoffEnds)
  /\ \A c \in Conns :
       /\ WF_vars(Accept(c))
       /\ WF_vars(Handshake(c))
       /\ WF_vars(TorAnswers(c))
       /\ WF_vars(Answer(c))
       /\ WF_vars(Forward(c))
       /\ WF_vars(Backward(c))
       /\ WF_vars(Finish(c))
       /\ WF_vars(fwd[c] = "done" /\ DestinationEnds(c))

FairSpec == Spec /\ Fairness

-----------------------------------------------------------------------------
(* Invariants. *)

Chunks == [Conns -> Nat]

Counters == [connects_total : Nat, connects_ok : Nat, connects_failed : Nat,
             bytes_to_upstream : Nat, bytes_to_client : Nat]

ClientTypeOK ==
  /\ script \in [Conns -> Scripts]
  /\ sent \in Chunks /\ \A c \in Conns : sent[c] <= Len(script[c])
  /\ net \in [Conns -> {"open", "fin", "reset"}]

TaskTypeOK ==
  /\ pc \in [Conns -> Phases]
  /\ taken \in Chunks /\ \A c \in Conns : taken[c] <= sent[c]
  /\ user \in [Conns -> Users \cup {NoUser}]
  /\ handle \in [Conns -> Nat \cup {NoHandle}]
  /\ token \in [Conns -> Nat \cup {NoToken}]
  /\ out \in [Conns -> Seq(Replies)]

SpliceTypeOK ==
  /\ fwd \in [Conns -> {"run", "done"}] /\ back \in [Conns -> {"run", "done"}]
  /\ took \in Chunks /\ gave \in Chunks /\ got \in Chunks /\ wrote \in Chunks
  /\ \A c \in Conns : gave[c] <= took[c] /\ took[c] <= gave[c] + BufCap
  /\ \A c \in Conns : wrote[c] <= got[c] /\ got[c] <= wrote[c] + BufCap

TorTypeOK ==
  /\ up \in [Conns -> {"none", "open", "eof", "err", "dropped"}]
  /\ upSent \in [Conns -> 0 .. MaxDown]
  /\ \A c \in Conns : got[c] <= upSent[c]

SharedTypeOK ==
  /\ metrics \in Counters
  /\ Registry!TypeOK
  /\ Tor!TypeOK

AcceptTypeOK ==
  /\ acceptor \in {"accepting", "backoff"}
  /\ acceptErrors \in 0 .. MaxAcceptErrors

\* Every variable keeps its type; the reading position never passes what the
\* client has sent, and the copy buffers stay within their bounds.
TypeOK ==
  /\ ClientTypeOK /\ TaskTypeOK /\ SpliceTypeOK
  /\ TorTypeOK /\ SharedTypeOK /\ AcceptTypeOK

Live == {c \in Conns : pc[c] \in Registered}
Dialled == {c \in Conns : token[c] # NoToken}

\* The registry is the live view of the handlers: a row per handler between
\* its register and its return however it returns, no row without one, and
\* the row shows that connection's peer, isolation user and byte counts
\* (streams.rs: "removed on Drop no matter how the handler task ends").
RegistryIsLiveView ==
  /\ \A c \in Conns : handle[c] # NoHandle <=> c \in Live
  /\ DOMAIN rows = {handle[c] : c \in Live}
  /\ \A c \in Live :
       LET row == rows[handle[c]]
       IN  /\ row.peer = c /\ row.isolation = user[c]
           /\ row.to_upstream = took[c] /\ row.to_client = wrote[c]

InFlight == {c \in Conns : pc[c] \in {"connecting", "reply_ok"}}

\* Tor opened the stream and the client was gone before it could be told.
Unconfirmed ==
  {c \in Conns : up[c] = "dropped" /\ "rep_ok" \notin Range(out[c])}

\* Each CONNECT is counted once and ends in one of two counters, except the
\* ones in flight and the ones whose success reply could not be written
\* (handle's `?` between connects_total and connects_ok).
ConnectsAccounted ==
  /\ metrics.connects_total = Cardinality(Dialled)
  /\ metrics.connects_total = metrics.connects_ok + metrics.connects_failed
                                + Cardinality(InFlight) + Cardinality(Unconfirmed)

\* The process totals are the sum over all connections, ended ones and those
\* that ended in an error included, of what was read from and written to
\* each client (metered.rs: "correct even when the copy ends with an error").
BytesAccounted ==
  /\ metrics.bytes_to_upstream = MapThenSumSet(LAMBDA c : took[c], Conns)
  /\ metrics.bytes_to_client = MapThenSumSet(LAMBDA c : wrote[c], Conns)

\* Which streams may share a circuit, over the life of the process: all of
\* them, those of one username (or of none), or no two of them, as the
\* isolation mode says (tor.rs, isolation_token).
IsolationRespected ==
  \A c, d \in Dialled :
    token[c] = token[d] <=> \/ isolation = "shared"
                            \/ isolation = "per-upstream" /\ user[c] = user[d]
                            \/ c = d

DataSent(c) == Cardinality({i \in 1 .. sent[c] : script[c][i].kind = "data"})

\* A stream that ends cleanly lost nothing: all the client sent after its
\* request, bytes sent ahead of the replies included, has reached the Tor
\* stream, and all the destination sent has reached the client (the exact
\* reads of the handshake, and the splice).
NoPayloadLost ==
  \A c \in Conns :
    /\ fwd[c] = "done" => gave[c] = DataSent(c)
    /\ back[c] = "done" => wrote[c] = upSent[c]

-----------------------------------------------------------------------------
(* What the server implements. *)

\* Where an await of the handler stands in the conversation.
PhaseOf(await) ==
  CASE await = "new" -> "idle"
    [] await = "greeting" -> "hello"
    [] await = "target" -> "request"
    [] await \in {"connecting", "reply_ok", "reply_fail"} -> "dialing"
    [] await = "splice" -> "relay"
    [] OTHER -> await

EgressOf(stream) == IF stream \in {"none", "dropped"} THEN "none" ELSE "tor"

Conversation == [c \in Conns |-> PhaseOf(pc[c])]
Egress == [c \in Conns |-> EgressOf(up[c])]

Contract == INSTANCE Socks5Contract WITH
  phase <- Conversation, said <- out, egress <- Egress,
  carriedUp <- gave, carriedDown <- wrote

\* The client's view: a SOCKS5 transcript, with success and payload only
\* over a Tor stream (server.rs: "never a direct fallback").
ContractHolds == Contract!Spec

\* The handlers use the registry as streams.rs means it: ids are never handed
\* out twice, and no row is counted or dropped that is not there.
RegistryUsedWell == Registry!Spec

-----------------------------------------------------------------------------
(* Liveness, under FairSpec. *)

\* A failed accept never ends the service: a client in the backlog is taken
\* up, or was gone (serve: "must never kill the server").
BacklogIsServed ==
  \A c \in Conns : pc[c] = "new" ~> pc[c] # "new"

\* A client that hangs up, at whatever stage, has its handler return, which
\* frees its row and its Tor stream.
GoneClientIsReleased ==
  \A c \in Conns : (net[c] # "open") ~> pc[c] = "closed"

\* A CONNECT is answered, one way or the other, unless the client is gone.
DialIsAnswered ==
  \A c \in Conns :
    pc[c] = "connecting" ~> \/ net[c] = "reset"
                            \/ Range(out[c]) \cap {"rep_ok", "rep_fail"} # {}
=============================================================================
