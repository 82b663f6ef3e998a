-------------------------- MODULE SocksServerProofs --------------------------
(***************************************************************************)
(* Theorems about SocksServer, for any number of connections, any scripts, *)
(* any buffer size and any bounds: first its type correctness, then the    *)
(* registry, isolation and the contract, each proved on top of it.         *)
(***************************************************************************)
EXTENDS SocksServer, TLAPS

(***************************************************************************)
(* The registry and the isolation map, whoever uses them.                  *)
(***************************************************************************)

\* register adds a well-formed row and moves next_id past it.
LEMMA RegisterType ==
  ASSUME Registry!TypeOK, NEW p \in Conns, NEW h \in Hosts,
         NEW u \in Users \cup {NoUser}, Registry!Register(p, h, u)
  PROVE  Registry!TypeOK'
  BY DEF Registry!TypeOK, Registry!Register, Registry!Entry, Registry!NewEntry

\* Dropping a handle leaves only well-formed rows, be its row there or not.
LEMMA DropHandleType ==
  ASSUME Registry!TypeOK, NEW id, Registry!DropHandle(id)
  PROVE  Registry!TypeOK'
  BY DEF Registry!TypeOK, Registry!DropHandle, Registry!Restrict

\* Counting a chunk changes no more than that column of a row.
LEMMA CountToUpstreamType ==
  ASSUME Registry!TypeOK, NEW id, Registry!CountToUpstream(id)
  PROVE  Registry!TypeOK'
<1>1. DOMAIN rows' = DOMAIN rows /\ next_id' = next_id
  BY DEF Registry!CountToUpstream, Registry!TypeOK
<1>2. ASSUME NEW i \in DOMAIN rows PROVE rows'[i] \in Registry!Entry
  <2>1. rows[i] \in Registry!Entry
    BY DEF Registry!TypeOK
  <2>2. CASE i = id
    <3>1. rows'[i] = [rows[i] EXCEPT !.to_upstream = rows[i].to_upstream + 1]
      BY <2>2, <1>1 DEF Registry!CountToUpstream, Registry!TypeOK
    <3> QED
      BY <3>1, <2>1 DEF Registry!Entry
  <2>3. CASE i # id
    BY <2>1, <2>3, <1>1 DEF Registry!CountToUpstream, Registry!TypeOK
  <2> QED
    BY <2>2, <2>3
<1>3. rows' \in [DOMAIN rows' -> Registry!Entry]
  BY <1>1, <1>2 DEF Registry!CountToUpstream, Registry!TypeOK
<1> QED
  BY <1>1, <1>3 DEF Registry!TypeOK

LEMMA CountToClientType ==
  ASSUME Registry!TypeOK, NEW id, Registry!CountToClient(id)
  PROVE  Registry!TypeOK'
<1>1. DOMAIN rows' = DOMAIN rows /\ next_id' = next_id
  BY DEF Registry!CountToClient, Registry!TypeOK
<1>2. ASSUME NEW i \in DOMAIN rows PROVE rows'[i] \in Registry!Entry
  <2>1. rows[i] \in Registry!Entry
    BY DEF Registry!TypeOK
  <2>2. CASE i = id
    <3>1. rows'[i] = [rows[i] EXCEPT !.to_client = rows[i].to_client + 1]
      BY <2>2, <1>1 DEF Registry!CountToClient, Registry!TypeOK
    <3> QED
      BY <3>1, <2>1 DEF Registry!Entry
  <2>3. CASE i # id
    BY <2>1, <2>3, <1>1 DEF Registry!CountToClient, Registry!TypeOK
  <2> QED
    BY <2>2, <2>3
<1>3. rows' \in [DOMAIN rows' -> Registry!Entry]
  BY <1>1, <1>2 DEF Registry!CountToClient, Registry!TypeOK
<1> QED
  BY <1>1, <1>3 DEF Registry!TypeOK

\* isolation_token returns a token, and what it stores has been minted.
LEMMA ResolveTokenType ==
  ASSUME Tor!TypeOK, NEW u \in Users \cup {NoUser}, Tor!ResolveToken(u)
  PROVE  Tor!TypeOK' /\ Tor!isolation_token(u) \in Nat
<1>1. Tor!isolation_token(u) \in Nat
  BY DEF Tor!TypeOK, Tor!UsesDefault, Tor!Known, Tor!isolation_token,
         Tor!DefaultToken
<1>2. minted' \in Nat \ {0} /\ minted <= minted'
  BY DEF Tor!TypeOK, Tor!ResolveToken
<1>3. isolation' \in Tor!Isolation
  BY DEF Tor!TypeOK, Tor!ResolveToken
<1>4. CASE isolation = "per-upstream" /\ u \in Users \ DOMAIN per_upstream
  <2>1. minted' = minted + 1
    BY <1>4, ServerAssumption
    DEF Tor!TypeOK, Tor!ResolveToken, Tor!UsesDefault, Tor!Known
  <2>2. per_upstream' = [w \in DOMAIN per_upstream \cup {u} |->
                           IF w = u THEN minted ELSE per_upstream[w]]
    BY <1>4 DEF Tor!ResolveToken
  <2>3. DOMAIN per_upstream' = DOMAIN per_upstream \cup {u}
    BY <2>2
  <2>4. DOMAIN per_upstream' \subseteq Users
    BY <1>4, <2>3 DEF Tor!TypeOK
  <2>5. ASSUME NEW w \in DOMAIN per_upstream'
        PROVE  per_upstream'[w] \in 1 .. (minted' - 1)
    BY <2>1, <2>2, <2>3 DEF Tor!TypeOK
  <2>6. per_upstream' \in [DOMAIN per_upstream' -> 1 .. (minted' - 1)]
    BY <2>2, <2>3, <2>5
  <2> QED
    BY <1>1, <1>2, <1>3, <2>4, <2>6 DEF Tor!TypeOK
<1>5. CASE ~ (isolation = "per-upstream" /\ u \in Users \ DOMAIN per_upstream)
  <2>1. per_upstream' = per_upstream
    BY <1>5 DEF Tor!ResolveToken
  <2>2. per_upstream \in [DOMAIN per_upstream -> 1 .. (minted' - 1)]
    BY <1>2 DEF Tor!TypeOK
  <2> QED
    BY <1>1, <1>2, <1>3, <2>1, <2>2 DEF Tor!TypeOK
<1> QED
  BY <1>4, <1>5

(***************************************************************************)
(* Type correctness.                                                       *)
(***************************************************************************)

LEMMA InitTypeOK == Init => TypeOK
<1> SUFFICES ASSUME Init PROVE TypeOK
  OBVIOUS
<1> USE DEF Init
<1>1. ClientTypeOK
  BY ServerAssumption DEF ClientTypeOK, Chunks
<1>2. TaskTypeOK
  BY DEF TaskTypeOK, Chunks, Phases, Registered, NoHandle, NoToken
<1>3. SpliceTypeOK
  BY ServerAssumption DEF SpliceTypeOK, Chunks
<1>4. TorTypeOK
  BY ServerAssumption DEF TorTypeOK
<1>5. metrics \in Counters
  BY DEF Counters
<1>6. Registry!TypeOK
  BY DEF Registry!Init, Registry!TypeOK, Registry!Entry
<1>7. Tor!TypeOK
  BY DEF Tor!Init, Tor!TypeOK, Tor!Isolation
<1>8. AcceptTypeOK
  BY ServerAssumption DEF AcceptTypeOK
<1> QED
  BY <1>1, <1>2, <1>3, <1>4, <1>5, <1>6, <1>7, <1>8 DEF TypeOK, SharedTypeOK

\* A part of the state that a step leaves alone keeps its type.
LEMMA SameClient == ClientTypeOK /\ UNCHANGED clientVars => ClientTypeOK'
  BY DEF ClientTypeOK, clientVars, Chunks
LEMMA SameTask == TaskTypeOK /\ UNCHANGED <<clientVars, taskVars>> => TaskTypeOK'
  BY DEF TaskTypeOK, taskVars, clientVars, Chunks
LEMMA SameSplice == SpliceTypeOK /\ UNCHANGED spliceVars => SpliceTypeOK'
  BY DEF SpliceTypeOK, spliceVars, Chunks
LEMMA SameTor == TorTypeOK /\ UNCHANGED <<got, torVars>> => TorTypeOK'
  BY DEF TorTypeOK, torVars
LEMMA SameShared == SharedTypeOK /\ UNCHANGED sharedVars => SharedTypeOK'
  BY DEF SharedTypeOK, sharedVars, registryVars, isolationVars,
         Registry!TypeOK, Tor!TypeOK
LEMMA SameRegistry == Registry!TypeOK /\ UNCHANGED registryVars => Registry!TypeOK'
  BY DEF registryVars, Registry!TypeOK
LEMMA SameIsolation == Tor!TypeOK /\ UNCHANGED isolationVars => Tor!TypeOK'
  BY DEF isolationVars, Tor!TypeOK
LEMMA SameAccept == AcceptTypeOK /\ UNCHANGED acceptVars => AcceptTypeOK'
  BY DEF AcceptTypeOK, acceptVars

\* A script is a finite sequence of items, and the positions in it are numbers.
LEMMA ScriptFacts ==
  ASSUME TypeOK, NEW c \in Conns
  PROVE  /\ Len(script[c]) \in Nat
         /\ sent[c] \in Nat /\ taken[c] \in Nat
         /\ sent[c] <= Len(script[c])
         /\ Arrived(c) => Item(c) \in Items
  BY ServerAssumption
  DEF TypeOK, ClientTypeOK, TaskTypeOK, Chunks, Arrived, Item

\* Reading an item that has arrived keeps the reading position within bounds.
LEMMA TakeType ==
  ASSUME TypeOK, NEW c \in Conns, Arrived(c), Take(c)
  PROVE  taken' \in Chunks /\ \A d \in Conns : taken'[d] <= sent[d]
  BY ScriptFacts DEF TypeOK, TaskTypeOK, Chunks, Take, Arrived

\* The client's own steps.
LEMMA ClientTypeStep ==
  ASSUME TypeOK, NEW c \in Conns, Client(c)
  PROVE  TypeOK'
<1> USE DEF TypeOK, Client
<1>1. ClientTypeOK' /\ TaskTypeOK'
  <2>1. CASE ClientSends(c)
    BY <2>1, ScriptFacts
    DEF ClientSends, ClientTypeOK, TaskTypeOK, taskVars, Chunks
  <2>2. CASE ClientFin(c)
    BY <2>2 DEF ClientFin, ClientTypeOK, TaskTypeOK, taskVars, Chunks
  <2>3. CASE ClientResets(c)
    BY <2>3 DEF ClientResets, ClientTypeOK, TaskTypeOK, taskVars, Chunks
  <2> QED
    BY <2>1, <2>2, <2>3
<1>2. UNCHANGED <<spliceVars, torVars, sharedVars, acceptVars>>
  BY DEF ClientSends, ClientFin, ClientResets
<1>3. SpliceTypeOK' /\ TorTypeOK' /\ SharedTypeOK' /\ AcceptTypeOK'
  BY <1>2, SameSplice, SameTor, SameShared, SameAccept DEF spliceVars
<1> QED
  BY <1>1, <1>3

\* The accept loop.
LEMMA AcceptTypeStep ==
  ASSUME TypeOK, (\E c \in Conns : Accept(c)) \/ AcceptFails \/ BackoffEnds
  PROVE  TypeOK'
<1> USE DEF TypeOK
<1>1. TaskTypeOK' /\ AcceptTypeOK'
  <2>1. ASSUME NEW c \in Conns, Accept(c) PROVE TaskTypeOK' /\ AcceptTypeOK'
    BY <2>1, SameAccept
    DEF Accept, TaskTypeOK, clientVars, Phases, Chunks
  <2>2. ASSUME AcceptFails PROVE TaskTypeOK' /\ AcceptTypeOK'
    <3>1. pc' \in [Conns -> Phases]
      BY <2>2 DEF AcceptFails, TaskTypeOK, Phases
    <3>2. TaskTypeOK'
      BY <2>2, <3>1 DEF AcceptFails, TaskTypeOK, clientVars, Chunks
    <3>3. AcceptTypeOK'
      BY <2>2, ServerAssumption DEF AcceptFails, AcceptTypeOK
    <3> QED
      BY <3>2, <3>3
  <2>3. ASSUME BackoffEnds PROVE TaskTypeOK' /\ AcceptTypeOK'
    BY <2>3, SameTask DEF BackoffEnds, AcceptTypeOK
  <2> QED
    BY <2>1, <2>2, <2>3
<1>2. UNCHANGED <<clientVars, spliceVars, torVars, sharedVars>>
  BY DEF Accept, AcceptFails, BackoffEnds
<1>3. ClientTypeOK' /\ SpliceTypeOK' /\ TorTypeOK' /\ SharedTypeOK'
  BY <1>2, SameClient, SameSplice, SameTor, SameShared DEF spliceVars
<1> QED
  BY <1>1, <1>3

\* What the handler says and where it goes next are of their types.
LEMMA SayType ==
  ASSUME TypeOK, NEW c \in Conns, NEW rep \in Replies, NEW next \in Phases,
         Say(c, rep, next)
  PROVE  pc' \in [Conns -> Phases] /\ out' \in [Conns -> Seq(Replies)]
<1> DEFINE longer == Append(out[c], rep)
<1>1. longer \in Seq(Replies)
  BY DEF TypeOK, TaskTypeOK
<1> HIDE DEF longer
<1>2. out' = out \/ out' = [out EXCEPT ![c] = longer]
  BY DEF Say, longer
<1>3. out' \in [Conns -> Seq(Replies)]
  BY <1>1, <1>2 DEF TypeOK, TaskTypeOK
<1>4. pc' \in [Conns -> Phases]
  BY DEF TypeOK, TaskTypeOK, Say, Goto, Phases
<1> QED
  BY <1>3, <1>4

LEMMA BailType ==
  ASSUME TypeOK, NEW c \in Conns, Bail(c)
  PROVE  pc' \in [Conns -> Phases] /\ out' \in [Conns -> Seq(Replies)]
  BY DEF TypeOK, TaskTypeOK, Bail, Goto, Phases

\* The handshake, up to the target.
LEMMA HandshakeTypeStep ==
  ASSUME TypeOK, NEW c \in Conns,
         Greeting(c) \/ Auth(c) \/ Request(c) \/ ReadFails(c) \/ TargetFails(c)
  PROVE  TypeOK'
<1>1. pc' \in [Conns -> Phases] /\ out' \in [Conns -> Seq(Replies)]
  <2> USE SayType, BailType DEF Replies, Phases
  <2>1. CASE Greeting(c)
    BY <2>1 DEF Greeting
  <2>2. CASE Auth(c)
    BY <2>2 DEF Auth
  <2>3. CASE Request(c)
    <3>1. CASE Goto(c, "target") /\ UNCHANGED out
      BY <3>1 DEF Goto, TypeOK, TaskTypeOK
    <3> QED
      BY <2>3, <3>1 DEF Request
  <2>4. CASE ReadFails(c)
    BY <2>4 DEF ReadFails
  <2>5. CASE TargetFails(c)
    BY <2>5 DEF TargetFails
  <2> QED
    BY <2>1, <2>2, <2>3, <2>4, <2>5
<1>2. /\ taken' = taken \/ (Arrived(c) /\ Take(c))
      /\ HandshakeOnly
  BY DEF Greeting, Auth, Request, ReadFails, TargetFails
<1>3. user' \in [Conns -> Users \cup {NoUser}]
  <2>1. CASE Auth(c)
    <3>1. Item(c) \in Items
      BY <2>1, ScriptFacts DEF Auth
    <3>2. Item(c).kind = "auth" => Item(c).user \in Users \cup {Garbled}
      BY <3>1 DEF Items
    <3> QED
      BY <2>1, <3>2 DEF Auth, TypeOK, TaskTypeOK
  <2>2. CASE UNCHANGED user
    BY <2>2 DEF TypeOK, TaskTypeOK
  <2> QED
    BY <2>1, <2>2 DEF Greeting, Request, ReadFails, TargetFails
<1>4. /\ taken' \in Chunks
      /\ \A d \in Conns : taken'[d] <= sent[d]
  BY <1>2, TakeType DEF TypeOK, TaskTypeOK
<1>5. TaskTypeOK'
  BY <1>1, <1>2, <1>3, <1>4
  DEF TypeOK, TaskTypeOK, HandshakeOnly, clientVars, Chunks
<1>6. ClientTypeOK' /\ SpliceTypeOK' /\ TorTypeOK' /\ SharedTypeOK' /\ AcceptTypeOK'
  BY <1>2, SameClient, SameSplice, SameTor, SameShared, SameAccept
  DEF TypeOK, HandshakeOnly, spliceVars
<1> QED
  BY <1>5, <1>6 DEF TypeOK

\* The CONNECT: a row, a token and a count.
LEMMA DialTypeStep ==
  ASSUME TypeOK, NEW c \in Conns, Dial(c)
  PROVE  TypeOK'
<1> USE DEF Dial
<1>1. /\ Item(c).host \in Hosts
      /\ user[c] \in Users \cup {NoUser}
  <2>1. Item(c) \in Items
    BY ScriptFacts
  <2> QED
    BY <2>1 DEF Items, TypeOK, TaskTypeOK
<1>2. metrics' \in Counters
  BY DEF TypeOK, SharedTypeOK, Bump, Counters
<1>3. Registry!TypeOK'
  BY <1>1, RegisterType DEF TypeOK, SharedTypeOK
<1>4. Tor!TypeOK' /\ Tor!isolation_token(user[c]) \in Nat
  BY <1>1, ResolveTokenType DEF TypeOK, SharedTypeOK
<1>5. handle' \in [Conns -> Nat \cup {NoHandle}]
  BY DEF TypeOK, SharedTypeOK, TaskTypeOK, Registry!TypeOK
<1>6. token' \in [Conns -> Nat \cup {NoToken}]
  BY <1>4 DEF TypeOK, TaskTypeOK
<1>7. /\ taken' \in Chunks
      /\ \A d \in Conns : taken'[d] <= sent[d]
  BY TakeType
<1>8. pc' \in [Conns -> Phases]
  BY DEF TypeOK, TaskTypeOK, Goto, Phases, Registered
<1>9. TaskTypeOK'
  BY <1>5, <1>6, <1>7, <1>8 DEF TypeOK, TaskTypeOK, clientVars, Chunks
<1>10. ClientTypeOK' /\ SpliceTypeOK' /\ TorTypeOK' /\ AcceptTypeOK'
  BY SameClient, SameSplice, SameTor, SameAccept DEF TypeOK, spliceVars
<1> QED
  BY <1>2, <1>3, <1>4, <1>9, <1>10 DEF TypeOK, SharedTypeOK

\* handle's return, whatever it was about to say.
LEMMA ReturnTypeStep ==
  ASSUME TypeOK, NEW c \in Conns, Return(c),
         out' \in [Conns -> Seq(Replies)], UNCHANGED metrics
  PROVE  TypeOK'
<1> USE DEF Return
<1>1. TaskTypeOK'
  BY DEF TypeOK, TaskTypeOK, clientVars, Chunks, Goto, Phases
<1>2. TorTypeOK'
  BY DEF TypeOK, TorTypeOK, spliceVars
<1>3. SharedTypeOK'
  BY DropHandleType, SameIsolation DEF TypeOK, SharedTypeOK
<1>4. ClientTypeOK' /\ SpliceTypeOK' /\ AcceptTypeOK'
  BY SameClient, SameSplice, SameAccept DEF TypeOK
<1> QED
  BY <1>1, <1>2, <1>3, <1>4 DEF TypeOK

\* Tor's answer, and what the handler makes of it.
LEMMA AnswerTypeStep ==
  ASSUME TypeOK, NEW c \in Conns,
         TorOpens(c) \/ TorRefuses(c) \/ Confirm(c) \/ ConfirmFails(c) \/ FailClosed(c)
  PROVE  TypeOK'
<1>1. CASE TorOpens(c)
  <2>1. TaskTypeOK' /\ TorTypeOK'
    BY <1>1
    DEF TorOpens, TypeOK, TaskTypeOK, TorTypeOK, clientVars, spliceVars, Chunks,
        Goto, Phases, Registered
  <2> QED
    BY <1>1, <2>1, SameClient, SameSplice, SameShared, SameAccept
    DEF TorOpens, TypeOK
<1>2. CASE TorRefuses(c)
  <2>1. TaskTypeOK'
    BY <1>2
    DEF TorRefuses, TypeOK, TaskTypeOK, clientVars, Chunks, Goto, Phases, Registered
  <2>2. metrics' \in Counters
    BY <1>2 DEF TorRefuses, TypeOK, SharedTypeOK, Bump, Counters
  <2> QED
    BY <1>2, <2>1, <2>2, SameClient, SameSplice, SameTor, SameRegistry,
       SameIsolation, SameAccept
    DEF TorRefuses, TypeOK, SharedTypeOK, spliceVars
<1>3. CASE Confirm(c)
  <2>1. Append(out[c], "rep_ok") \in Seq(Replies)
    BY DEF TypeOK, TaskTypeOK, Replies
  <2>2. out' \in [Conns -> Seq(Replies)]
    BY <1>3, <2>1 DEF Confirm, TypeOK, TaskTypeOK
  <2>3. TaskTypeOK'
    BY <1>3, <2>2
    DEF Confirm, TypeOK, TaskTypeOK, clientVars, Chunks, Goto, Phases, Registered
  <2>4. metrics' \in Counters
    BY <1>3 DEF Confirm, TypeOK, SharedTypeOK, Bump, Counters
  <2> QED
    BY <1>3, <2>3, <2>4, SameClient, SameSplice, SameTor, SameRegistry,
       SameIsolation, SameAccept
    DEF Confirm, TypeOK, SharedTypeOK, spliceVars
<1>4. CASE ConfirmFails(c)
  BY <1>4, ReturnTypeStep DEF ConfirmFails, TypeOK, TaskTypeOK
<1>5. CASE FailClosed(c)
  <2>1. Append(out[c], "rep_fail") \in Seq(Replies)
    BY DEF TypeOK, TaskTypeOK, Replies
  <2>2. out' \in [Conns -> Seq(Replies)]
    BY <1>5, <2>1 DEF FailClosed, TypeOK, TaskTypeOK
  <2> QED
    BY <1>5, <2>2, ReturnTypeStep DEF FailClosed
<1> QED
  BY <1>1, <1>2, <1>3, <1>4, <1>5

\* The copy, chunk by chunk.
LEMMA SpliceTypeStep ==
  ASSUME TypeOK, NEW c \in Conns, Forward(c) \/ Backward(c)
  PROVE  TypeOK'
<1> USE DEF Forward, Backward
<1>1. SpliceTypeOK'
  <2>1. CASE TakeFromClient(c)
    BY <2>1, ServerAssumption DEF TakeFromClient, TypeOK, SpliceTypeOK, Chunks
  <2>2. CASE GiveToTor(c)
    BY <2>2, ServerAssumption DEF GiveToTor, TypeOK, SpliceTypeOK, Chunks
  <2>3. CASE ShutTor(c)
    BY <2>3 DEF ShutTor, TypeOK, SpliceTypeOK, Chunks
  <2>4. CASE TakeFromTor(c)
    BY <2>4, ServerAssumption DEF TakeFromTor, TypeOK, SpliceTypeOK, Chunks
  <2>5. CASE WriteToClient(c)
    BY <2>5, ServerAssumption DEF WriteToClient, TypeOK, SpliceTypeOK, Chunks
  <2>6. CASE ShutClient(c)
    BY <2>6 DEF ShutClient, TypeOK, SpliceTypeOK, Chunks
  <2> QED
    BY <2>1, <2>2, <2>3, <2>4, <2>5, <2>6
<1>2. TorTypeOK'
  <2>1. UNCHANGED torVars
    BY DEF TakeFromClient, GiveToTor, ShutTor, TakeFromTor, WriteToClient, ShutClient
  <2>2. CASE TakeFromTor(c)
    <3>1. \A d \in Conns : got'[d] <= upSent[d]
      BY <2>2, ServerAssumption
      DEF TakeFromTor, TypeOK, TorTypeOK, SpliceTypeOK, Chunks
    <3> QED
      BY <2>1, <3>1 DEF TypeOK, TorTypeOK, torVars
  <2>3. CASE UNCHANGED got
    BY <2>1, <2>3, SameTor DEF TypeOK
  <2> QED
    BY <2>2, <2>3 DEF TakeFromClient, GiveToTor, ShutTor, WriteToClient, ShutClient
<1>3. SpliceOnly
  BY DEF TakeFromClient, GiveToTor, ShutTor, TakeFromTor, WriteToClient, ShutClient
<1>4. TaskTypeOK'
  <2>1. taken' \in Chunks /\ \A d \in Conns : taken'[d] <= sent[d]
    <3>1. CASE TakeFromClient(c)
      BY <3>1, TakeType DEF TakeFromClient
    <3>2. CASE UNCHANGED taken
      BY <3>2 DEF TypeOK, TaskTypeOK
    <3> QED
      BY <3>1, <3>2 DEF GiveToTor, ShutTor, TakeFromTor, WriteToClient, ShutClient
  <2> QED
    BY <1>3, <2>1 DEF SpliceOnly, TypeOK, TaskTypeOK, clientVars, Chunks
<1>5. SharedTypeOK'
  <2>1. metrics' \in Counters
    BY DEF TakeFromClient, GiveToTor, ShutTor, TakeFromTor, WriteToClient,
           ShutClient, TypeOK, SharedTypeOK, Bump, Counters
  <2>2. Registry!TypeOK'
    BY CountToUpstreamType, CountToClientType, SameRegistry
    DEF TakeFromClient, GiveToTor, ShutTor, TakeFromTor, WriteToClient,
        ShutClient, TypeOK, SharedTypeOK
  <2> QED
    BY <1>3, <2>1, <2>2, SameIsolation DEF SpliceOnly, TypeOK, SharedTypeOK
<1>6. ClientTypeOK' /\ AcceptTypeOK'
  BY <1>3, SameClient, SameAccept DEF SpliceOnly, TypeOK
<1> QED
  BY <1>1, <1>4, <1>5, <1>6, <1>2 DEF TypeOK

\* The far end of the stream.
LEMMA DestinationTypeStep ==
  ASSUME TypeOK, NEW c \in Conns, Destination(c)
  PROVE  TypeOK'
<1> USE DEF Destination, DestinationSends, DestinationEnds, CircuitFails
<1>1. UNCHANGED <<clientVars, taskVars, spliceVars, sharedVars, acceptVars>>
  BY DEF TorEnvironment
<1>2. up' \in [Conns -> {"none", "open", "eof", "err", "dropped"}]
  BY DEF TypeOK, TorTypeOK
<1>3. upSent' \in [Conns -> 0 .. MaxDown]
  BY ServerAssumption DEF TypeOK, TorTypeOK
<1>4. \A d \in Conns : upSent[d] <= upSent'[d]
  BY ServerAssumption DEF TypeOK, TorTypeOK
<1>5. \A d \in Conns : got[d] <= upSent'[d]
  BY <1>3, <1>4, ServerAssumption DEF TypeOK, TorTypeOK, SpliceTypeOK, Chunks
<1>6. TorTypeOK'
  BY <1>1, <1>2, <1>3, <1>5 DEF TorTypeOK, spliceVars
<1> QED
  BY <1>1, <1>6, SameClient, SameTask, SameSplice, SameShared, SameAccept DEF TypeOK

\* No step of the server or of its surroundings takes a variable out of its
\* type.
LEMMA NextTypeOK == TypeOK /\ [Next]_vars => TypeOK'
<1> SUFFICES ASSUME TypeOK, [Next]_vars PROVE TypeOK'
  OBVIOUS
<1>1. ASSUME NEW c \in Conns, Client(c) PROVE TypeOK'
  BY <1>1, ClientTypeStep
<1>2. CASE (\E c \in Conns : Accept(c)) \/ AcceptFails \/ BackoffEnds
  BY <1>2, AcceptTypeStep
<1>3. ASSUME NEW c \in Conns, Handshake(c) PROVE TypeOK'
  BY <1>3, HandshakeTypeStep, DialTypeStep DEF Handshake
<1>4. ASSUME NEW c \in Conns, TorAnswers(c) \/ Answer(c) PROVE TypeOK'
  BY <1>4, AnswerTypeStep DEF TorAnswers, Answer
<1>5. ASSUME NEW c \in Conns, Forward(c) \/ Backward(c) PROVE TypeOK'
  BY <1>5, SpliceTypeStep
<1>6. ASSUME NEW c \in Conns, Finish(c) PROVE TypeOK'
  BY <1>6, ReturnTypeStep
  DEF Finish, SpliceEnds, SpliceFails, TypeOK, TaskTypeOK
<1>7. ASSUME NEW c \in Conns, Destination(c) PROVE TypeOK'
  BY <1>7, DestinationTypeStep
<1>8. CASE UNCHANGED vars
  BY <1>8, SameClient, SameTask, SameSplice, SameTor, SameShared, SameAccept
  DEF vars, spliceVars, TypeOK
<1> QED
  BY <1>1, <1>2, <1>3, <1>4, <1>5, <1>6, <1>7, <1>8 DEF Next

\* Every variable keeps its type in every execution: no row is malformed, the
\* copy buffers never overflow and no handler reads past what has arrived.
THEOREM TypeCorrect == Spec => []TypeOK
<1>1. Init => TypeOK
  BY InitTypeOK
<1>2. TypeOK /\ [Next]_vars => TypeOK'
  BY NextTypeOK
<1> QED
  BY <1>1, <1>2, PTL DEF Spec

-----------------------------------------------------------------------------
(***************************************************************************)
(* The registry is the live view of the handlers.                          *)
(*                                                                         *)
(* A new row starts from zero counts, so to know that it agrees with its   *)
(* connection one must know that nothing was copied before the splice.     *)
(***************************************************************************)

NothingCopiedBeforeSplice ==
  \A c \in Conns :
    pc[c] \notin {"splice", "closed"} => took[c] = 0 /\ wrote[c] = 0

RegistryInv == TypeOK /\ RegistryIsLiveView /\ NothingCopiedBeforeSplice

\* The rows are told apart by their peers, so no two handlers share a handle.
LEMMA HandlesDiffer ==
  ASSUME RegistryIsLiveView, NEW c \in Live, NEW d \in Live,
         handle[c] = handle[d]
  PROVE  c = d
  BY DEF RegistryIsLiveView

\* A step that touches no row, no handle, no byte count and no live handler.
LEMMA SameView ==
  ASSUME RegistryIsLiveView, UNCHANGED <<rows, handle, took, wrote>>,
         Live' = Live, \A c \in Live : user'[c] = user[c]
  PROVE  RegistryIsLiveView'
  BY DEF RegistryIsLiveView

\* A handler that goes from one await to another of the same kind, holding a
\* handle at both or at neither, leaves the set of live handlers as it is.
LEMMA SameLive ==
  ASSUME TypeOK, NEW c \in Conns, NEW p, pc' = [pc EXCEPT ![c] = p],
         p \in Registered <=> pc[c] \in Registered
  PROVE  Live' = Live
  BY DEF Live, TypeOK, TaskTypeOK

\* What the handshake does to pc and to the username.
LEMMA HandshakeMoves ==
  ASSUME TypeOK, NEW c \in Conns,
         Greeting(c) \/ Auth(c) \/ Request(c) \/ ReadFails(c) \/ TargetFails(c)
  PROVE  /\ pc[c] \in {"greeting", "auth", "request", "target"}
         /\ \E p \in {"auth", "request", "target", "closed"} :
              pc' = [pc EXCEPT ![c] = p]
         /\ \A d \in Conns \ {c} : user'[d] = user[d]
         /\ HandshakeOnly
<1> USE DEF Say, Bail, Goto
<1>1. CASE Greeting(c)
  BY <1>1 DEF Greeting
<1>2. CASE Auth(c)
  BY <1>2 DEF Auth, TypeOK, TaskTypeOK
<1>3. CASE Request(c)
  BY <1>3 DEF Request
<1>4. CASE ReadFails(c)
  BY <1>4 DEF ReadFails
<1>5. CASE TargetFails(c)
  BY <1>5 DEF TargetFails
<1> QED
  BY <1>1, <1>2, <1>3, <1>4, <1>5

\* Registering: the new row is the new handler's, with nothing copied yet.
LEMMA DialView ==
  ASSUME RegistryInv, NEW c \in Conns, Dial(c)
  PROVE  RegistryIsLiveView' /\ NothingCopiedBeforeSplice'
<1> USE DEF RegistryInv, Dial
<1>1. Live' = Live \cup {c} /\ c \notin Live
  BY DEF Live, Registered, Goto, TypeOK, TaskTypeOK
<1>2. next_id \notin DOMAIN rows /\ next_id \in Nat
  BY DEF TypeOK, SharedTypeOK, Registry!TypeOK
<1>3. /\ DOMAIN rows' = DOMAIN rows \cup {next_id}
      /\ rows'[next_id] = Registry!NewEntry(c, Item(c).host, user[c])
      /\ \A i \in DOMAIN rows : rows'[i] = rows[i]
  BY <1>2 DEF Registry!Register
<1>4. /\ handle'[c] = next_id
      /\ \A d \in Conns \ {c} : handle'[d] = handle[d]
  BY DEF TypeOK, TaskTypeOK
<1>5. \A d \in Live : handle[d] \in DOMAIN rows
  BY DEF RegistryIsLiveView
<1>6. Live \subseteq Conns
  BY DEF Live
<1>7. took[c] = 0 /\ wrote[c] = 0 /\ UNCHANGED <<user, took, wrote>>
  BY DEF NothingCopiedBeforeSplice, spliceVars
<1>8. \A d \in Conns : handle'[d] # NoHandle <=> d \in Live'
  BY <1>1, <1>2, <1>4 DEF RegistryIsLiveView, NoHandle
<1>9. DOMAIN rows' = {handle'[d] : d \in Live'}
  BY <1>1, <1>3, <1>4, <1>6 DEF RegistryIsLiveView
<1>10. ASSUME NEW d \in Live'
       PROVE  LET row == rows'[handle'[d]]
              IN  /\ row.peer = d /\ row.isolation = user'[d]
                  /\ row.to_upstream = took'[d] /\ row.to_client = wrote'[d]
  <2>1. CASE d = c
    BY <2>1, <1>3, <1>4, <1>7 DEF Registry!NewEntry
  <2>2. CASE d # c
    <3>1. d \in Live /\ handle'[d] = handle[d] /\ rows'[handle[d]] = rows[handle[d]]
      BY <2>2, <1>1, <1>3, <1>4, <1>5, <1>6
    <3> QED
      BY <3>1, <1>7 DEF RegistryIsLiveView
  <2> QED
    BY <2>1, <2>2
<1>11. RegistryIsLiveView'
  BY <1>8, <1>9, <1>10 DEF RegistryIsLiveView
<1>12. NothingCopiedBeforeSplice'
  BY <1>7 DEF NothingCopiedBeforeSplice, Goto, TypeOK, TaskTypeOK
<1> QED
  BY <1>11, <1>12

\* Returning: the row that goes is the returning handler's and no other's.
LEMMA ReturnView ==
  ASSUME RegistryInv, NEW c \in Live, Return(c)
  PROVE  RegistryIsLiveView' /\ NothingCopiedBeforeSplice'
<1> USE DEF RegistryInv, Return
<1>1. c \in Conns /\ Live \subseteq Conns
  BY DEF Live
<1>2. Live' = Live \ {c}
  BY <1>1 DEF Live, Registered, Goto, TypeOK, TaskTypeOK
<1>3. /\ handle'[c] = NoHandle
      /\ \A d \in Conns \ {c} : handle'[d] = handle[d]
  BY <1>1 DEF TypeOK, TaskTypeOK
<1>4. /\ DOMAIN rows' = DOMAIN rows \ {handle[c]}
      /\ \A i \in DOMAIN rows' : rows'[i] = rows[i]
  BY DEF Registry!DropHandle, Registry!Restrict
<1>5. \A d \in Live \ {c} : handle[d] # handle[c] /\ handle[d] \in DOMAIN rows
  BY HandlesDiffer DEF RegistryIsLiveView
<1>6. UNCHANGED <<user, took, wrote>>
  BY DEF spliceVars
<1>7. \A d \in Conns : handle'[d] # NoHandle <=> d \in Live'
  BY <1>1, <1>2, <1>3 DEF RegistryIsLiveView
<1>8. DOMAIN rows' = {handle'[d] : d \in Live'}
  BY <1>1, <1>2, <1>3, <1>4, <1>5 DEF RegistryIsLiveView
<1>9. ASSUME NEW d \in Live'
      PROVE  LET row == rows'[handle'[d]]
             IN  /\ row.peer = d /\ row.isolation = user'[d]
                 /\ row.to_upstream = took'[d] /\ row.to_client = wrote'[d]
  <2>1. d \in Live /\ handle'[d] = handle[d] /\ rows'[handle[d]] = rows[handle[d]]
    BY <1>1, <1>2, <1>3, <1>4, <1>5
  <2> QED
    BY <2>1, <1>6 DEF RegistryIsLiveView
<1>10. RegistryIsLiveView'
  BY <1>7, <1>8, <1>9 DEF RegistryIsLiveView
<1>11. NothingCopiedBeforeSplice'
  BY <1>1, <1>6 DEF NothingCopiedBeforeSplice, Goto, TypeOK, TaskTypeOK
<1> QED
  BY <1>10, <1>11

\* Counting: the chunk is counted in the row of the connection it crossed.
LEMMA TakeView ==
  ASSUME RegistryInv, NEW c \in Conns, TakeFromClient(c)
  PROVE  RegistryIsLiveView' /\ NothingCopiedBeforeSplice'
<1> USE DEF RegistryInv, TakeFromClient, SpliceOnly
<1>1. c \in Live /\ Live' = Live /\ Live \subseteq Conns
  BY DEF Live, Registered
<1>2. handle[c] \in DOMAIN rows /\ rows[handle[c]].to_upstream = took[c]
  BY <1>1 DEF RegistryIsLiveView
<1>3. /\ DOMAIN rows' = DOMAIN rows
      /\ rows'[handle[c]] = [rows[handle[c]] EXCEPT !.to_upstream = @ + 1]
      /\ \A i \in DOMAIN rows \ {handle[c]} : rows'[i] = rows[i]
  BY <1>2 DEF Registry!CountToUpstream, TypeOK, SharedTypeOK, Registry!TypeOK
<1>4. /\ took'[c] = took[c] + 1
      /\ \A d \in Conns \ {c} : took'[d] = took[d]
      /\ UNCHANGED <<pc, user, handle, wrote>>
  BY DEF TypeOK, SpliceTypeOK, Chunks
<1>5. \A d \in Conns : handle'[d] # NoHandle <=> d \in Live'
  BY <1>1, <1>4 DEF RegistryIsLiveView
<1>6. DOMAIN rows' = {handle'[d] : d \in Live'}
  BY <1>1, <1>3, <1>4 DEF RegistryIsLiveView
<1>7. ASSUME NEW d \in Live'
      PROVE  LET row == rows'[handle'[d]]
             IN  /\ row.peer = d /\ row.isolation = user'[d]
                 /\ row.to_upstream = took'[d] /\ row.to_client = wrote'[d]
  <2>1. CASE d = c
    <3>1. rows[handle[c]] \in Registry!Entry
      BY <1>2 DEF TypeOK, SharedTypeOK, Registry!TypeOK
    <3> QED
      BY <2>1, <3>1, <1>1, <1>2, <1>3, <1>4 DEF RegistryIsLiveView, Registry!Entry
  <2>2. CASE d # c
    <3>1. d \in Live /\ handle[d] # handle[c] /\ handle[d] \in DOMAIN rows
      BY <2>2, <1>1, HandlesDiffer DEF RegistryIsLiveView
    <3> QED
      BY <2>2, <3>1, <1>1, <1>3, <1>4 DEF RegistryIsLiveView
  <2> QED
    BY <2>1, <2>2
<1>8. NothingCopiedBeforeSplice'
  BY <1>4 DEF NothingCopiedBeforeSplice
<1> QED
  BY <1>5, <1>6, <1>7, <1>8 DEF RegistryIsLiveView

LEMMA WriteView ==
  ASSUME RegistryInv, NEW c \in Conns, WriteToClient(c)
  PROVE  RegistryIsLiveView' /\ NothingCopiedBeforeSplice'
<1> USE DEF RegistryInv, WriteToClient, SpliceOnly
<1>1. c \in Live /\ Live' = Live /\ Live \subseteq Conns
  BY DEF Live, Registered
<1>2. handle[c] \in DOMAIN rows /\ rows[handle[c]].to_client = wrote[c]
  BY <1>1 DEF RegistryIsLiveView
<1>3. /\ DOMAIN rows' = DOMAIN rows
      /\ rows'[handle[c]] = [rows[handle[c]] EXCEPT !.to_client = @ + 1]
      /\ \A i \in DOMAIN rows \ {handle[c]} : rows'[i] = rows[i]
  BY <1>2 DEF Registry!CountToClient, TypeOK, SharedTypeOK, Registry!TypeOK
<1>4. /\ wrote'[c] = wrote[c] + 1
      /\ \A d \in Conns \ {c} : wrote'[d] = wrote[d]
      /\ UNCHANGED <<pc, user, handle, took>>
  BY DEF TypeOK, SpliceTypeOK, Chunks
<1>5. \A d \in Conns : handle'[d] # NoHandle <=> d \in Live'
  BY <1>1, <1>4 DEF RegistryIsLiveView
<1>6. DOMAIN rows' = {handle'[d] : d \in Live'}
  BY <1>1, <1>3, <1>4 DEF RegistryIsLiveView
<1>7. ASSUME NEW d \in Live'
      PROVE  LET row == rows'[handle'[d]]
             IN  /\ row.peer = d /\ row.isolation = user'[d]
                 /\ row.to_upstream = took'[d] /\ row.to_client = wrote'[d]
  <2>1. CASE d = c
    <3>1. rows[handle[c]] \in Registry!Entry
      BY <1>2 DEF TypeOK, SharedTypeOK, Registry!TypeOK
    <3> QED
      BY <2>1, <3>1, <1>1, <1>2, <1>3, <1>4 DEF RegistryIsLiveView, Registry!Entry
  <2>2. CASE d # c
    <3>1. d \in Live /\ handle[d] # handle[c] /\ handle[d] \in DOMAIN rows
      BY <2>2, <1>1, HandlesDiffer DEF RegistryIsLiveView
    <3> QED
      BY <2>2, <3>1, <1>1, <1>3, <1>4 DEF RegistryIsLiveView
  <2> QED
    BY <2>1, <2>2
<1>8. NothingCopiedBeforeSplice'
  BY <1>4 DEF NothingCopiedBeforeSplice
<1> QED
  BY <1>5, <1>6, <1>7, <1>8 DEF RegistryIsLiveView

LEMMA InitRegistryInv == Init => RegistryInv
<1> SUFFICES ASSUME Init PROVE RegistryInv
  OBVIOUS
<1>1. TypeOK
  BY InitTypeOK
<1>2. Live = {} /\ DOMAIN rows = {}
  BY DEF Init, Live, Registered, Registry!Init
<1>3. RegistryIsLiveView
  BY <1>2 DEF Init, RegistryIsLiveView
<1>4. NothingCopiedBeforeSplice
  BY DEF Init, NothingCopiedBeforeSplice
<1> QED
  BY <1>1, <1>3, <1>4 DEF RegistryInv

LEMMA NextRegistryInv == RegistryInv /\ [Next]_vars => RegistryInv'
<1> SUFFICES ASSUME RegistryInv, [Next]_vars
             PROVE  RegistryIsLiveView' /\ NothingCopiedBeforeSplice'
  BY NextTypeOK DEF RegistryInv
<1> USE DEF RegistryInv
<1>1. ASSUME NEW c \in Conns, Client(c) \/ Destination(c)
      PROVE  RegistryIsLiveView' /\ NothingCopiedBeforeSplice'
  <2>1. UNCHANGED <<taskVars, spliceVars, sharedVars>>
    BY <1>1
    DEF Client, ClientSends, ClientFin, ClientResets, Destination,
        DestinationSends, DestinationEnds, CircuitFails, TorEnvironment
  <2> QED
    BY <2>1, SameView
    DEF taskVars, spliceVars, sharedVars, registryVars, Live,
        NothingCopiedBeforeSplice
<1>2. CASE (\E c \in Conns : Accept(c)) \/ AcceptFails \/ BackoffEnds
  <2>1. UNCHANGED <<user, handle, spliceVars, sharedVars>>
    BY <1>2 DEF Accept, AcceptFails, BackoffEnds, taskVars
  <2>2. \/ UNCHANGED pc
        \/ \E c \in Conns, p \in {"greeting", "closed"} :
             pc[c] = "new" /\ pc' = [pc EXCEPT ![c] = p]
    BY <1>2 DEF Accept, AcceptFails, BackoffEnds, taskVars
  <2>3. Live' = Live
    BY <2>2, SameLive DEF Live, Registered
  <2>4. NothingCopiedBeforeSplice'
    BY <2>1, <2>2
    DEF NothingCopiedBeforeSplice, spliceVars, TypeOK, TaskTypeOK
  <2> QED
    BY <2>1, <2>3, <2>4, SameView DEF spliceVars, sharedVars, registryVars
<1>3. ASSUME NEW c \in Conns,
             Greeting(c) \/ Auth(c) \/ Request(c) \/ ReadFails(c) \/ TargetFails(c)
      PROVE  RegistryIsLiveView' /\ NothingCopiedBeforeSplice'
  <2>1. c \notin Live /\ Live' = Live
    BY <1>3, HandshakeMoves, SameLive DEF Live, Registered
  <2>2. UNCHANGED <<rows, handle, took, wrote>>
    BY <1>3, HandshakeMoves
    DEF HandshakeOnly, spliceVars, sharedVars, registryVars
  <2>3. RegistryIsLiveView'
    BY <1>3, <2>1, <2>2, HandshakeMoves, SameView DEF Live
  <2>4. NothingCopiedBeforeSplice'
    BY <1>3, <2>2, HandshakeMoves
    DEF NothingCopiedBeforeSplice, TypeOK, TaskTypeOK
  <2> QED
    BY <2>3, <2>4
<1>4. ASSUME NEW c \in Conns, Dial(c)
      PROVE  RegistryIsLiveView' /\ NothingCopiedBeforeSplice'
  BY <1>4, DialView
<1>5. ASSUME NEW c \in Conns, TorAnswers(c) \/ Confirm(c)
      PROVE  RegistryIsLiveView' /\ NothingCopiedBeforeSplice'
  <2>1. /\ pc[c] \in {"connecting", "reply_ok"}
        /\ \E p \in {"reply_ok", "reply_fail", "splice"} :
             pc' = [pc EXCEPT ![c] = p]
        /\ UNCHANGED <<user, handle, spliceVars, registryVars>>
    BY <1>5 DEF TorAnswers, TorOpens, TorRefuses, Confirm, Goto, sharedVars
  <2>2. Live' = Live
    BY <2>1, SameLive DEF Registered
  <2>3. NothingCopiedBeforeSplice'
    BY <2>1 DEF NothingCopiedBeforeSplice, spliceVars, TypeOK, TaskTypeOK
  <2> QED
    BY <2>1, <2>2, <2>3, SameView DEF spliceVars, registryVars
<1>6. ASSUME NEW c \in Conns, ConfirmFails(c) \/ FailClosed(c) \/ Finish(c)
      PROVE  RegistryIsLiveView' /\ NothingCopiedBeforeSplice'
  BY <1>6, ReturnView
  DEF ConfirmFails, FailClosed, Finish, SpliceEnds, SpliceFails, Live, Registered
<1>7. ASSUME NEW c \in Conns, TakeFromClient(c)
      PROVE  RegistryIsLiveView' /\ NothingCopiedBeforeSplice'
  BY <1>7, TakeView
<1>8. ASSUME NEW c \in Conns, WriteToClient(c)
      PROVE  RegistryIsLiveView' /\ NothingCopiedBeforeSplice'
  BY <1>8, WriteView
<1>9. ASSUME NEW c \in Conns,
             GiveToTor(c) \/ ShutTor(c) \/ TakeFromTor(c) \/ ShutClient(c)
      PROVE  RegistryIsLiveView' /\ NothingCopiedBeforeSplice'
  <2>1. UNCHANGED <<pc, user, handle, took, wrote, rows>>
    BY <1>9
    DEF GiveToTor, ShutTor, TakeFromTor, ShutClient, SpliceOnly, registryVars
  <2> QED
    BY <2>1, SameView DEF Live, NothingCopiedBeforeSplice
<1>10. CASE UNCHANGED vars
  BY <1>10, SameView
  DEF vars, taskVars, spliceVars, sharedVars, registryVars, Live,
      NothingCopiedBeforeSplice
<1> QED
  BY <1>1, <1>2, <1>3, <1>4, <1>5, <1>6, <1>7, <1>8, <1>9, <1>10
  DEF Next, Handshake, Answer, Forward, Backward

\* Whatever ends a handler, its row goes with it, no other row does, and each
\* row shows its own connection (the RAII row of streams.rs).
THEOREM RegistryCorrect == Spec => []RegistryIsLiveView
<1>1. RegistryInv => RegistryIsLiveView
  BY DEF RegistryInv
<1> QED
  BY <1>1, InitRegistryInv, NextRegistryInv, PTL DEF Spec

\* Each step of the server is a step of the registry's own specification, or
\* leaves the registry alone.
LEMMA RegistryStep ==
  ASSUME RegistryInv, [Next]_vars
  PROVE  [Registry!Next]_Registry!registryVars
<1> USE DEF RegistryInv
<1>1. ASSUME NEW c \in Live
      PROVE  handle[c] \in DOMAIN rows
  BY DEF RegistryIsLiveView
<1>2. ASSUME NEW c \in Conns, Dial(c) PROVE Registry!Next
  <2>1. Item(c) \in Items
    BY <1>2, ScriptFacts DEF Dial
  <2>2. Item(c).host \in Hosts /\ user[c] \in Users \cup {NoUser}
    BY <1>2, <2>1 DEF Dial, Items, TypeOK, TaskTypeOK
  <2> QED
    BY <1>2, <2>2 DEF Dial, Registry!Next
<1>3. ASSUME NEW c \in Conns, ConfirmFails(c) \/ FailClosed(c) \/ Finish(c)
      PROVE  Registry!Next
  <2>1. c \in Live /\ Registry!DropHandle(handle[c])
    BY <1>3
    DEF ConfirmFails, FailClosed, Finish, SpliceEnds, SpliceFails, Live,
        Registered, Return
  <2> QED
    BY <1>1, <2>1 DEF Registry!Next
<1>4. ASSUME NEW c \in Conns, TakeFromClient(c) \/ WriteToClient(c)
      PROVE  Registry!Next
  <2>1. c \in Live
    BY <1>4 DEF TakeFromClient, WriteToClient, Live, Registered
  <2> QED
    BY <1>1, <1>4, <2>1 DEF TakeFromClient, WriteToClient, Registry!Next
<1>5. ASSUME NEW c \in Conns,
             \/ Client(c) \/ Destination(c) \/ Accept(c)
             \/ Greeting(c) \/ Auth(c) \/ Request(c) \/ ReadFails(c) \/ TargetFails(c)
             \/ TorAnswers(c) \/ Confirm(c)
             \/ GiveToTor(c) \/ ShutTor(c) \/ TakeFromTor(c) \/ ShutClient(c)
      PROVE  UNCHANGED registryVars
  BY <1>5
  DEF Client, ClientSends, ClientFin, ClientResets, Destination, DestinationSends,
      DestinationEnds, CircuitFails, TorEnvironment, Accept, Greeting, Auth,
      Request, ReadFails, TargetFails, HandshakeOnly, TorAnswers, TorOpens,
      TorRefuses, Confirm, GiveToTor, ShutTor, TakeFromTor, ShutClient,
      sharedVars
<1>6. CASE AcceptFails \/ BackoffEnds \/ UNCHANGED vars
  BY <1>6 DEF AcceptFails, BackoffEnds, vars, sharedVars, registryVars,
              Registry!registryVars
<1> QED
  BY <1>2, <1>3, <1>4, <1>5, <1>6
  DEF Next, Handshake, Answer, Forward, Backward, registryVars,
      Registry!registryVars

\* The server implements the registry's specification: an id is handed out
\* once, and a row is counted and dropped only while it is there.
THEOREM RegistryRefined == Spec => RegistryUsedWell
<1>1. Init => Registry!Init
  BY DEF Init
<1> QED
  BY <1>1, InitRegistryInv, NextRegistryInv, RegistryStep, PTL
  DEF Spec, RegistryUsedWell, Registry!Spec

(***************************************************************************)
(* Circuit isolation.                                                      *)
(*                                                                         *)
(* A dialled connection's token can still be found from its username in    *)
(* the map, which keeps the tokens of two usernames apart, and a later     *)
(* token is a later mint.                                                  *)
(***************************************************************************)

BeforeDial == {"new", "greeting", "auth", "request", "target"}

TokensComeFromUsers ==
  /\ \A c \in Dialled : pc[c] \notin BeforeDial /\ token[c] < minted
  /\ \A u, v \in DOMAIN per_upstream : per_upstream[u] = per_upstream[v] => u = v
  /\ isolation = "shared" => \A c \in Dialled : token[c] = Tor!DefaultToken
  /\ isolation = "per-upstream" =>
       \A c \in Dialled :
         \/ user[c] = NoUser /\ token[c] = Tor!DefaultToken
         \/ user[c] \in DOMAIN per_upstream /\ token[c] = per_upstream[user[c]]
  /\ isolation = "per-query" =>
       \A c, d \in Dialled : token[c] = token[d] => c = d

IsolationInv == TypeOK /\ TokensComeFromUsers

LEMMA IsolationFollows == IsolationInv => IsolationRespected
<1> SUFFICES ASSUME IsolationInv, NEW c \in Dialled, NEW d \in Dialled
             PROVE  token[c] = token[d] <=>
                      \/ isolation = "shared"
                      \/ isolation = "per-upstream" /\ user[c] = user[d]
                      \/ c = d
  BY DEF IsolationRespected
<1> USE DEF IsolationInv, TokensComeFromUsers
<1>1. \A u \in DOMAIN per_upstream : per_upstream[u] # Tor!DefaultToken /\ u # NoUser
  BY ServerAssumption DEF TypeOK, SharedTypeOK, Tor!TypeOK, Tor!DefaultToken
<1>2. isolation \in {"shared", "per-upstream", "per-query"}
  BY DEF TypeOK, SharedTypeOK, Tor!TypeOK, Tor!Isolation
<1>3. CASE isolation = "shared"
  BY <1>3
<1>4. CASE isolation = "per-upstream"
  BY <1>1, <1>4
<1>5. CASE isolation = "per-query"
  BY <1>5
<1> QED
  BY <1>2, <1>3, <1>4, <1>5

\* A step that resolves no token and changes no dialled connection's username.
LEMMA SameTokens ==
  ASSUME IsolationInv, UNCHANGED <<token, isolationVars>>,
         \A c \in Dialled : user'[c] = user[c] /\ pc'[c] \notin BeforeDial
  PROVE  TokensComeFromUsers'
  BY DEF IsolationInv, TokensComeFromUsers, Dialled, isolationVars, Tor!DefaultToken

LEMMA DialTokens ==
  ASSUME IsolationInv, NEW c \in Conns, Dial(c)
  PROVE  TokensComeFromUsers'
<1> USE DEF IsolationInv, Dial
<1> DEFINE t == Tor!isolation_token(user[c])
<1>1. c \notin Dialled /\ Dialled \subseteq Conns
  BY DEF TokensComeFromUsers, Dialled, BeforeDial
<1>2. user[c] \in Users \cup {NoUser} /\ minted \in Nat \ {0}
  BY DEF TypeOK, TaskTypeOK, SharedTypeOK, Tor!TypeOK
<1>3. t \in Nat
  BY <1>2, ResolveTokenType DEF TypeOK, SharedTypeOK
<1>4. token'[c] = t /\ \A d \in Conns \ {c} : token'[d] = token[d]
  BY DEF TypeOK, TaskTypeOK
<1>5. Dialled' = Dialled \cup {c}
  BY <1>1, <1>3, <1>4 DEF Dialled, NoToken
<1>6. isolation' = isolation /\ user' = user
  BY DEF Tor!ResolveToken
<1>7. minted' \in Nat /\ minted <= minted' /\ t < minted'
  BY <1>2 DEF TypeOK, SharedTypeOK, Tor!TypeOK, Tor!ResolveToken, Tor!UsesDefault,
              Tor!Known, Tor!isolation_token, Tor!DefaultToken
<1>8. \A d \in Dialled : token[d] \in Nat /\ token[d] < minted
  BY <1>1 DEF TokensComeFromUsers, TypeOK, TaskTypeOK, Dialled
<1>9. \A d \in Dialled' : pc'[d] \notin BeforeDial /\ token'[d] < minted'
  <2>1. ASSUME NEW d \in Dialled PROVE pc'[d] \notin BeforeDial /\ token'[d] < minted'
    BY <1>1, <1>2, <1>4, <1>7, <1>8 DEF TokensComeFromUsers, Goto, TypeOK, TaskTypeOK
  <2>2. pc'[c] \notin BeforeDial /\ token'[c] < minted'
    BY <1>4, <1>7 DEF Goto, TypeOK, TaskTypeOK, BeforeDial
  <2> QED
    BY <1>5, <2>1, <2>2
<1>10. /\ DOMAIN per_upstream \subseteq DOMAIN per_upstream'
       /\ \A u \in DOMAIN per_upstream : per_upstream'[u] = per_upstream[u]
       /\ \A u \in DOMAIN per_upstream' \ DOMAIN per_upstream :
            per_upstream'[u] = minted
       /\ \A u \in DOMAIN per_upstream' \ DOMAIN per_upstream : u = user[c]
  BY DEF Tor!ResolveToken
<1>11. \A u \in DOMAIN per_upstream : per_upstream[u] \in Nat /\ per_upstream[u] < minted
  BY <1>2 DEF TypeOK, SharedTypeOK, Tor!TypeOK
<1>12. \A u, v \in DOMAIN per_upstream' : per_upstream'[u] = per_upstream'[v] => u = v
  BY <1>2, <1>10, <1>11 DEF TokensComeFromUsers
<1>13. ASSUME isolation = "shared", NEW d \in Dialled'
       PROVE  token'[d] = Tor!DefaultToken
  <2>1. t = Tor!DefaultToken
    BY <1>13 DEF Tor!isolation_token, Tor!UsesDefault
  <2> QED
    BY <1>1, <1>4, <1>5, <1>13, <2>1 DEF TokensComeFromUsers
<1>14. ASSUME isolation = "per-upstream", NEW d \in Dialled'
       PROVE  \/ user[d] = NoUser /\ token'[d] = Tor!DefaultToken
              \/ /\ user[d] \in DOMAIN per_upstream'
                 /\ token'[d] = per_upstream'[user[d]]
  <2>1. CASE d = c /\ user[c] = NoUser
    BY <1>4, <1>14, <2>1 DEF Tor!isolation_token, Tor!UsesDefault
  <2>2. CASE d = c /\ user[c] \in DOMAIN per_upstream
    BY <1>4, <1>10, <1>14, <2>2, ServerAssumption
    DEF Tor!isolation_token, Tor!UsesDefault, Tor!Known, TypeOK, SharedTypeOK,
        Tor!TypeOK
  <2>3. CASE d = c /\ user[c] \in Users \ DOMAIN per_upstream
    <3>1. t = minted
      BY <1>14, <2>3, ServerAssumption
      DEF Tor!isolation_token, Tor!UsesDefault, Tor!Known
    <3>2. user[c] \in DOMAIN per_upstream' /\ per_upstream'[user[c]] = minted
      BY <1>14, <2>3 DEF Tor!ResolveToken
    <3> QED
      BY <1>4, <2>3, <3>1, <3>2
  <2>4. CASE d # c
    BY <1>1, <1>4, <1>5, <1>10, <1>14, <2>4 DEF TokensComeFromUsers
  <2> QED
    BY <1>2, <2>1, <2>2, <2>3, <2>4
<1>15. ASSUME isolation = "per-query", NEW d \in Dialled', NEW e \in Dialled',
              token'[d] = token'[e]
       PROVE  d = e
  <2>1. t = minted
    BY <1>15 DEF Tor!isolation_token, Tor!UsesDefault, Tor!Known
  <2> QED
    BY <1>1, <1>2, <1>4, <1>5, <1>8, <1>15, <2>1 DEF TokensComeFromUsers
<1> QED
  BY <1>6, <1>9, <1>12, <1>13, <1>14, <1>15
  DEF TokensComeFromUsers, Tor!DefaultToken

LEMMA InitIsolationInv == Init => IsolationInv
<1> SUFFICES ASSUME Init PROVE IsolationInv
  OBVIOUS
<1>1. Dialled = {} /\ DOMAIN per_upstream = {}
  BY DEF Init, Dialled, NoToken, Tor!Init
<1> QED
  BY <1>1, InitTypeOK DEF IsolationInv, TokensComeFromUsers

LEMMA NextIsolationInv == IsolationInv /\ [Next]_vars => IsolationInv'
<1> SUFFICES ASSUME IsolationInv, [Next]_vars PROVE TokensComeFromUsers'
  BY NextTypeOK DEF IsolationInv
<1> USE DEF IsolationInv
<1>1. \A c \in Dialled : c \in Conns /\ pc[c] \notin BeforeDial
  BY DEF TokensComeFromUsers, Dialled
<1>2. ASSUME NEW c \in Conns, Client(c) \/ Destination(c) \/ Forward(c) \/ Backward(c)
      PROVE  TokensComeFromUsers'
  <2>1. UNCHANGED <<pc, user, token, isolationVars>>
    BY <1>2
    DEF Client, ClientSends, ClientFin, ClientResets, Destination,
        DestinationSends, DestinationEnds, CircuitFails, TorEnvironment, Forward,
        Backward, TakeFromClient, GiveToTor, ShutTor, TakeFromTor, WriteToClient,
        ShutClient, SpliceOnly, taskVars, sharedVars
  <2> QED
    BY <1>1, <2>1, SameTokens
<1>3. CASE (\E c \in Conns : Accept(c)) \/ AcceptFails \/ BackoffEnds
  <2>1. UNCHANGED <<user, token, isolationVars>>
    BY <1>3 DEF Accept, AcceptFails, BackoffEnds, taskVars, sharedVars
  <2>2. \/ UNCHANGED pc
        \/ \E c \in Conns, p \in {"greeting", "closed"} :
             pc[c] = "new" /\ pc' = [pc EXCEPT ![c] = p]
    BY <1>3 DEF Accept, AcceptFails, BackoffEnds, taskVars
  <2>3. \A c \in Dialled : pc'[c] \notin BeforeDial
    BY <1>1, <2>2 DEF BeforeDial, TypeOK, TaskTypeOK
  <2> QED
    BY <2>1, <2>3, SameTokens
<1>4. ASSUME NEW c \in Conns,
             Greeting(c) \/ Auth(c) \/ Request(c) \/ ReadFails(c) \/ TargetFails(c)
      PROVE  TokensComeFromUsers'
  <2>1. pc[c] \in BeforeDial /\ c \notin Dialled
    BY <1>1, <1>4, HandshakeMoves DEF BeforeDial
  <2>2. UNCHANGED <<token, isolationVars>>
    BY <1>4, HandshakeMoves DEF HandshakeOnly, sharedVars
  <2>3. \A d \in Dialled : user'[d] = user[d] /\ pc'[d] \notin BeforeDial
    BY <1>1, <1>4, <2>1, HandshakeMoves DEF TypeOK, TaskTypeOK
  <2> QED
    BY <2>2, <2>3, SameTokens
<1>5. ASSUME NEW c \in Conns, Dial(c) PROVE TokensComeFromUsers'
  BY <1>5, DialTokens
<1>6. ASSUME NEW c \in Conns, TorAnswers(c) \/ Answer(c) \/ Finish(c)
      PROVE  TokensComeFromUsers'
  <2>1. /\ UNCHANGED <<user, token, isolationVars>>
        /\ \E p \in {"reply_ok", "reply_fail", "splice", "closed"} :
             pc' = [pc EXCEPT ![c] = p]
    BY <1>6
    DEF TorAnswers, TorOpens, TorRefuses, Answer, Confirm, ConfirmFails,
        FailClosed, Finish, SpliceEnds, SpliceFails, Return, Goto, sharedVars
  <2>2. \A d \in Dialled : pc'[d] \notin BeforeDial
    BY <1>1, <2>1 DEF BeforeDial, TypeOK, TaskTypeOK
  <2> QED
    BY <2>1, <2>2, SameTokens
<1>7. CASE UNCHANGED vars
  BY <1>1, <1>7, SameTokens DEF vars, taskVars, sharedVars
<1> QED
  BY <1>2, <1>3, <1>4, <1>5, <1>6, <1>7 DEF Next, Handshake

\* Two streams carry the same token, and so may share a circuit, exactly when
\* the isolation mode says so, at any distance in time and whatever other
\* connects came between (isolation_token in tor.rs).
THEOREM IsolationCorrect == Spec => []IsolationRespected
  BY InitIsolationInv, NextIsolationInv, IsolationFollows, PTL DEF Spec

(***************************************************************************)
(* The SOCKS5 contract.                                                    *)
(*                                                                         *)
(* The abstract specification ties success and payload to a Tor stream;    *)
(* the handler's control keeps them together.                              *)
(***************************************************************************)

StreamHeldFromAnswerToReturn ==
  \A c \in Conns :
    /\ pc[c] \in {"reply_ok", "splice"} => up[c] \in {"open", "eof", "err"}
    /\ pc[c] \in BeforeDial \cup {"connecting", "reply_fail"} => up[c] = "none"
    /\ pc[c] = "closed" => up[c] \in {"none", "dropped"}

ContractInv == TypeOK /\ StreamHeldFromAnswerToReturn

\* A step of the abstract conversation, from the move of pc it shows.
LEMMA PhaseMoves ==
  ASSUME TypeOK, NEW c \in Conns, NEW p, pc' = [pc EXCEPT ![c] = p]
  PROVE  /\ Conversation[c] = PhaseOf(pc[c])
         /\ Conversation' = [Conversation EXCEPT ![c] = PhaseOf(p)]
  BY DEF Conversation, TypeOK, TaskTypeOK

LEMMA EgressMoves ==
  ASSUME TypeOK, NEW c \in Conns, NEW u, up' = [up EXCEPT ![c] = u]
  PROVE  /\ Egress[c] = EgressOf(up[c])
         /\ Egress' = [Egress EXCEPT ![c] = EgressOf(u)]
  BY DEF Egress, TypeOK, TorTypeOK

LEMMA SameConversation == UNCHANGED pc => UNCHANGED Conversation
  BY DEF Conversation

LEMMA SameEgress == UNCHANGED up => UNCHANGED Egress
  BY DEF Egress

\* A handler whose socket or locals go away is a conversation hung up.
LEMMA ReturnHangsUp ==
  ASSUME ContractInv, NEW c \in Conns, Return(c), UNCHANGED out
  PROVE  Contract!HangUp(c)
<1> USE DEF ContractInv
<1> DEFINE u == IF up[c] = "none" THEN "none" ELSE "dropped"
<1>1. up' = [up EXCEPT ![c] = u]
  BY DEF Return, TypeOK, TorTypeOK
<1>2. pc' = [pc EXCEPT ![c] = "closed"] /\ UNCHANGED spliceVars
  BY DEF Return, Goto
<1>3. PhaseOf("closed") = "closed" /\ EgressOf(u) = "none"
  BY DEF PhaseOf, EgressOf
<1>4. Conversation' = [Conversation EXCEPT ![c] = "closed"]
  BY <1>2, <1>3, PhaseMoves
<1>5. Egress' = [Egress EXCEPT ![c] = "none"]
  <2> HIDE DEF u
  <2> QED
    BY <1>1, <1>3, EgressMoves
<1> QED
  BY <1>2, <1>4, <1>5 DEF Contract!HangUp, spliceVars

\* Before the CONNECT there is no stream to let go of.
LEMMA ClosingHangsUp ==
  ASSUME ContractInv, NEW c \in Conns, pc' = [pc EXCEPT ![c] = "closed"],
         pc[c] \in BeforeDial, UNCHANGED <<out, up, gave, wrote>>
  PROVE  Contract!HangUp(c)
<1> USE DEF ContractInv
<1>1. Conversation' = [Conversation EXCEPT ![c] = "closed"]
  BY PhaseMoves DEF PhaseOf
<1>2. Egress[c] = "none"
  BY DEF StreamHeldFromAnswerToReturn, Egress, EgressOf
<1>3. Egress' = [Egress EXCEPT ![c] = "none"]
  BY <1>2, SameEgress DEF Egress
<1> QED
  BY <1>1, <1>3 DEF Contract!HangUp

\* A reply of the handshake is a reply of the contract, or cannot be written.
LEMMA SayShows ==
  ASSUME ContractInv, NEW c \in Conns, NEW rep, NEW next, Say(c, rep, next),
         pc[c] \in BeforeDial, UNCHANGED <<up, gave, wrote>>
  PROVE  \/ Contract!HangUp(c)
         \/ /\ Contract!Reply(c, PhaseOf(pc[c]), rep, PhaseOf(next))
            /\ UNCHANGED <<Egress, gave, wrote>>
<1> USE DEF ContractInv
<1>1. CASE net[c] = "reset"
  BY <1>1, ClosingHangsUp DEF Say, Goto
<1>2. CASE net[c] # "reset"
  <2>1. pc' = [pc EXCEPT ![c] = next] /\ out' = [out EXCEPT ![c] = Append(@, rep)]
    BY <1>2 DEF Say, Goto
  <2> QED
    BY <2>1, PhaseMoves, SameEgress DEF Contract!Reply
<1> QED
  BY <1>1, <1>2

LEMMA HandshakeShows ==
  ASSUME ContractInv, NEW c \in Conns,
         Greeting(c) \/ Auth(c) \/ Request(c) \/ ReadFails(c) \/ TargetFails(c)
  PROVE  Contract!Next \/ UNCHANGED Contract!contractVars
<1>1. UNCHANGED <<up, gave, wrote>> /\ pc[c] \in BeforeDial
  BY HandshakeMoves DEF ContractInv, HandshakeOnly, spliceVars, torVars, BeforeDial
<1>2. /\ PhaseOf("greeting") = "hello" /\ PhaseOf("auth") = "auth"
      /\ PhaseOf("request") = "request" /\ PhaseOf("target") = "request"
      /\ PhaseOf("closed") = "closed"
  BY DEF PhaseOf
<1>3. CASE Bail(c)
  BY <1>1, <1>3, ClosingHangsUp DEF Bail, Goto, Contract!Next
<1>4. ASSUME Greeting(c), ~ Bail(c)
      PROVE  Contract!HangUp(c) \/ Contract!Negotiate(c)
  BY <1>1, <1>2, <1>4, SayShows DEF Greeting, Contract!Negotiate
<1>5. ASSUME Auth(c), ~ Bail(c)
      PROVE  Contract!HangUp(c) \/ Contract!Negotiate(c)
  BY <1>1, <1>2, <1>5, SayShows DEF Auth, Contract!Negotiate
<1>6. ASSUME Request(c), ~ Bail(c)
      PROVE  \/ Contract!HangUp(c) \/ Contract!Refuse(c)
             \/ UNCHANGED Contract!contractVars
  <2>1. CASE Goto(c, "target") /\ UNCHANGED out
    <3>1. UNCHANGED Conversation
      BY <1>2, <1>6, <2>1
      DEF Goto, Request, ContractInv, TypeOK, TaskTypeOK, Conversation
    <3> QED
      BY <1>1, <2>1, <3>1, SameEgress DEF Contract!contractVars
  <2>2. CASE Say(c, "rep_cmd", "closed") \/ Say(c, "rep_atyp", "closed")
    BY <1>1, <1>2, <1>6, <2>2, SayShows DEF Request, Contract!Refuse
  <2> QED
    BY <1>6, <2>1, <2>2 DEF Request
<1>7. ASSUME TargetFails(c)
      PROVE  Contract!HangUp(c) \/ Contract!Refuse(c)
  BY <1>1, <1>2, <1>7, SayShows DEF TargetFails, Contract!Refuse
<1>8. ReadFails(c) => Bail(c)
  BY DEF ReadFails
<1> QED
  BY <1>3, <1>4, <1>5, <1>6, <1>7, <1>8 DEF Contract!Next

\* The CONNECT, Tor's answer and the reply.
LEMMA ConnectShows ==
  ASSUME ContractInv, NEW c \in Conns,
         Dial(c) \/ TorAnswers(c) \/ Answer(c)
  PROVE  Contract!Next \/ UNCHANGED Contract!contractVars
<1>0. TypeOK /\ StreamHeldFromAnswerToReturn
  BY DEF ContractInv
<1>1. /\ PhaseOf("target") = "request" /\ PhaseOf("connecting") = "dialing"
      /\ PhaseOf("reply_ok") = "dialing" /\ PhaseOf("reply_fail") = "dialing"
      /\ PhaseOf("splice") = "relay" /\ PhaseOf("closed") = "closed"
  BY DEF PhaseOf
<1>2. /\ EgressOf("none") = "none"
      /\ \A u \in {"open", "eof", "err"} : EgressOf(u) = "tor"
  BY DEF EgressOf
<1>3. ASSUME Dial(c) PROVE Contract!Dial(c)
  <2>1. pc[c] = "target" /\ pc' = [pc EXCEPT ![c] = "connecting"]
    BY <1>3 DEF Dial, Goto
  <2>2. /\ Conversation[c] = PhaseOf(pc[c])
        /\ Conversation' = [Conversation EXCEPT ![c] = PhaseOf("connecting")]
    BY <1>0, <2>1, PhaseMoves
  <2> QED
    BY <1>1, <1>3, <2>1, <2>2, SameEgress DEF Dial, Contract!Dial, spliceVars, torVars
<1>4. ASSUME TorOpens(c) PROVE Contract!TorOpened(c)
  <2>1. /\ pc[c] = "connecting" /\ pc' = [pc EXCEPT ![c] = "reply_ok"]
        /\ up' = [up EXCEPT ![c] = "open"]
    BY <1>4 DEF TorOpens, Goto
  <2>2. UNCHANGED Conversation
    BY <1>0, <1>1, <2>1 DEF TypeOK, TaskTypeOK, Conversation
  <2>3. Conversation[c] = "dialing" /\ Egress[c] = "none"
    BY <1>0, <1>1, <1>2, <2>1 DEF StreamHeldFromAnswerToReturn, Conversation, Egress
  <2>4. Egress' = [Egress EXCEPT ![c] = EgressOf("open")] /\ EgressOf("open") = "tor"
    BY <1>0, <2>1, EgressMoves DEF EgressOf
  <2> QED
    BY <1>4, <2>2, <2>3, <2>4 DEF TorOpens, Contract!TorOpened, spliceVars
<1>5. ASSUME TorRefuses(c) PROVE UNCHANGED Contract!contractVars
  <2>1. pc[c] = "connecting" /\ pc' = [pc EXCEPT ![c] = "reply_fail"]
    BY <1>5 DEF TorRefuses, Goto
  <2>2. UNCHANGED Conversation
    BY <1>0, <1>1, <2>1 DEF TypeOK, TaskTypeOK, Conversation
  <2> QED
    BY <1>5, <2>2, SameEgress
    DEF TorRefuses, Contract!contractVars, spliceVars, torVars
<1>6. ASSUME Confirm(c) PROVE Contract!Confirm(c)
  <2>1. pc[c] = "reply_ok" /\ pc' = [pc EXCEPT ![c] = "splice"]
    BY <1>6 DEF Confirm, Goto
  <2>2. Egress[c] = "tor"
    BY <1>0, <1>2, <2>1 DEF StreamHeldFromAnswerToReturn, Egress
  <2>3. /\ Conversation[c] = PhaseOf(pc[c])
        /\ Conversation' = [Conversation EXCEPT ![c] = PhaseOf("splice")]
    BY <1>0, <2>1, PhaseMoves
  <2> QED
    BY <1>1, <1>6, <2>1, <2>2, <2>3, SameEgress
    DEF Confirm, Contract!Confirm, Contract!Reply, spliceVars, torVars
<1>7. ASSUME ConfirmFails(c) PROVE Contract!HangUp(c)
  BY <1>7, ReturnHangsUp DEF ConfirmFails
<1>8. ASSUME FailClosed(c) PROVE Contract!HangUp(c) \/ Contract!FailClosed(c)
  <2>1. CASE net[c] = "reset"
    BY <1>8, <2>1, ReturnHangsUp DEF FailClosed
  <2>2. CASE net[c] # "reset"
    <3>1. pc[c] = "reply_fail" /\ pc' = [pc EXCEPT ![c] = "closed"]
      BY <1>8 DEF FailClosed, Return, Goto
    <3>2. up[c] = "none" /\ up' = up
      BY <1>0, <1>8, <3>1
      DEF FailClosed, Return, StreamHeldFromAnswerToReturn, TypeOK, TorTypeOK
    <3>3. Egress[c] = "none" /\ UNCHANGED Egress
      BY <1>2, <3>2, SameEgress DEF Egress
    <3>4. /\ Conversation[c] = PhaseOf(pc[c])
          /\ Conversation' = [Conversation EXCEPT ![c] = PhaseOf("closed")]
      BY <1>0, <3>1, PhaseMoves
    <3> QED
      BY <1>1, <1>8, <2>2, <3>1, <3>3, <3>4
      DEF FailClosed, Return, Contract!FailClosed, Contract!Reply, spliceVars
  <2> QED
    BY <2>1, <2>2
<1> QED
  BY <1>3, <1>4, <1>5, <1>6, <1>7, <1>8 DEF TorAnswers, Answer, Contract!Next

\* The splice carries payload over the stream, until handle returns.
LEMMA SpliceShows ==
  ASSUME ContractInv, NEW c \in Conns, Forward(c) \/ Backward(c) \/ Finish(c)
  PROVE  Contract!Next \/ UNCHANGED Contract!contractVars
<1> USE DEF ContractInv
<1>1. pc[c] = "splice"
  BY DEF Forward, TakeFromClient, GiveToTor, ShutTor, Backward, TakeFromTor,
         WriteToClient, ShutClient, Finish, SpliceEnds, SpliceFails
<1>2. Conversation[c] = "relay" /\ Egress[c] = "tor"
  BY <1>1 DEF StreamHeldFromAnswerToReturn, Conversation, Egress, PhaseOf, EgressOf
<1>3. CASE Finish(c)
  BY <1>3, ReturnHangsUp DEF Finish, SpliceEnds, SpliceFails, Contract!Next
<1>4. Forward(c) \/ Backward(c) => UNCHANGED <<Conversation, out, Egress>>
  BY SameConversation, SameEgress
  DEF Forward, TakeFromClient, GiveToTor, ShutTor, Backward, TakeFromTor,
      WriteToClient, ShutClient, SpliceOnly, torVars
<1>5. CASE GiveToTor(c) \/ WriteToClient(c)
  BY <1>2, <1>4, <1>5
  DEF Forward, Backward, GiveToTor, WriteToClient, Contract!Relay, Contract!Next
<1>6. CASE TakeFromClient(c) \/ ShutTor(c) \/ TakeFromTor(c) \/ ShutClient(c)
  BY <1>4, <1>6
  DEF Forward, Backward, TakeFromClient, ShutTor, TakeFromTor, ShutClient,
      Contract!contractVars
<1> QED
  BY <1>3, <1>5, <1>6 DEF Forward, Backward

LEMMA AcceptShows ==
  ASSUME ContractInv, (\E c \in Conns : Accept(c)) \/ AcceptFails \/ BackoffEnds
  PROVE  Contract!Next \/ UNCHANGED Contract!contractVars
<1> USE DEF ContractInv
<1>1. UNCHANGED <<out, up, gave, wrote>>
  BY DEF Accept, AcceptFails, BackoffEnds, taskVars, spliceVars, torVars
<1>2. ASSUME NEW c \in Conns, Accept(c) PROVE Contract!Greet(c)
  <2>1. pc[c] = "new" /\ pc' = [pc EXCEPT ![c] = "greeting"]
    BY <1>2 DEF Accept
  <2>2. PhaseOf("new") = "idle" /\ PhaseOf("greeting") = "hello"
    BY DEF PhaseOf
  <2> QED
    BY <1>1, <2>1, <2>2, PhaseMoves, SameEgress DEF Contract!Greet
<1>3. ASSUME NEW c \in Conns, pc[c] = "new", pc' = [pc EXCEPT ![c] = "closed"]
      PROVE  Contract!HangUp(c)
  BY <1>1, <1>3, ClosingHangsUp DEF BeforeDial
<1>4. CASE UNCHANGED pc
  BY <1>1, <1>4, SameConversation, SameEgress DEF Contract!contractVars
<1> QED
  BY <1>2, <1>3, <1>4 DEF AcceptFails, BackoffEnds, taskVars, Contract!Next

LEMMA InitContractInv == Init => ContractInv /\ Contract!Init
<1> SUFFICES ASSUME Init PROVE ContractInv /\ Contract!Init
  OBVIOUS
<1>1. StreamHeldFromAnswerToReturn
  BY DEF Init, StreamHeldFromAnswerToReturn
<1>2. Conversation = [c \in Conns |-> "idle"]
  BY DEF Init, Conversation, PhaseOf
<1>3. Egress = [c \in Conns |-> "none"]
  BY DEF Init, Egress, EgressOf
<1> QED
  BY <1>1, <1>2, <1>3, InitTypeOK DEF Init, ContractInv, Contract!Init

\* The stream and the handler keep step.
LEMMA NextContractInv == ContractInv /\ [Next]_vars => ContractInv'
<1> SUFFICES ASSUME ContractInv, [Next]_vars PROVE StreamHeldFromAnswerToReturn'
  BY NextTypeOK DEF ContractInv
<1> USE DEF ContractInv, StreamHeldFromAnswerToReturn, BeforeDial
<1>1. ASSUME NEW c \in Conns, Client(c) \/ Forward(c) \/ Backward(c)
      PROVE  StreamHeldFromAnswerToReturn'
  <2>1. UNCHANGED <<pc, up>>
    BY <1>1
    DEF Client, ClientSends, ClientFin, ClientResets, Forward, TakeFromClient,
        GiveToTor, ShutTor, Backward, TakeFromTor, WriteToClient, ShutClient,
        SpliceOnly, taskVars, torVars
  <2> QED
    BY <2>1
<1>2. CASE (\E c \in Conns : Accept(c)) \/ AcceptFails \/ BackoffEnds
  <2>1. UNCHANGED up
    BY <1>2 DEF Accept, AcceptFails, BackoffEnds, torVars
  <2>2. \/ UNCHANGED pc
        \/ \E c \in Conns, p \in {"greeting", "closed"} :
             pc[c] = "new" /\ pc' = [pc EXCEPT ![c] = p]
    BY <1>2 DEF Accept, AcceptFails, BackoffEnds, taskVars
  <2> QED
    BY <2>1, <2>2 DEF TypeOK, TaskTypeOK
<1>3. ASSUME NEW c \in Conns,
             Greeting(c) \/ Auth(c) \/ Request(c) \/ ReadFails(c) \/ TargetFails(c)
      PROVE  StreamHeldFromAnswerToReturn'
  <2>1. UNCHANGED up
    BY <1>3, HandshakeMoves DEF HandshakeOnly, torVars
  <2> QED
    BY <1>3, <2>1, HandshakeMoves DEF TypeOK, TaskTypeOK
<1>4. ASSUME NEW c \in Conns, Dial(c) \/ TorRefuses(c) \/ Confirm(c)
      PROVE  StreamHeldFromAnswerToReturn'
  <2>1. UNCHANGED up
    BY <1>4 DEF Dial, TorRefuses, Confirm, torVars
  <2> QED
    BY <1>4, <2>1 DEF Dial, TorRefuses, Confirm, Goto, TypeOK, TaskTypeOK
<1>5. ASSUME NEW c \in Conns, TorOpens(c) PROVE StreamHeldFromAnswerToReturn'
  BY <1>5 DEF TorOpens, Goto, TypeOK, TaskTypeOK, TorTypeOK
<1>6. ASSUME NEW c \in Conns, Return(c) PROVE StreamHeldFromAnswerToReturn'
  BY <1>6 DEF Return, Goto, TypeOK, TaskTypeOK, TorTypeOK
<1>7. ASSUME NEW c \in Conns, Destination(c) PROVE StreamHeldFromAnswerToReturn'
  <2>1. UNCHANGED pc /\ up[c] \in {"open", "eof"}
    BY <1>7
    DEF Destination, DestinationSends, DestinationEnds, CircuitFails,
        TorEnvironment, taskVars
  <2>2. up' = up \/ \E u \in {"eof", "err"} : up' = [up EXCEPT ![c] = u]
    BY <1>7 DEF Destination, DestinationSends, DestinationEnds, CircuitFails
  <2> QED
    BY <2>1, <2>2 DEF TypeOK, TaskTypeOK, TorTypeOK
<1>8. CASE UNCHANGED vars
  BY <1>8 DEF vars, taskVars, torVars
<1> QED
  BY <1>1, <1>2, <1>3, <1>4, <1>5, <1>6, <1>7, <1>8
  DEF Next, Handshake, TorAnswers, Answer, ConfirmFails, FailClosed, Finish,
      SpliceEnds, SpliceFails

LEMMA ContractStep ==
  ASSUME ContractInv, [Next]_vars
  PROVE  [Contract!Next]_Contract!contractVars
<1>1. ASSUME NEW c \in Conns, Client(c)
      PROVE  UNCHANGED Contract!contractVars
  BY <1>1, SameConversation, SameEgress
  DEF Client, ClientSends, ClientFin, ClientResets, taskVars, spliceVars,
      torVars, Contract!contractVars
<1>2. ASSUME NEW c \in Conns, Destination(c)
      PROVE  UNCHANGED Contract!contractVars
  <2>1. UNCHANGED <<pc, out, gave, wrote>> /\ up[c] \in {"open", "eof"}
    BY <1>2
    DEF Destination, DestinationSends, DestinationEnds, CircuitFails,
        TorEnvironment, taskVars, spliceVars
  <2>2. up' = up \/ \E u \in {"eof", "err"} : up' = [up EXCEPT ![c] = u]
    BY <1>2 DEF Destination, DestinationSends, DestinationEnds, CircuitFails
  <2>3. UNCHANGED Egress
    BY <2>1, <2>2 DEF ContractInv, TypeOK, TorTypeOK, Egress, EgressOf
  <2> QED
    BY <2>1, <2>3, SameConversation DEF Contract!contractVars
<1>3. CASE UNCHANGED vars
  BY <1>3, SameConversation, SameEgress
  DEF vars, taskVars, spliceVars, torVars, Contract!contractVars
<1> QED
  BY <1>1, <1>2, <1>3, AcceptShows, HandshakeShows, ConnectShows, SpliceShows
  DEF Next, Handshake

\* tord keeps its contract with every client: a well-formed conversation,
\* success said and payload moved only over a Tor stream, nothing after a
\* refusal ("never a direct fallback", the header of server.rs).
THEOREM ContractRefined == Spec => ContractHolds
  BY InitContractInv, NextContractInv, ContractStep, PTL
  DEF Spec, ContractHolds, Contract!Spec
=============================================================================
