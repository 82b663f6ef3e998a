------------------------- MODULE ProxyOverTorProofs -------------------------
(***************************************************************************)
(* Theorems about ProxyOverTor: over the Tor client of TorBootstrap the    *)
(* server is still the server of SocksServer, and what it says is what     *)
(* became of the connect it says it of.                                    *)
(***************************************************************************)
EXTENDS ProxyOverTor, SocksServerCountProofs

-----------------------------------------------------------------------------
(* Each part keeps its specification. *)

LEMMA NextServes == [ProxyNext]_proxyVars => [Next]_vars
<1> SUFFICES ASSUME [ProxyNext]_proxyVars PROVE [Next]_vars
  OBVIOUS
<1>1. ASSUME NEW c \in Conns, DialTor(c) PROVE Next
  BY <1>1 DEF DialTor, Next, Handshake
<1>2. ASSUME NEW c \in Conns, ConnectResolves(c) PROVE Next
  BY <1>2 DEF ConnectResolves, Next, TorAnswers
<1>3. ASSUME Serving PROVE Next
  BY <1>3 DEF Serving, Handles, Next, Handshake
<1>4. CASE Bootstrapping
  BY <1>4 DEF Bootstrapping
<1>5. CASE UNCHANGED proxyVars
  BY <1>5 DEF proxyVars
<1> QED
  BY <1>1, <1>2, <1>3, <1>4, <1>5 DEF ProxyNext

\* Everything proved of SocksServer holds of the server over TorBootstrap: the
\* wait for a bootstrap is no more than a slow answer of arti's (handle's
\* connect().await).
THEOREM ServerUnchanged == ProxySpec => Spec
  BY NextServes, PTL DEF ProxySpec, ProxyInit, Spec

LEMMA NextBootstraps == [ProxyNext]_proxyVars => [Manager!Next]_(Manager!vars)
<1> SUFFICES ASSUME [ProxyNext]_proxyVars
             PROVE  [Manager!Next]_(Manager!vars)
  OBVIOUS
<1>1. ASSUME NEW c \in Conns, DialTor(c) PROVE Manager!Next
  BY <1>1 DEF DialTor, Manager!Next
<1>2. ASSUME UNCHANGED managerVars PROVE UNCHANGED Manager!vars
  BY <1>2 DEF managerVars, Manager!vars, Manager!artiVars, Manager!networkVars
<1>3. ASSUME NEW c \in Conns, ConnectResolves(c) PROVE UNCHANGED Manager!vars
  BY <1>2, <1>3 DEF ConnectResolves
<1>4. ASSUME Serving PROVE UNCHANGED Manager!vars
  BY <1>2, <1>4 DEF Serving
<1>5. ASSUME Bootstrapping PROVE Manager!Next
  BY <1>5 DEF Bootstrapping, Manager!Next
<1>6. CASE UNCHANGED proxyVars
  BY <1>2, <1>6 DEF proxyVars
<1> QED
  BY <1>1, <1>3, <1>4, <1>5, <1>6 DEF ProxyNext

\* The Tor client is used as TorBootstrap has it: one connect for a CONNECT,
\* whatever becomes of the client meanwhile (TorManager::connect).
THEOREM ManagerUnchanged == ProxySpec => Manager!Spec
  BY NextBootstraps, PTL DEF ProxySpec, ProxyInit, Manager!Spec

-----------------------------------------------------------------------------
(* A connect and the handler that awaits it.                               *)
(*                                                                         *)
(* Where a connect is and where its handler is are two variables that      *)
(* different steps change: arti's the one, the handler's the other.        *)

Pending == {"waiting", "driving", "opening"}
Answered == {"ok", "failed"}

ManagerTypeOK ==
  /\ at \in [Manager!Callers -> Pending \cup Answered \cup {"none", "timed_out"}]
  /\ \A c \in Conns : at[c] # "timed_out"

HandlerTied ==
  \A c \in Conns :
    /\ at[c] = "none" <=> token[c] = NoToken
    /\ at[c] \in Pending => pc[c] = "connecting"

\* What arti has granted it does not take back, and the handler is on its way
\* to say no more and no less.
ReplyTied ==
  \A c \in Conns :
    /\ at[c] \in {"opening", "ok"} => booted
    /\ pc[c] = "reply_ok" => at[c] = "ok"
    /\ pc[c] = "reply_fail" => at[c] = "failed"
    /\ "rep_ok" \in Range(out[c]) => at[c] = "ok"
    /\ "rep_fail" \in Range(out[c]) => at[c] = "failed"

ProxyInv == TypeOK /\ ManagerTypeOK /\ HandlerTied /\ ReplyTied

LEMMA ConnsCall == Conns \subseteq Manager!Callers /\ Task \in Manager!Callers \ Conns
  BY ProxyAssumption DEF Manager!BootstrapAssumption, Manager!Callers

LEMMA InitProxyInv == ProxyInit => ProxyInv
<1> SUFFICES ASSUME ProxyInit PROVE ProxyInv
  OBVIOUS
<1>1. TypeOK
  BY InitTypeOK DEF ProxyInit
<1>2. at = [p \in Manager!Callers |-> IF p = Task THEN "waiting" ELSE "none"]
  BY DEF ProxyInit, Manager!Init
<1>3. /\ \A c \in Conns : at[c] = "none"
      /\ ManagerTypeOK
  BY <1>2, ConnsCall DEF ManagerTypeOK, Pending
<1>4. \A c \in Conns : token[c] = NoToken /\ pc[c] = "new" /\ out[c] = <<>>
  BY DEF ProxyInit, Init
<1>5. Range(<<>>) = {}
  BY DEF Range
<1>6. HandlerTied
  BY <1>3, <1>4 DEF HandlerTied, Pending
<1>7. ReplyTied
  BY <1>3, <1>4, <1>5 DEF ReplyTied
<1> QED
  BY <1>1, <1>3, <1>6, <1>7 DEF ProxyInv

\* What the steps of the server but for Dial and Tor's answer do to a handler.
LEMMA ServingMoves ==
  ASSUME TypeOK, Serving
  PROVE  /\ UNCHANGED <<token, managerVars>>
         /\ \A c \in Conns :
              \/ pc'[c] = pc[c]
              \/ pc[c] # "connecting" /\ pc'[c] \notin {"reply_ok", "reply_fail"}
         /\ \A c \in Conns :
              \/ out'[c] = out[c]
              \/ \E rep \in Replies :
                   /\ out'[c] = Append(out[c], rep)
                   /\ rep = "rep_ok" => pc[c] = "reply_ok"
                   /\ rep = "rep_fail" => pc[c] = "reply_fail"
<1> USE DEF TypeOK, TaskTypeOK
<1>1. UNCHANGED managerVars
  BY DEF Serving
<1>2. ASSUME NEW c \in Conns, Client(c) \/ Forward(c) \/ Backward(c) \/ Destination(c)
      PROVE  UNCHANGED <<token, pc, out>>
  BY <1>2
  DEF Client, ClientSends, ClientFin, ClientResets, Forward, TakeFromClient,
      GiveToTor, ShutTor, Backward, TakeFromTor, WriteToClient, ShutClient,
      SpliceOnly, Destination, DestinationSends, DestinationEnds, CircuitFails,
      TorEnvironment, taskVars
<1>3. ASSUME NEW c \in Conns, Accept(c) \/ AcceptFails \/ BackoffEnds
      PROVE  /\ UNCHANGED <<token, out>>
             /\ UNCHANGED pc \/ \E d \in Conns, p \in {"greeting", "closed"} :
                                  pc[d] = "new" /\ pc' = [pc EXCEPT ![d] = p]
  BY <1>3 DEF Accept, AcceptFails, BackoffEnds, taskVars
<1>4. ASSUME NEW c \in Conns,
             Greeting(c) \/ Auth(c) \/ Request(c) \/ ReadFails(c) \/ TargetFails(c)
      PROVE  /\ UNCHANGED token
             /\ pc[c] # "connecting"
             /\ \E p \in {"auth", "request", "target", "closed"} :
                  pc' = [pc EXCEPT ![c] = p]
             /\ \/ UNCHANGED out
                \/ \E rep \in Replies \ {"rep_ok", "rep_fail"} :
                     out' = [out EXCEPT ![c] = Append(@, rep)]
  <2>1. /\ pc[c] # "connecting" /\ HandshakeOnly
        /\ \E p \in {"auth", "request", "target", "closed"} :
              pc' = [pc EXCEPT ![c] = p]
    BY <1>4, HandshakeMoves
  <2>2. UNCHANGED token
    BY <2>1 DEF HandshakeOnly
  <2>3. \/ UNCHANGED out
        \/ \E rep \in Replies \ {"rep_ok", "rep_fail"} :
             out' = [out EXCEPT ![c] = Append(@, rep)]
    BY <1>4, HandshakeSays
  <2> QED
    BY <2>1, <2>2, <2>3
<1>5. ASSUME NEW c \in Conns, Answer(c) \/ Finish(c)
      PROVE  /\ UNCHANGED token
             /\ pc[c] # "connecting"
             /\ \E p \in {"splice", "closed"} : pc' = [pc EXCEPT ![c] = p]
             /\ \/ UNCHANGED out
                \/ \E rep \in {"rep_ok", "rep_fail"} :
                     /\ out' = [out EXCEPT ![c] = Append(@, rep)]
                     /\ rep = "rep_ok" => pc[c] = "reply_ok"
                     /\ rep = "rep_fail" => pc[c] = "reply_fail"
  BY <1>5
  DEF Answer, Confirm, ConfirmFails, FailClosed, Finish, SpliceEnds,
      SpliceFails, Return, Goto
<1>6. {"rep_ok", "rep_fail"} \subseteq Replies
  BY DEF Replies
<1>7. CASE AcceptFails \/ BackoffEnds
  <2>1. CASE Conns = {}
    BY <1>1, <1>7, <2>1 DEF AcceptFails, BackoffEnds, taskVars
  <2>2. CASE Conns # {}
    BY <1>1, <1>3, <1>7, <2>2
  <2> QED
    BY <2>1, <2>2
<1>8. ASSUME NEW c \in Conns, Handles(c)
      PROVE  /\ UNCHANGED token
             /\ \A d \in Conns :
                  \/ pc'[d] = pc[d]
                  \/ pc[d] # "connecting" /\ pc'[d] \notin {"reply_ok", "reply_fail"}
             /\ \A d \in Conns :
                  \/ out'[d] = out[d]
                  \/ \E rep \in Replies :
                       /\ out'[d] = Append(out[d], rep)
                       /\ rep = "rep_ok" => pc[d] = "reply_ok"
                       /\ rep = "rep_fail" => pc[d] = "reply_fail"
  <2>1. CASE Client(c) \/ Forward(c) \/ Backward(c) \/ Destination(c)
    BY <1>2, <2>1
  <2>2. CASE Accept(c)
    BY <1>3, <2>2
  <2>3. CASE Greeting(c) \/ Auth(c) \/ Request(c) \/ ReadFails(c) \/ TargetFails(c)
    BY <1>4, <2>3
  <2>4. CASE Answer(c) \/ Finish(c)
    BY <1>5, <1>6, <2>4
  <2> QED
    BY <1>8, <2>1, <2>2, <2>3, <2>4 DEF Handles
<1> QED
  BY <1>1, <1>7, <1>8 DEF Serving

LEMMA DialInv ==
  ASSUME ProxyInv, TypeOK', NEW c \in Conns, DialTor(c)
  PROVE  ManagerTypeOK' /\ HandlerTied' /\ ReplyTied'
<1> USE DEF ProxyInv
<1>1. /\ at[c] = "none" /\ at' = [at EXCEPT ![c] = "waiting"]
      /\ UNCHANGED <<booted, out>>
      /\ pc' = [pc EXCEPT ![c] = "connecting"]
      /\ token' = [token EXCEPT ![c] = Tor!isolation_token(user[c])]
  BY DEF DialTor, Dial, Goto, Manager!Connect, Manager!Goto, Manager!artiVars
<1>2. at' \in [Manager!Callers -> Pending \cup Answered \cup {"none", "timed_out"}]
  BY <1>1, ConnsCall DEF ManagerTypeOK, Pending
<1>3. \A d \in Conns : at'[d] = IF d = c THEN "waiting" ELSE at[d]
  BY <1>1, ConnsCall DEF ManagerTypeOK
<1>4. \A d \in Conns : pc'[d] = IF d = c THEN "connecting" ELSE pc[d]
  BY <1>1 DEF TypeOK, TaskTypeOK
<1>5. \A d \in Conns \ {c} : token'[d] = token[d]
  BY <1>1 DEF TypeOK, TaskTypeOK
<1>6. token'[c] # NoToken
  <2>1. user[c] \in Users \cup {NoUser} /\ Tor!TypeOK
    BY DEF TypeOK, TaskTypeOK, SharedTypeOK
  <2>2. Tor!isolation_token(user[c]) \in Nat
    BY <2>1, ResolveTokenType DEF DialTor, Dial
  <2> QED
    BY <1>1, <2>2 DEF TypeOK, TaskTypeOK, NoToken
<1>7. ManagerTypeOK'
  BY <1>2, <1>3 DEF ManagerTypeOK
<1>8. HandlerTied'
  BY <1>3, <1>4, <1>5, <1>6 DEF HandlerTied, Pending
<1>9. ReplyTied'
  BY <1>1, <1>3, <1>4 DEF ReplyTied
<1> QED
  BY <1>7, <1>8, <1>9

LEMMA ResolvesInv ==
  ASSUME ProxyInv, NEW c \in Conns, ConnectResolves(c)
  PROVE  ManagerTypeOK' /\ HandlerTied' /\ ReplyTied'
<1> USE DEF ProxyInv
<1>1. /\ UNCHANGED <<at, booted, token, out>>
      /\ \/ at[c] = "ok" /\ pc' = [pc EXCEPT ![c] = "reply_ok"]
         \/ at[c] = "failed" /\ pc' = [pc EXCEPT ![c] = "reply_fail"]
  BY DEF ConnectResolves, TorOpens, TorRefuses, Goto, managerVars
<1>2. \A d \in Conns \ {c} : pc'[d] = pc[d]
  BY <1>1 DEF TypeOK, TaskTypeOK
<1>3. \/ at[c] = "ok" /\ pc'[c] = "reply_ok"
      \/ at[c] = "failed" /\ pc'[c] = "reply_fail"
  BY <1>1 DEF TypeOK, TaskTypeOK
<1>4. ManagerTypeOK'
  BY <1>1 DEF ManagerTypeOK
<1>5. HandlerTied'
  BY <1>1, <1>2, <1>3 DEF HandlerTied, Pending
<1>6. ReplyTied'
  BY <1>1, <1>2, <1>3 DEF ReplyTied
<1> QED
  BY <1>4, <1>5, <1>6

LEMMA ServingInv ==
  ASSUME ProxyInv, Serving
  PROVE  ManagerTypeOK' /\ HandlerTied' /\ ReplyTied'
<1> USE DEF ProxyInv
<1>1. UNCHANGED <<token, at, booted>>
  BY ServingMoves DEF managerVars
<1>2. ManagerTypeOK'
  BY <1>1 DEF ManagerTypeOK
<1>3. HandlerTied'
  BY <1>1, ServingMoves DEF HandlerTied
<1>4. ASSUME NEW c \in Conns
      PROVE  /\ pc'[c] = "reply_ok" => pc[c] = "reply_ok"
             /\ pc'[c] = "reply_fail" => pc[c] = "reply_fail"
  BY ServingMoves
<1>5. ASSUME NEW c \in Conns
      PROVE  /\ "rep_ok" \in Range(out'[c])
                  => "rep_ok" \in Range(out[c]) \/ pc[c] = "reply_ok"
             /\ "rep_fail" \in Range(out'[c])
                  => "rep_fail" \in Range(out[c]) \/ pc[c] = "reply_fail"
  <2>1. CASE out'[c] = out[c]
    BY <2>1
  <2>2. ASSUME NEW rep \in Replies, out'[c] = Append(out[c], rep),
               rep = "rep_ok" => pc[c] = "reply_ok",
               rep = "rep_fail" => pc[c] = "reply_fail"
        PROVE  /\ "rep_ok" \in Range(out'[c])
                    => "rep_ok" \in Range(out[c]) \/ pc[c] = "reply_ok"
               /\ "rep_fail" \in Range(out'[c])
                    => "rep_fail" \in Range(out[c]) \/ pc[c] = "reply_fail"
    <3>1. out[c] \in Seq(Replies)
      BY DEF TypeOK, TaskTypeOK
    <3> QED
      BY <2>2, <3>1, SaidMore
  <2> QED
    BY <2>1, <2>2, ServingMoves
<1>6. ReplyTied'
  BY <1>1, <1>4, <1>5 DEF ReplyTied
<1> QED
  BY <1>2, <1>3, <1>6

\* arti moves one caller at a time, along the stages of a connect.
LEMMA BootstrappingMoves ==
  ASSUME ProxyInv, Bootstrapping
  PROVE  /\ UNCHANGED <<pc, token, out>>
         /\ booted => booted'
         /\ \/ UNCHANGED at
            \/ \E next \in Pending \cup Answered \cup {"timed_out"} :
                 at' = [at EXCEPT ![Task] = next]
            \/ \E c \in Conns, next \in Pending \cup Answered :
                 /\ at[c] \in Pending /\ at' = [at EXCEPT ![c] = next]
                 /\ next \in {"opening", "ok"} => booted'
<1> USE DEF ProxyInv
<1>1. UNCHANGED <<pc, token, out>>
  BY DEF Bootstrapping, vars, taskVars
<1>2. ASSUME NEW c \in Conns, Manager!Opens(c)
      PROVE  /\ UNCHANGED booted
             /\ at[c] = "opening"
             /\ \E next \in Answered : at' = [at EXCEPT ![c] = next]
  BY <1>2 DEF Manager!Opens, Manager!Goto, Manager!artiVars, Answered
<1>3. ASSUME NEW p \in Manager!Callers,
             Manager!StartsAttempt(p) \/ Manager!Bootstraps(p) \/ Manager!GivesUp(p)
      PROVE  /\ booted => booted'
             /\ at[p] \in Pending
             /\ \E next \in Pending \cup Answered :
                  /\ at' = [at EXCEPT ![p] = next]
                  /\ next \in {"opening", "ok"} => booted'
  <2>1. CASE Manager!StartsAttempt(p)
    <3>1. at[p] = "waiting" /\ at' = [at EXCEPT ![p] = "driving"] /\ UNCHANGED booted
      BY <2>1 DEF Manager!StartsAttempt, Manager!Goto
    <3>2. booted => booted'
      BY <3>1, Zenon
    <3>3. "driving" \in Pending /\ at[p] \in Pending /\ "driving" \notin {"opening", "ok"}
      BY <3>1 DEF Pending
    <3> QED
      BY <3>1, <3>2, <3>3
  <2>2. CASE Manager!Bootstraps(p)
    <3>1. booted' = TRUE /\ at[p] \in Pending
      BY <2>2 DEF Manager!Bootstraps, Pending
    <3>2. at' = [at EXCEPT ![p] = IF p = Task THEN "ok" ELSE "opening"]
      BY <2>2 DEF Manager!Bootstraps, Manager!Goto
    <3> QED
      BY <3>1, <3>2 DEF Pending, Answered
  <2>3. CASE Manager!GivesUp(p)
    BY <2>3 DEF Manager!GivesUp, Manager!Goto, Pending, Answered
  <2> QED
    BY <1>3, <2>1, <2>2, <2>3
<1>4. CASE Manager!BootstrapTimesOut
  BY <1>1, <1>4 DEF Manager!BootstrapTimesOut, Manager!Goto
<1>5. CASE Manager!MakesProgress \/ Manager!NetworkFails \/ Manager!NetworkReturns
  BY <1>1, <1>5
  DEF Manager!MakesProgress, Manager!NetworkFails, Manager!NetworkReturns,
      Manager!artiVars
<1>6. ASSUME NEW c \in Conns, Manager!Opens(c)
      PROVE  booted' = booted /\ booted
  BY <1>2, <1>6 DEF ReplyTied
<1>7. \A p \in Manager!Callers : p = Task \/ p \in Conns
  BY DEF Manager!Callers
<1> QED
  BY <1>1, <1>2, <1>3, <1>4, <1>5, <1>6, <1>7 DEF Bootstrapping, Pending

LEMMA BootstrappingInv ==
  ASSUME ProxyInv, Bootstrapping
  PROVE  ManagerTypeOK' /\ HandlerTied' /\ ReplyTied'
<1> USE DEF ProxyInv
<1>1. UNCHANGED <<pc, token, out>> /\ (booted => booted')
  BY BootstrappingMoves
<1>2. ASSUME \A c \in Conns : at'[c] = at[c],
             at' \in [Manager!Callers -> Pending \cup Answered \cup {"none", "timed_out"}]
      PROVE  ManagerTypeOK' /\ HandlerTied' /\ ReplyTied'
  BY <1>1, <1>2 DEF ManagerTypeOK, HandlerTied, ReplyTied
<1>3. CASE UNCHANGED at
  BY <1>2, <1>3 DEF ManagerTypeOK
<1>4. ASSUME NEW next \in Pending \cup Answered \cup {"timed_out"},
             at' = [at EXCEPT ![Task] = next]
      PROVE  ManagerTypeOK' /\ HandlerTied' /\ ReplyTied'
  BY <1>2, <1>4, ConnsCall DEF ManagerTypeOK
<1>5. ASSUME NEW c \in Conns, NEW next \in Pending \cup Answered,
             at[c] \in Pending, at' = [at EXCEPT ![c] = next],
             next \in {"opening", "ok"} => booted'
      PROVE  ManagerTypeOK' /\ HandlerTied' /\ ReplyTied'
  <2>1. \A d \in Conns : at'[d] = IF d = c THEN next ELSE at[d]
    BY <1>5, ConnsCall DEF ManagerTypeOK
  <2>2. ManagerTypeOK'
    <3>1. at' \in [Manager!Callers -> Pending \cup Answered \cup {"none", "timed_out"}]
      BY <1>5, ConnsCall DEF ManagerTypeOK
    <3> QED
      BY <2>1, <3>1 DEF ManagerTypeOK, Pending, Answered
  <2>3. HandlerTied'
    BY <1>1, <1>5, <2>1 DEF HandlerTied, Pending, Answered
  <2>4. /\ pc[c] = "connecting"
        /\ "rep_ok" \notin Range(out[c]) /\ "rep_fail" \notin Range(out[c])
    BY <1>5 DEF HandlerTied, ReplyTied, Pending
  <2>5. ReplyTied'
    BY <1>1, <1>5, <2>1, <2>4 DEF ReplyTied
  <2> QED
    BY <2>2, <2>3, <2>5
<1> QED
  BY <1>3, <1>4, <1>5, BootstrappingMoves

LEMMA NextProxyInv == ProxyInv /\ [ProxyNext]_proxyVars => ProxyInv'
<1> SUFFICES ASSUME ProxyInv, [ProxyNext]_proxyVars PROVE ProxyInv'
  OBVIOUS
<1>1. TypeOK'
  BY NextTypeOK, NextServes DEF ProxyInv
<1>2. CASE UNCHANGED proxyVars
  BY <1>1, <1>2
  DEF proxyVars, managerVars, vars, taskVars, ProxyInv, ManagerTypeOK,
      HandlerTied, ReplyTied
<1> QED
  BY <1>1, <1>2, DialInv, ResolvesInv, ServingInv, BootstrappingInv
  DEF ProxyNext, ProxyInv

\* A connect and the handler that awaits it are never parted: no connect goes
\* on behind a handler that has returned, and arti is asked once for each
\* CONNECT (handle, connect().await).
THEOREM ConnectIsHandled == ProxySpec => []ConnectHasItsHandler
<1>1. ProxyInv => ConnectHasItsHandler
  BY DEF ProxyInv, HandlerTied, ConnectHasItsHandler, Dialled, Pending
<1> QED
  BY <1>1, InitProxyInv, NextProxyInv, PTL DEF ProxySpec

\* Success is said only of a stream that Tor opened after it had bootstrapped,
\* failure only of one that it did not, for any number of connects, however
\* they, the background task and its timeout overlap ("fail closed").
THEOREM RepliesAreTrue == ProxySpec => []RepliesFollowTor
<1>1. ProxyInv => RepliesFollowTor
  BY DEF ProxyInv, ReplyTied, RepliesFollowTor
<1> QED
  BY <1>1, InitProxyInv, NextProxyInv, PTL DEF ProxySpec
=============================================================================
