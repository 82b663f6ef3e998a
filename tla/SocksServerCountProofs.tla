----------------------- MODULE SocksServerCountProofs -----------------------
(***************************************************************************)
(* What is counted comes out, for any number of connections: the counters  *)
(* of CONNECTs and of bytes agree with what the handlers did, and no       *)
(* payload is lost between the handshake's exact reads and a clean end of  *)
(* the splice, for any buffer and scripts of any length.                   *)
(***************************************************************************)
EXTENDS SocksServerProofs, FiniteFacts

-----------------------------------------------------------------------------
(* What has been said to a client. *)

Told(c) == "rep_ok" \in Range(out[c])

\* Success is said on the way into the splice and nowhere before.
ToldAtSplice ==
  \A c \in Conns :
    /\ pc[c] = "splice" => Told(c)
    /\ pc[c] \in Phases \ {"splice", "closed"} => ~ Told(c)

CountInv == IsolationInv /\ ContractInv /\ ToldAtSplice /\ ConnectsAccounted

LEMMA SaidMore ==
  ASSUME NEW s \in Seq(Replies), NEW rep \in Replies
  PROVE  Range(Append(s, rep)) = Range(s) \cup {rep}
<1>1. /\ DOMAIN Append(s, rep) = DOMAIN s \cup {Len(s) + 1}
      /\ \A i \in DOMAIN s : Append(s, rep)[i] = s[i]
      /\ Append(s, rep)[Len(s) + 1] = rep
  OBVIOUS
<1> QED
  BY <1>1, Zenon DEF Range

\* What the handshake may say.
LEMMA HandshakeSays ==
  ASSUME TypeOK, NEW c \in Conns,
         Greeting(c) \/ Auth(c) \/ Request(c) \/ ReadFails(c) \/ TargetFails(c)
  PROVE  \/ UNCHANGED out
         \/ \E rep \in Replies \ {"rep_ok", "rep_fail"} :
              out' = [out EXCEPT ![c] = Append(@, rep)]
  BY DEF Greeting, Auth, Request, ReadFails, TargetFails, Say, Bail, Replies

\* One more reply to one client, and what it does to who is told.
LEMMA ToldMore ==
  ASSUME TypeOK, NEW c \in Conns, NEW rep \in Replies,
         out' = [out EXCEPT ![c] = Append(@, rep)]
  PROVE  \A d \in Conns : Told(d)' <=> Told(d) \/ (d = c /\ rep = "rep_ok")
<1>1. out[c] \in Seq(Replies) /\ out'[c] = Append(out[c], rep)
  BY DEF TypeOK, TaskTypeOK
<1>2. \A d \in Conns \ {c} : out'[d] = out[d]
  BY DEF TypeOK, TaskTypeOK
<1>3. Range(out'[c]) = Range(out[c]) \cup {rep}
  BY <1>1, SaidMore
<1> QED
  BY <1>2, <1>3 DEF Told

\* What a step does to pc and to who is told, for the actions that move pc.
LEMMA PcMoves ==
  ASSUME TypeOK, NEW c \in Conns, NEW p, pc' = [pc EXCEPT ![c] = p]
  PROVE  \A d \in Conns : pc'[d] = IF d = c THEN p ELSE pc[d]
  BY DEF TypeOK, TaskTypeOK

-----------------------------------------------------------------------------
(* Five ways of a step with the counts. *)

\* Nothing that is counted changes.
Uncounted ==
  /\ metrics'.connects_total = metrics.connects_total
  /\ metrics'.connects_ok = metrics.connects_ok
  /\ metrics'.connects_failed = metrics.connects_failed
  /\ UNCHANGED <<Dialled, InFlight, Unconfirmed>>

LEMMA UncountedKeeps ==
  ASSUME ConnectsAccounted, Uncounted
  PROVE  ConnectsAccounted'
  BY DEF ConnectsAccounted, Uncounted

LEMMA Finite ==
  /\ IsFiniteSet(Dialled) /\ Cardinality(Dialled) \in Nat
  /\ IsFiniteSet(InFlight) /\ Cardinality(InFlight) \in Nat
  /\ IsFiniteSet(Unconfirmed) /\ Cardinality(Unconfirmed) \in Nat
<1>1. /\ Dialled \in SUBSET Conns /\ InFlight \in SUBSET Conns
      /\ Unconfirmed \in SUBSET Conns
  BY DEF Dialled, InFlight, Unconfirmed
<1> QED
  BY <1>1, FS_Subset, FS_CardinalityType, ServerAssumption

LEMMA CountsAreNumbers ==
  ASSUME TypeOK
  PROVE  /\ metrics.connects_total \in Nat /\ metrics.connects_ok \in Nat
         /\ metrics.connects_failed \in Nat
  BY DEF TypeOK, SharedTypeOK, Counters

LEMMA BumpCounts ==
  ASSUME TypeOK, NEW f \in {"connects_total", "connects_ok", "connects_failed",
                            "bytes_to_upstream", "bytes_to_client"}, Bump(f)
  PROVE  \A g \in {"connects_total", "connects_ok", "connects_failed"} :
           metrics'[g] = IF g = f THEN metrics[g] + 1 ELSE metrics[g]
  BY DEF TypeOK, SharedTypeOK, Counters, Bump

\* A step that mints no token and leaves each count's members as they are.
LEMMA SameSets ==
  ASSUME TypeOK, UNCHANGED token,
         \A c \in Conns : pc'[c] \in {"connecting", "reply_ok"}
                            <=> pc[c] \in {"connecting", "reply_ok"},
         \A c \in Conns : (up'[c] = "dropped" /\ ~ Told(c)')
                            <=> (up[c] = "dropped" /\ ~ Told(c))
  PROVE  UNCHANGED <<Dialled, InFlight, Unconfirmed>>
<1>1. UNCHANGED Dialled
  BY DEF Dialled
<1>2. UNCHANGED InFlight
  BY DEF InFlight
<1>3. UNCHANGED Unconfirmed
  BY DEF Unconfirmed, Told
<1> QED
  BY <1>1, <1>2, <1>3

-----------------------------------------------------------------------------
(* The steps. *)

LEMMA InitCount == Init => CountInv
<1> SUFFICES ASSUME Init PROVE CountInv
  OBVIOUS
<1>1. \A c \in Conns : pc[c] = "new" /\ out[c] = <<>> /\ up[c] = "none"
  BY DEF Init
<1>2. \A c \in Conns : ~ Told(c)
  BY <1>1 DEF Told, Range
<1>3. Dialled = {} /\ InFlight = {} /\ Unconfirmed = {}
  BY <1>1 DEF Init, Dialled, InFlight, Unconfirmed
<1>4. ConnectsAccounted
  BY <1>3, FS_EmptySet DEF Init, ConnectsAccounted
<1> QED
  BY <1>1, <1>2, <1>4, InitIsolationInv, InitContractInv DEF CountInv, ToldAtSplice

\* Steps of the client, the copy and the destination.
LEMMA CopyingCounts ==
  ASSUME CountInv, NEW c \in Conns,
         Client(c) \/ Forward(c) \/ Backward(c) \/ Destination(c)
  PROVE  ToldAtSplice' /\ ConnectsAccounted'
<1> USE DEF CountInv, ContractInv
<1>1. UNCHANGED <<pc, out, token>>
  BY DEF Client, ClientSends, ClientFin, ClientResets, Forward, TakeFromClient,
      GiveToTor, ShutTor, Backward, TakeFromTor, WriteToClient, ShutClient,
      SpliceOnly, Destination, DestinationSends, DestinationEnds, CircuitFails,
      TorEnvironment, taskVars
<1>2. \A d \in Conns : up'[d] = "dropped" <=> up[d] = "dropped"
  <2>1. \/ UNCHANGED up
        \/ \E u \in {"eof", "err"} :
             up[c] \in {"open", "eof"} /\ up' = [up EXCEPT ![c] = u]
    BY DEF Client, ClientSends, ClientFin, ClientResets, Forward,
        TakeFromClient, GiveToTor, ShutTor, Backward, TakeFromTor,
        WriteToClient, ShutClient, Destination, DestinationSends,
        DestinationEnds, CircuitFails, torVars
  <2> QED
    BY <2>1 DEF TypeOK, TorTypeOK
<1>3. \/ UNCHANGED metrics
      \/ Bump("bytes_to_upstream") \/ Bump("bytes_to_client")
  BY DEF Client, ClientSends, ClientFin, ClientResets, Forward, TakeFromClient,
      GiveToTor, ShutTor, Backward, TakeFromTor, WriteToClient, ShutClient,
      Destination, DestinationSends, DestinationEnds, CircuitFails,
      TorEnvironment, sharedVars
<1>4. /\ metrics'.connects_total = metrics.connects_total
      /\ metrics'.connects_ok = metrics.connects_ok
      /\ metrics'.connects_failed = metrics.connects_failed
  BY <1>3, BumpCounts
<1>5. UNCHANGED <<Dialled, InFlight, Unconfirmed>>
  BY <1>1, <1>2, SameSets DEF Told
<1> QED
  BY <1>1, <1>4, <1>5, UncountedKeeps DEF Uncounted, ToldAtSplice, Told

\* A step before the CONNECT, or of the accept loop.
LEMMA EarlyStepCounts ==
  ASSUME CountInv, NEW c \in Conns,
         NEW p \in {"greeting", "auth", "request", "target", "closed"},
         pc[c] \in BeforeDial, pc' = [pc EXCEPT ![c] = p],
         UNCHANGED <<token, up, metrics>>,
         \A d \in Conns : Told(d)' <=> Told(d)
  PROVE  ToldAtSplice' /\ ConnectsAccounted'
<1> USE DEF CountInv, ContractInv
<1>1. \A d \in Conns : pc'[d] = IF d = c THEN p ELSE pc[d]
  BY PcMoves
<1>2. UNCHANGED <<Dialled, InFlight, Unconfirmed>>
  BY <1>1, SameSets DEF BeforeDial
<1>3. ToldAtSplice'
  BY <1>1 DEF ToldAtSplice, BeforeDial, Phases, Registered
<1> QED
  BY <1>2, <1>3, UncountedKeeps DEF Uncounted

LEMMA HandshakeCounts ==
  ASSUME CountInv, NEW c \in Conns,
         Greeting(c) \/ Auth(c) \/ Request(c) \/ ReadFails(c) \/ TargetFails(c)
  PROVE  ToldAtSplice' /\ ConnectsAccounted'
<1> USE DEF CountInv, ContractInv
<1>1. /\ pc[c] \in BeforeDial /\ UNCHANGED <<token, up, metrics>>
      /\ \E p \in {"greeting", "auth", "request", "target", "closed"} :
           pc' = [pc EXCEPT ![c] = p]
  BY HandshakeMoves DEF HandshakeOnly, BeforeDial, torVars, sharedVars
<1>2. \A d \in Conns : Told(d)' <=> Told(d)
  BY HandshakeSays, ToldMore DEF Told
<1> QED
  BY <1>1, <1>2, EarlyStepCounts

LEMMA AcceptCounts ==
  ASSUME CountInv, (\E c \in Conns : Accept(c)) \/ AcceptFails \/ BackoffEnds
  PROVE  ToldAtSplice' /\ ConnectsAccounted'
<1> USE DEF CountInv, ContractInv
<1>1. UNCHANGED <<token, up, out, metrics>>
  BY DEF Accept, AcceptFails, BackoffEnds, taskVars, torVars, sharedVars
<1>2. \A d \in Conns : Told(d)' <=> Told(d)
  BY <1>1 DEF Told
<1>3. CASE UNCHANGED pc
  BY <1>1, <1>2, <1>3, SameSets, UncountedKeeps DEF Uncounted, ToldAtSplice
<1>4. ASSUME NEW c \in Conns, NEW p \in {"greeting", "closed"},
             pc[c] = "new", pc' = [pc EXCEPT ![c] = p]
      PROVE  ToldAtSplice' /\ ConnectsAccounted'
  BY <1>1, <1>2, <1>4, EarlyStepCounts DEF BeforeDial
<1>5. \/ UNCHANGED pc
      \/ \E c \in Conns, p \in {"greeting", "closed"} :
           pc[c] = "new" /\ pc' = [pc EXCEPT ![c] = p]
  BY DEF Accept, AcceptFails, BackoffEnds, taskVars
<1> QED
  BY <1>3, <1>4, <1>5

\* The CONNECT is counted, and is in flight.
LEMMA DialCounts ==
  ASSUME CountInv, TypeOK', NEW c \in Conns, Dial(c)
  PROVE  ToldAtSplice' /\ ConnectsAccounted'
<1> USE DEF CountInv, ContractInv
<1>1. /\ pc[c] = "target" /\ Bump("connects_total")
      /\ pc' = [pc EXCEPT ![c] = "connecting"]
      /\ token' = [token EXCEPT ![c] = Tor!isolation_token(user[c])]
      /\ UNCHANGED <<out, up>>
  BY DEF Dial, Goto, torVars
<1>2. \A d \in Conns : pc'[d] = IF d = c THEN "connecting" ELSE pc[d]
  BY <1>1, PcMoves
<1>3. \A d \in Conns : Told(d)' <=> Told(d)
  BY <1>1 DEF Told
<1>4. ToldAtSplice'
  BY <1>1, <1>2, <1>3 DEF ToldAtSplice, Phases, Registered
<1>5. c \notin Dialled /\ c \notin InFlight
  BY <1>1 DEF IsolationInv, TokensComeFromUsers, BeforeDial, InFlight
<1>6. token'[c] # NoToken /\ \A d \in Conns \ {c} : token'[d] = token[d]
  <2>1. user[c] \in Users \cup {NoUser} /\ Tor!TypeOK
    BY DEF TypeOK, TaskTypeOK, SharedTypeOK
  <2>2. Tor!isolation_token(user[c]) \in Nat
    BY <2>1, ResolveTokenType DEF Dial
  <2> QED
    BY <1>1, <2>2 DEF TypeOK, TaskTypeOK, NoToken
<1>7. Dialled' = Dialled \cup {c}
  BY <1>6 DEF Dialled
<1>8. InFlight' = InFlight \cup {c}
  BY <1>2 DEF InFlight
<1>9. Unconfirmed' = Unconfirmed
  BY <1>1 DEF Unconfirmed
<1>10. /\ Cardinality(Dialled') = Cardinality(Dialled) + 1
       /\ Cardinality(InFlight') = Cardinality(InFlight) + 1
  BY <1>5, <1>7, <1>8, Finite, FS_AddElement
<1>11. /\ metrics'.connects_total = metrics.connects_total + 1
       /\ metrics'.connects_ok = metrics.connects_ok
       /\ metrics'.connects_failed = metrics.connects_failed
  BY <1>1, BumpCounts
<1>12. ConnectsAccounted'
  <2>1. metrics'.connects_total = Cardinality(Dialled')
    BY <1>10, <1>11 DEF ConnectsAccounted
  <2>2. metrics'.connects_total
          = metrics.connects_ok + metrics.connects_failed
              + (Cardinality(InFlight) + 1) + Cardinality(Unconfirmed)
    BY <1>11, Finite, CountsAreNumbers DEF ConnectsAccounted
  <2> QED
    BY <1>9, <1>10, <1>11, <2>1, <2>2 DEF ConnectsAccounted
<1> QED
  BY <1>4, <1>12

\* A connect in flight ends: in one of the two counters, or unconfirmed.
LEMMA EndingCounts ==
  ASSUME CountInv, TypeOK', NEW c \in InFlight,
         UNCHANGED Dialled, InFlight' = InFlight \ {c},
         metrics'.connects_total = metrics.connects_total,
         \/ /\ metrics'.connects_ok + metrics'.connects_failed
                 = metrics.connects_ok + metrics.connects_failed + 1
            /\ UNCHANGED Unconfirmed
         \/ /\ metrics'.connects_ok = metrics.connects_ok
            /\ metrics'.connects_failed = metrics.connects_failed
            /\ c \notin Unconfirmed /\ Unconfirmed' = Unconfirmed \cup {c}
  PROVE  ConnectsAccounted'
<1> DEFINE ended == metrics.connects_ok + metrics.connects_failed
<1>1. Cardinality(InFlight') = Cardinality(InFlight) - 1
  BY Finite, FS_RemoveElement
<1>2. ended \in Nat /\ ended' \in Nat
  BY DEF CountInv, ContractInv, TypeOK, SharedTypeOK, Counters
<1>3. ended' + Cardinality(Unconfirmed') = ended + Cardinality(Unconfirmed) + 1
  <2>1. CASE ended' = ended + 1 /\ UNCHANGED Unconfirmed
    <3> HIDE DEF ended
    <3> QED
      BY <1>2, <2>1, Finite
  <2>2. CASE /\ ended' = ended
             /\ c \notin Unconfirmed /\ Unconfirmed' = Unconfirmed \cup {c}
    <3>1. Cardinality(Unconfirmed') = Cardinality(Unconfirmed) + 1
      BY <2>2, Finite, FS_AddElement
    <3> HIDE DEF ended
    <3> QED
      BY <1>2, <2>2, <3>1, Finite
  <2> QED
    BY <2>1, <2>2
<1>4. /\ metrics.connects_total = Cardinality(Dialled)
      /\ metrics.connects_total
           = ended + Cardinality(InFlight) + Cardinality(Unconfirmed)
  BY DEF CountInv, ConnectsAccounted
<1>5. metrics'.connects_total
        = ended' + Cardinality(InFlight') + Cardinality(Unconfirmed')
  <2>1. Cardinality(Unconfirmed') \in Int
    <3>1. Unconfirmed' \in SUBSET Conns
      BY DEF Unconfirmed
    <3>2. IsFiniteSet(Unconfirmed')
      BY <3>1, FS_Subset, ServerAssumption
    <3> QED
      BY <3>2, FS_CardinalityType
  <2> HIDE DEF ended
  <2> QED
    BY <1>1, <1>2, <1>3, <1>4, <2>1, Finite
<1> QED
  BY <1>4, <1>5 DEF ConnectsAccounted

LEMMA AnswerCounts ==
  ASSUME CountInv, TypeOK', NEW c \in Conns, TorAnswers(c) \/ Answer(c)
  PROVE  ToldAtSplice' /\ ConnectsAccounted'
<1> USE DEF CountInv, ContractInv
<1>0. /\ pc[c] # "closed" /\ up[c] # "dropped"
      /\ UNCHANGED token
  BY DEF TorAnswers, TorOpens, TorRefuses, Answer, Confirm, ConfirmFails,
      FailClosed, Return, StreamHeldFromAnswerToReturn
<1>1. UNCHANGED Dialled
  BY <1>0 DEF Dialled
<1>2. c \notin Unconfirmed
  BY <1>0 DEF Unconfirmed
<1>3. CASE TorOpens(c)
  <2>1. /\ pc[c] = "connecting" /\ pc' = [pc EXCEPT ![c] = "reply_ok"]
        /\ up' = [up EXCEPT ![c] = "open"] /\ UNCHANGED <<out, metrics>>
    BY <1>3 DEF TorOpens, Goto, sharedVars
  <2>2. \A d \in Conns : pc'[d] = IF d = c THEN "reply_ok" ELSE pc[d]
    BY <2>1, PcMoves
  <2>3. \A d \in Conns : up'[d] = IF d = c THEN "open" ELSE up[d]
    BY <2>1 DEF TypeOK, TorTypeOK
  <2>4. \A d \in Conns : Told(d)' <=> Told(d)
    BY <2>1 DEF Told
  <2>5. UNCHANGED <<Dialled, InFlight, Unconfirmed>>
    BY <1>0, <2>1, <2>2, <2>3, <2>4, SameSets
  <2>6. ToldAtSplice'
    BY <2>1, <2>2, <2>4 DEF ToldAtSplice, Phases, Registered
  <2> QED
    BY <2>1, <2>5, <2>6, UncountedKeeps DEF Uncounted
<1>4. CASE TorRefuses(c)
  <2>1. /\ pc[c] = "connecting" /\ pc' = [pc EXCEPT ![c] = "reply_fail"]
        /\ Bump("connects_failed") /\ UNCHANGED <<out, up>>
    BY <1>4 DEF TorRefuses, Goto, torVars
  <2>2. \A d \in Conns : pc'[d] = IF d = c THEN "reply_fail" ELSE pc[d]
    BY <2>1, PcMoves
  <2>3. c \in InFlight /\ InFlight' = InFlight \ {c} /\ UNCHANGED Unconfirmed
    BY <2>1, <2>2 DEF InFlight, Unconfirmed
  <2>4. /\ metrics'.connects_total = metrics.connects_total
        /\ metrics'.connects_ok + metrics'.connects_failed
             = metrics.connects_ok + metrics.connects_failed + 1
    BY <2>1, BumpCounts, CountsAreNumbers
  <2>5. ToldAtSplice'
    BY <2>1, <2>2 DEF ToldAtSplice, Told, Phases, Registered
  <2> QED
    BY <1>1, <2>3, <2>4, <2>5, EndingCounts
<1>5. CASE Confirm(c)
  <2>1. /\ pc[c] = "reply_ok" /\ pc' = [pc EXCEPT ![c] = "splice"]
        /\ Bump("connects_ok") /\ UNCHANGED up
        /\ out' = [out EXCEPT ![c] = Append(@, "rep_ok")]
    BY <1>5 DEF Confirm, Goto, torVars
  <2>2. \A d \in Conns : pc'[d] = IF d = c THEN "splice" ELSE pc[d]
    BY <2>1, PcMoves
  <2>3. \A d \in Conns : Told(d)' <=> Told(d) \/ d = c
    <3>1. "rep_ok" \in Replies
      BY DEF Replies
    <3> QED
      BY <2>1, <3>1, ToldMore
  <2>4. c \in InFlight /\ InFlight' = InFlight \ {c}
    BY <2>1, <2>2 DEF InFlight
  <2>5. UNCHANGED Unconfirmed
    BY <1>0, <2>1, <2>3 DEF Unconfirmed, Told
  <2>6. /\ metrics'.connects_total = metrics.connects_total
        /\ metrics'.connects_ok + metrics'.connects_failed
             = metrics.connects_ok + metrics.connects_failed + 1
    BY <2>1, BumpCounts, CountsAreNumbers
  <2>7. ToldAtSplice'
    BY <2>1, <2>2, <2>3 DEF ToldAtSplice
  <2> QED
    BY <1>1, <2>4, <2>5, <2>6, <2>7, EndingCounts
<1>6. CASE ConfirmFails(c)
  <2>1. /\ pc[c] = "reply_ok" /\ pc' = [pc EXCEPT ![c] = "closed"]
        /\ up[c] # "none" /\ UNCHANGED <<out, metrics>>
        /\ up' = [up EXCEPT ![c] = "dropped"]
    BY <1>6 DEF ConfirmFails, Return, Goto, StreamHeldFromAnswerToReturn
  <2>2. \A d \in Conns : pc'[d] = IF d = c THEN "closed" ELSE pc[d]
    BY <2>1, PcMoves
  <2>3. \A d \in Conns : up'[d] = IF d = c THEN "dropped" ELSE up[d]
    BY <2>1 DEF TypeOK, TorTypeOK
  <2>4. ~ Told(c)
    BY <2>1 DEF ToldAtSplice, Phases, Registered
  <2>5. c \in InFlight /\ InFlight' = InFlight \ {c}
    BY <2>1, <2>2 DEF InFlight
  <2>6. Unconfirmed' = Unconfirmed \cup {c}
    BY <2>1, <2>3, <2>4 DEF Unconfirmed, Told
  <2>7. ToldAtSplice'
    BY <2>1, <2>2 DEF ToldAtSplice, Told
  <2> QED
    BY <1>1, <1>2, <2>1, <2>5, <2>6, <2>7, EndingCounts
<1>7. CASE FailClosed(c)
  <2>1. /\ pc[c] = "reply_fail" /\ pc' = [pc EXCEPT ![c] = "closed"]
        /\ UNCHANGED metrics
        /\ up[c] = "none" /\ up' = [up EXCEPT ![c] = "none"]
        /\ UNCHANGED out \/ out' = [out EXCEPT ![c] = Append(@, "rep_fail")]
    BY <1>7 DEF FailClosed, Return, Goto, StreamHeldFromAnswerToReturn
  <2>2. \A d \in Conns : pc'[d] = IF d = c THEN "closed" ELSE pc[d]
    BY <2>1, PcMoves
  <2>3. \A d \in Conns : up'[d] = up[d]
    BY <2>1 DEF TypeOK, TorTypeOK
  <2>4. \A d \in Conns : Told(d)' <=> Told(d)
    <3>1. "rep_fail" \in Replies
      BY DEF Replies
    <3>2. CASE UNCHANGED out
      BY <3>2 DEF Told
    <3>3. CASE out' = [out EXCEPT ![c] = Append(@, "rep_fail")]
      BY <3>1, <3>3, ToldMore
    <3> QED
      BY <2>1, <3>2, <3>3
  <2>5. UNCHANGED <<Dialled, InFlight, Unconfirmed>>
    BY <1>0, <2>1, <2>2, <2>3, <2>4, SameSets
  <2>6. ToldAtSplice'
    BY <2>1, <2>2, <2>4 DEF ToldAtSplice
  <2> QED
    BY <2>1, <2>5, <2>6, UncountedKeeps DEF Uncounted
<1> QED
  BY <1>3, <1>4, <1>5, <1>6, <1>7 DEF TorAnswers, Answer

LEMMA FinishCounts ==
  ASSUME CountInv, NEW c \in Conns, Finish(c)
  PROVE  ToldAtSplice' /\ ConnectsAccounted'
<1> USE DEF CountInv, ContractInv
<1>1. /\ pc[c] = "splice" /\ pc' = [pc EXCEPT ![c] = "closed"]
      /\ up[c] # "none" /\ UNCHANGED <<token, out, metrics>>
      /\ up' = [up EXCEPT ![c] = "dropped"]
  BY DEF Finish, SpliceEnds, SpliceFails, Return, Goto, StreamHeldFromAnswerToReturn
<1>2. \A d \in Conns : pc'[d] = IF d = c THEN "closed" ELSE pc[d]
  BY <1>1, PcMoves
<1>3. \A d \in Conns : up'[d] = IF d = c THEN "dropped" ELSE up[d]
  BY <1>1 DEF TypeOK, TorTypeOK
<1>4. Told(c) /\ \A d \in Conns : Told(d)' <=> Told(d)
  BY <1>1 DEF ToldAtSplice, Told
<1>5. UNCHANGED <<Dialled, InFlight, Unconfirmed>>
  BY <1>1, <1>2, <1>3, <1>4, SameSets
<1>6. ToldAtSplice'
  BY <1>1, <1>2, <1>4 DEF ToldAtSplice
<1> QED
  BY <1>1, <1>5, <1>6, UncountedKeeps DEF Uncounted

LEMMA NextCount == CountInv /\ [Next]_vars => CountInv'
<1> SUFFICES ASSUME CountInv, [Next]_vars PROVE CountInv'
  OBVIOUS
<1>1. IsolationInv' /\ ContractInv' /\ TypeOK'
  BY NextIsolationInv, NextContractInv DEF CountInv, ContractInv
<1>2. CASE UNCHANGED vars
  <2>1. UNCHANGED <<pc, out, token, up, metrics>>
    BY <1>2 DEF vars, taskVars, torVars, sharedVars
  <2> QED
    BY <1>1, <2>1
    DEF CountInv, ToldAtSplice, Told, ConnectsAccounted, Dialled, InFlight,
        Unconfirmed
<1> QED
  BY <1>1, <1>2, CopyingCounts, HandshakeCounts, AcceptCounts, DialCounts,
     AnswerCounts, FinishCounts
  DEF Next, Handshake, CountInv

\* However a handler ends, its CONNECT is in one of the two counters, is in
\* flight, or had its success reply refused by a client that was gone (handle,
\* from connects_total to connects_ok).
THEOREM ConnectsCounted == Spec => []ConnectsAccounted
  BY InitCount, NextCount, PTL DEF Spec, CountInv

-----------------------------------------------------------------------------
(* The bytes of the process, and those of its connections.                 *)

LEMMA BytesAsSums ==
  BytesAccounted <=> /\ metrics.bytes_to_upstream = Sum(took, Conns)
                     /\ metrics.bytes_to_client = Sum(wrote, Conns)
  BY DEF BytesAccounted, Sum, MapThenSumSet, MapThenFoldSet

LEMMA InitBytes == Init => BytesAccounted
<1> SUFFICES ASSUME Init PROVE BytesAccounted
  OBVIOUS
<1>1. Sum(took, Conns) = 0
  BY ServerAssumption, SumOfZeros DEF Init
<1>2. Sum(wrote, Conns) = 0
  BY ServerAssumption, SumOfZeros DEF Init
<1>3. metrics.bytes_to_upstream = 0 /\ metrics.bytes_to_client = 0
  BY DEF Init
<1> QED
  BY <1>1, <1>2, <1>3, BytesAsSums

\* A chunk is counted by the process in the poll that moves it, and nothing
\* else is.
LEMMA BytesMove ==
  ASSUME TypeOK, [Next]_vars
  PROVE  \/ \E c \in Conns :
              /\ took' = [took EXCEPT ![c] = @ + 1] /\ UNCHANGED wrote
              /\ Bump("bytes_to_upstream")
         \/ \E c \in Conns :
              /\ wrote' = [wrote EXCEPT ![c] = @ + 1] /\ UNCHANGED took
              /\ Bump("bytes_to_client")
         \/ /\ UNCHANGED <<took, wrote>>
            /\ metrics'.bytes_to_upstream = metrics.bytes_to_upstream
            /\ metrics'.bytes_to_client = metrics.bytes_to_client
<1>1. \/ \E c \in Conns :
           \/ TakeFromClient(c)
           \/ WriteToClient(c)
           \/ Dial(c) \/ TorAnswers(c) \/ Answer(c)
           \/ Client(c) \/ Accept(c) \/ Finish(c) \/ Destination(c)
           \/ Greeting(c) \/ Auth(c) \/ Request(c) \/ ReadFails(c) \/ TargetFails(c)
           \/ GiveToTor(c) \/ ShutTor(c) \/ TakeFromTor(c) \/ ShutClient(c)
      \/ AcceptFails \/ BackoffEnds \/ UNCHANGED vars
  BY DEF Next, Handshake, Forward, Backward
<1>2. ASSUME NEW c \in Conns, TakeFromClient(c)
      PROVE  /\ took' = [took EXCEPT ![c] = @ + 1] /\ UNCHANGED wrote
             /\ Bump("bytes_to_upstream")
  BY <1>2 DEF TakeFromClient
<1>3. ASSUME NEW c \in Conns, WriteToClient(c)
      PROVE  /\ wrote' = [wrote EXCEPT ![c] = @ + 1] /\ UNCHANGED took
             /\ Bump("bytes_to_client")
  BY <1>3 DEF WriteToClient
<1>4. ASSUME NEW c \in Conns, Dial(c) \/ TorAnswers(c) \/ Answer(c)
      PROVE  /\ UNCHANGED <<took, wrote>>
             /\ metrics'.bytes_to_upstream = metrics.bytes_to_upstream
             /\ metrics'.bytes_to_client = metrics.bytes_to_client
  <2>1. /\ UNCHANGED <<took, wrote>>
        /\ \/ UNCHANGED metrics
           \/ \E f \in {"connects_total", "connects_ok", "connects_failed"} : Bump(f)
    BY <1>4
    DEF Dial, TorAnswers, TorOpens, TorRefuses, Answer, Confirm, ConfirmFails,
        FailClosed, Return, spliceVars, sharedVars
  <2> QED
    BY <2>1 DEF Bump, TypeOK, SharedTypeOK, Counters
<1>5. ASSUME NEW c \in Conns,
             \/ Client(c) \/ Accept(c) \/ Finish(c) \/ Destination(c)
             \/ GiveToTor(c) \/ ShutTor(c) \/ TakeFromTor(c) \/ ShutClient(c)
      PROVE  UNCHANGED <<took, wrote, metrics>>
  BY <1>5
  DEF Client, ClientSends, ClientFin, ClientResets, Accept, Finish, SpliceEnds,
      SpliceFails, Return, Destination, DestinationSends, DestinationEnds,
      CircuitFails, TorEnvironment, GiveToTor, ShutTor, TakeFromTor, ShutClient,
      spliceVars, sharedVars
<1>6. ASSUME NEW c \in Conns,
             Greeting(c) \/ Auth(c) \/ Request(c) \/ ReadFails(c) \/ TargetFails(c)
      PROVE  UNCHANGED <<took, wrote, metrics>>
  BY <1>6, HandshakeMoves DEF HandshakeOnly, spliceVars, sharedVars
<1>7. CASE AcceptFails \/ BackoffEnds \/ UNCHANGED vars
  BY <1>7 DEF AcceptFails, BackoffEnds, vars, spliceVars, sharedVars
<1> QED
  BY <1>1, <1>2, <1>3, <1>4, <1>5, <1>6, <1>7

LEMMA NextBytes == TypeOK /\ BytesAccounted /\ [Next]_vars => BytesAccounted'
<1> SUFFICES ASSUME TypeOK, BytesAccounted, [Next]_vars PROVE BytesAccounted'
  OBVIOUS
<1>1. /\ metrics.bytes_to_upstream = Sum(took, Conns)
      /\ metrics.bytes_to_client = Sum(wrote, Conns)
  BY BytesAsSums
<1>2. took \in [Conns -> Nat] /\ wrote \in [Conns -> Nat] /\ IsFiniteSet(Conns)
  BY ServerAssumption DEF TypeOK, SpliceTypeOK, Chunks
<1>3. /\ metrics'.bytes_to_upstream = Sum(took', Conns)
      /\ metrics'.bytes_to_client = Sum(wrote', Conns)
  <2>1. CASE \E c \in Conns :
              /\ took' = [took EXCEPT ![c] = @ + 1] /\ UNCHANGED wrote
              /\ Bump("bytes_to_upstream")
    <3>1. PICK c \in Conns :
              /\ took' = [took EXCEPT ![c] = @ + 1] /\ UNCHANGED wrote
              /\ Bump("bytes_to_upstream")
      BY <2>1
    <3>2. Sum(took', Conns) = Sum(took, Conns) + 1
      BY <1>2, <3>1, SumOfBumped
    <3>3. /\ metrics'.bytes_to_upstream = metrics.bytes_to_upstream + 1
          /\ metrics'.bytes_to_client = metrics.bytes_to_client
      BY <3>1 DEF Bump, TypeOK, SharedTypeOK, Counters
    <3> QED
      BY <1>1, <3>1, <3>2, <3>3
  <2>2. CASE \E c \in Conns :
              /\ wrote' = [wrote EXCEPT ![c] = @ + 1] /\ UNCHANGED took
              /\ Bump("bytes_to_client")
    <3>1. PICK c \in Conns :
              /\ wrote' = [wrote EXCEPT ![c] = @ + 1] /\ UNCHANGED took
              /\ Bump("bytes_to_client")
      BY <2>2
    <3>2. Sum(wrote', Conns) = Sum(wrote, Conns) + 1
      BY <1>2, <3>1, SumOfBumped
    <3>3. /\ metrics'.bytes_to_client = metrics.bytes_to_client + 1
          /\ metrics'.bytes_to_upstream = metrics.bytes_to_upstream
      BY <3>1 DEF Bump, TypeOK, SharedTypeOK, Counters
    <3> QED
      BY <1>1, <3>1, <3>2, <3>3
  <2>3. CASE /\ UNCHANGED <<took, wrote>>
             /\ metrics'.bytes_to_upstream = metrics.bytes_to_upstream
             /\ metrics'.bytes_to_client = metrics.bytes_to_client
    BY <1>1, <2>3
  <2> QED
    BY <2>1, <2>2, <2>3, BytesMove
<1>4. BytesAccounted' <=> /\ metrics'.bytes_to_upstream = Sum(took', Conns)
                         /\ metrics'.bytes_to_client = Sum(wrote', Conns)
  BY DEF BytesAccounted, Sum, MapThenSumSet, MapThenFoldSet
<1> QED
  BY <1>3, <1>4

\* The process totals of bytes are the sum of what its connections have moved,
\* closed ones included, whatever the order of the polls (Metered::poll_read
\* and poll_write in metered.rs, Metrics in metrics.rs).
THEOREM BytesCounted == Spec => []BytesAccounted
  BY InitBytes, NextBytes, TypeCorrect, PTL DEF Spec

-----------------------------------------------------------------------------
(* What only grows, for those who look at the counters now and then.       *)

Fields == {"connects_total", "connects_ok", "connects_failed",
           "bytes_to_upstream", "bytes_to_client"}

LEMMA CountersGrow ==
  ASSUME TypeOK, [Next]_vars
  PROVE  \A f \in Fields : metrics[f] <= metrics'[f]
<1> USE DEF Fields
<1>1. UNCHANGED metrics \/ \E f \in Fields : Bump(f)
  BY DEF Next, Client, ClientSends, ClientFin, ClientResets, Accept,
      AcceptFails, BackoffEnds, Handshake, Greeting, Auth, Request, ReadFails,
      TargetFails, HandshakeOnly, Dial, TorAnswers, TorOpens, TorRefuses, Answer,
      Confirm, ConfirmFails, FailClosed, Forward, TakeFromClient, GiveToTor,
      ShutTor, Backward, TakeFromTor, WriteToClient, ShutClient, Finish,
      SpliceEnds, SpliceFails, Destination, DestinationSends, DestinationEnds,
      CircuitFails, TorEnvironment, sharedVars, vars
<1>2. \A f \in Fields : metrics[f] \in Nat
  BY DEF TypeOK, SharedTypeOK, Counters
<1>3. CASE UNCHANGED metrics
  BY <1>2, <1>3
<1>4. ASSUME NEW f \in Fields, Bump(f)
      PROVE  \A g \in Fields : metrics[g] <= metrics'[g]
  <2>1. \A g \in Fields : metrics'[g] = IF g = f THEN metrics[g] + 1 ELSE metrics[g]
    BY <1>4 DEF Bump, TypeOK, SharedTypeOK, Counters
  <2> QED
    BY <1>2, <2>1
<1> QED
  BY <1>1, <1>3, <1>4

\* A closed connection's stream and transcript are final.
LEMMA ClosedIsFinal ==
  ASSUME ContractInv, [Next]_vars, NEW d \in Conns, pc[d] = "closed"
  PROVE  up'[d] = up[d] /\ out'[d] = out[d]
<1> USE DEF ContractInv
<1>1. up[d] \in {"none", "dropped"}
  BY DEF StreamHeldFromAnswerToReturn
<1>2. ASSUME NEW c \in Conns, Client(c) \/ Accept(c) \/ Forward(c) \/ Backward(c)
      PROVE  UNCHANGED <<up, out>>
  BY <1>2
  DEF Client, ClientSends, ClientFin, ClientResets, Accept, Forward,
      TakeFromClient, GiveToTor, ShutTor, Backward, TakeFromTor, WriteToClient,
      ShutClient, SpliceOnly, taskVars, torVars
<1>3. ASSUME NEW c \in Conns,
             Greeting(c) \/ Auth(c) \/ Request(c) \/ ReadFails(c) \/ TargetFails(c)
      PROVE  up'[d] = up[d] /\ out'[d] = out[d]
  <2>1. c # d /\ UNCHANGED up
    BY <1>3, HandshakeMoves DEF HandshakeOnly, torVars
  <2>2. UNCHANGED out \/ \E rep \in Replies : out' = [out EXCEPT ![c] = Append(@, rep)]
    BY <1>3, HandshakeSays
  <2> QED
    BY <2>1, <2>2 DEF TypeOK, TaskTypeOK
<1>4. ASSUME NEW c \in Conns, Dial(c) \/ TorAnswers(c) \/ Answer(c) \/ Finish(c)
      PROVE  up'[d] = up[d] /\ out'[d] = out[d]
  <2>1. /\ pc[c] # "closed"
        /\ UNCHANGED out \/ \E rep \in Replies : out' = [out EXCEPT ![c] = Append(@, rep)]
        /\ UNCHANGED up \/ \E u \in {"none", "open", "dropped"} : up' = [up EXCEPT ![c] = u]
    BY <1>4
    DEF Dial, TorAnswers, TorOpens, TorRefuses, Answer, Confirm, ConfirmFails,
        FailClosed, Finish, SpliceEnds, SpliceFails, Return, torVars, Replies
  <2> QED
    BY <2>1 DEF TypeOK, TaskTypeOK, TorTypeOK
<1>5. ASSUME NEW c \in Conns, Destination(c)
      PROVE  up'[d] = up[d] /\ out'[d] = out[d]
  <2>1. /\ UNCHANGED out /\ up[c] \in {"open", "eof"}
        /\ UNCHANGED up \/ \E u \in {"eof", "err"} : up' = [up EXCEPT ![c] = u]
    BY <1>5
    DEF Destination, DestinationSends, DestinationEnds, CircuitFails,
        TorEnvironment, taskVars
  <2> QED
    BY <1>1, <2>1 DEF TypeOK, TorTypeOK
<1>6. CASE AcceptFails \/ BackoffEnds \/ UNCHANGED vars
  BY <1>6 DEF AcceptFails, BackoffEnds, vars, taskVars, torVars
<1> QED
  BY <1>2, <1>3, <1>4, <1>5, <1>6 DEF Next, Handshake

LEMMA UnconfirmedGrows ==
  ASSUME ContractInv, [Next]_vars
  PROVE  Unconfirmed \subseteq Unconfirmed'
<1>1. ASSUME NEW c \in Unconfirmed PROVE pc[c] = "closed"
  BY DEF ContractInv, StreamHeldFromAnswerToReturn, Unconfirmed, BeforeDial,
      TypeOK, TaskTypeOK, Phases, Registered
<1>2. ASSUME NEW c \in Unconfirmed PROVE up'[c] = up[c] /\ out'[c] = out[c]
  BY <1>1, ClosedIsFinal DEF Unconfirmed
<1> QED
  BY <1>2 DEF Unconfirmed

LEMMA LiveGrows ==
  ASSUME TypeOK, TypeOK', [Next]_vars
  PROVE  /\ Dialled \subseteq Dialled'
         /\ Live' \ Live \subseteq Dialled'
<1>1. ASSUME NEW c \in Conns, Dial(c)
      PROVE  Dialled' = Dialled \cup {c} /\ Live' = Live \cup {c}
  <2>1. /\ pc' = [pc EXCEPT ![c] = "connecting"]
        /\ token' = [token EXCEPT ![c] = Tor!isolation_token(user[c])]
    BY <1>1 DEF Dial, Goto
  <2>2. user[c] \in Users \cup {NoUser} /\ Tor!TypeOK
    BY DEF TypeOK, TaskTypeOK, SharedTypeOK
  <2>3. Tor!isolation_token(user[c]) \in Nat
    BY <1>1, <2>2, ResolveTokenType DEF Dial
  <2>4. token'[c] # NoToken /\ \A d \in Conns \ {c} : token'[d] = token[d]
    BY <2>1, <2>3 DEF TypeOK, TaskTypeOK, NoToken
  <2>5. \A d \in Conns : pc'[d] = IF d = c THEN "connecting" ELSE pc[d]
    BY <2>1, PcMoves
  <2> QED
    BY <2>4, <2>5 DEF Dialled, Live, Registered
<1>2. ASSUME UNCHANGED token,
             UNCHANGED pc \/ \E c \in Conns, p \in Phases :
               /\ pc' = [pc EXCEPT ![c] = p]
               /\ p \in Registered => pc[c] \in Registered
      PROVE  Dialled' = Dialled /\ Live' \subseteq Live
  <2>1. CASE UNCHANGED pc
    BY <1>2, <2>1 DEF Dialled, Live
  <2>2. ASSUME NEW c \in Conns, NEW p \in Phases, pc' = [pc EXCEPT ![c] = p],
               p \in Registered => pc[c] \in Registered
        PROVE  Dialled' = Dialled /\ Live' \subseteq Live
    <3>1. \A d \in Conns : pc'[d] = IF d = c THEN p ELSE pc[d]
      BY <2>2, PcMoves
    <3> QED
      BY <1>2, <2>2, <3>1 DEF Dialled, Live
  <2> QED
    BY <1>2, <2>1, <2>2
<1>3. ASSUME NEW c \in Conns,
             \/ Client(c) \/ Accept(c) \/ Forward(c) \/ Backward(c)
             \/ Destination(c) \/ TorAnswers(c) \/ Answer(c) \/ Finish(c)
      PROVE  Dialled' = Dialled /\ Live' \subseteq Live
  <2>1. UNCHANGED token
    BY <1>3
    DEF Client, ClientSends, ClientFin, ClientResets, Accept, Forward,
        TakeFromClient, GiveToTor, ShutTor, Backward, TakeFromTor,
        WriteToClient, ShutClient, SpliceOnly, Destination, DestinationSends,
        DestinationEnds, CircuitFails, TorEnvironment, TorAnswers, TorOpens,
        TorRefuses, Answer, Confirm, ConfirmFails, FailClosed, Finish,
        SpliceEnds, SpliceFails, Return, taskVars
  <2>2. \/ UNCHANGED pc
        \/ pc' = [pc EXCEPT ![c] = "greeting"] \/ pc' = [pc EXCEPT ![c] = "closed"]
        \/ /\ pc[c] \in {"connecting", "reply_ok"}
           /\ \E p \in {"reply_ok", "reply_fail", "splice"} : pc' = [pc EXCEPT ![c] = p]
    BY <1>3
    DEF Client, ClientSends, ClientFin, ClientResets, Accept, Forward,
        TakeFromClient, GiveToTor, ShutTor, Backward, TakeFromTor,
        WriteToClient, ShutClient, SpliceOnly, Destination, DestinationSends,
        DestinationEnds, CircuitFails, TorEnvironment, TorAnswers, TorOpens,
        TorRefuses, Answer, Confirm, ConfirmFails, FailClosed, Finish,
        SpliceEnds, SpliceFails, Return, Goto, taskVars
  <2> QED
    BY <1>2, <2>1, <2>2 DEF Phases, Registered
<1>4. ASSUME NEW c \in Conns,
             Greeting(c) \/ Auth(c) \/ Request(c) \/ ReadFails(c) \/ TargetFails(c)
      PROVE  Dialled' = Dialled /\ Live' \subseteq Live
  <2>1. /\ UNCHANGED token
        /\ \E p \in {"auth", "request", "target", "closed"} :
              pc' = [pc EXCEPT ![c] = p]
    BY <1>4, HandshakeMoves DEF HandshakeOnly
  <2> QED
    BY <1>2, <2>1 DEF Phases, Registered
<1>5. CASE AcceptFails \/ BackoffEnds \/ UNCHANGED vars
  <2>1. /\ UNCHANGED token
        /\ UNCHANGED pc \/ \E c \in Conns : pc' = [pc EXCEPT ![c] = "closed"]
    BY <1>5 DEF AcceptFails, BackoffEnds, vars, taskVars
  <2> QED
    BY <1>2, <2>1 DEF Phases, Registered
<1> QED
  BY <1>1, <1>3, <1>4, <1>5 DEF Next, Handshake

\* A handler is live only once its CONNECT is counted.
LEMMA LiveIsDialled == Spec => [](Live \subseteq Dialled)
<1>1. Init => Live \subseteq Dialled
  BY DEF Init, Live, Registered
<1>2. TypeOK /\ TypeOK' /\ Live \subseteq Dialled /\ [Next]_vars
        => (Live \subseteq Dialled)'
  BY LiveGrows
<1> QED
  BY <1>1, <1>2, TypeCorrect, PTL DEF Spec

-----------------------------------------------------------------------------
(* No payload is lost in the splice. *)

DataIn(c, n) == {i \in 1 .. n : script[c][i].kind = "data"}

PastTarget(c) == \E i \in 1 .. taken[c] : script[c][i].kind = "target"

\* The strengthening, by where the connection stands.

\* The handshake takes no payload, and copies none.
NothingSpliced(c) ==
  pc[c] \notin {"splice", "closed"} =>
    /\ DataIn(c, taken[c]) = {}
    /\ took[c] = 0 /\ fwd[c] = "run" /\ back[c] = "run"
    /\ pc[c] \in Registered => PastTarget(c)

\* The splice takes what follows, all of it payload.
TakesPayload(c) ==
  pc[c] = "splice" =>
    PastTarget(c) /\ took[c] = Cardinality(DataIn(c, taken[c]))

\* A direction that is done had come to its end, and no more can follow.
ForwardEnded(c) ==
  fwd[c] = "done" =>
    /\ net[c] # "open" /\ taken[c] = sent[c]
    /\ gave[c] = Cardinality(DataIn(c, taken[c])) /\ took[c] = gave[c]

BackEnded(c) ==
  back[c] = "done" =>
    up[c] \in {"eof", "err", "dropped"} /\ wrote[c] = upSent[c] /\ got[c] = wrote[c]

Whole(c) ==
  NothingSpliced(c) /\ TakesPayload(c) /\ ForwardEnded(c) /\ BackEnded(c)

SpliceInv == ContractInv /\ \A c \in Conns : Whole(c)

LEMMA InvNoLoss == SpliceInv => NoPayloadLost
  BY DEF SpliceInv, Whole, ForwardEnded, BackEnded, NoPayloadLost, DataSent, DataIn

LEMMA NoDataCounts ==
  ASSUME NEW c \in Conns, NEW n, DataIn(c, n) = {}
  PROVE  Cardinality(DataIn(c, n)) = 0
  BY FS_EmptySet

\* One more item of payload is one more to count.
LEMMA OneMoreCounts ==
  ASSUME NEW c \in Conns, NEW n \in Nat, script[c][n + 1].kind = "data"
  PROVE  /\ Cardinality(DataIn(c, n)) \in Nat
         /\ Cardinality(DataIn(c, n + 1)) = Cardinality(DataIn(c, n)) + 1
<1>1. IsFiniteSet(1 .. n) /\ DataIn(c, n) \in SUBSET (1 .. n)
  BY FS_Interval DEF DataIn
<1>2. IsFiniteSet(DataIn(c, n))
  BY <1>1, FS_Subset
<1>3. DataIn(c, n + 1) = DataIn(c, n) \cup {n + 1} /\ n + 1 \notin DataIn(c, n)
  BY DEF DataIn
<1> QED
  BY <1>2, <1>3, FS_AddElement, FS_CardinalityType

-----------------------------------------------------------------------------
(* A step is about one connection. *)

Apart(c) ==
  /\ script'[c] = script[c] /\ sent'[c] = sent[c] /\ net'[c] = net[c]
  /\ pc'[c] = pc[c] /\ taken'[c] = taken[c]
  /\ fwd'[c] = fwd[c] /\ back'[c] = back[c]
  /\ took'[c] = took[c] /\ gave'[c] = gave[c]
  /\ got'[c] = got[c] /\ wrote'[c] = wrote[c]
  /\ up'[c] = up[c] /\ upSent'[c] = upSent[c]

LEMMA ApartKeeps ==
  ASSUME NEW c \in Conns, Apart(c), Whole(c)
  PROVE  Whole(c)'
<1>1. DataIn(c, taken[c])' = DataIn(c, taken[c])
  BY DEF Apart, DataIn
<1> QED
  BY <1>1
  DEF Apart, Whole, NothingSpliced, TakesPayload, ForwardEnded, BackEnded,
      PastTarget

LEMMA HandshakeApart ==
  ASSUME TypeOK, NEW c \in Conns, NEW d \in Conns \ {c}, Handshake(c)
  PROVE  Apart(d)
<1>1. ASSUME Greeting(c) \/ Auth(c) \/ Request(c) \/ ReadFails(c) \/ TargetFails(c)
      PROVE  Apart(d)
  <2>1. /\ \E p : pc' = [pc EXCEPT ![c] = p]
        /\ UNCHANGED taken \/ Take(c)
        /\ UNCHANGED <<clientVars, spliceVars, torVars>>
    BY <1>1
    DEF Greeting, Auth, Request, ReadFails, TargetFails, Say, Bail, Goto,
        HandshakeOnly
  <2> QED
    BY <2>1
    DEF Apart, Take, clientVars, spliceVars, torVars, TypeOK, TaskTypeOK, Chunks
<1>2. CASE Dial(c)
  BY <1>2
  DEF Dial, Goto, Take, Apart, clientVars, spliceVars, torVars, TypeOK,
      TaskTypeOK, Chunks
<1> QED
  BY <1>1, <1>2 DEF Handshake

LEMMA AnswerApart ==
  ASSUME TypeOK, NEW c \in Conns, NEW d \in Conns \ {c},
         Accept(c) \/ TorAnswers(c) \/ Answer(c) \/ Finish(c)
  PROVE  Apart(d)
<1>1. /\ \E p : pc' = [pc EXCEPT ![c] = p]
      /\ UNCHANGED up \/ \E u : up' = [up EXCEPT ![c] = u]
      /\ UNCHANGED <<clientVars, taken, spliceVars, upSent>>
  BY
  DEF Accept, TorAnswers, TorOpens, TorRefuses, Answer, Confirm, ConfirmFails,
      FailClosed, Finish, SpliceEnds, SpliceFails, Return, Goto, torVars
<1> QED
  BY <1>1
  DEF Apart, clientVars, spliceVars, TypeOK, TaskTypeOK, TorTypeOK

LEMMA CopyApart ==
  ASSUME TypeOK, NEW c \in Conns, NEW d \in Conns \ {c},
         Forward(c) \/ Backward(c)
  PROVE  Apart(d)
  BY
  DEF Forward, TakeFromClient, GiveToTor, ShutTor, Backward, TakeFromTor,
      WriteToClient, ShutClient, SpliceOnly, Take, Apart, clientVars, torVars,
      TypeOK, TaskTypeOK, SpliceTypeOK, TorTypeOK, Chunks

LEMMA EndsApart ==
  ASSUME TypeOK, NEW c \in Conns, NEW d \in Conns \ {c},
         Client(c) \/ Destination(c)
  PROVE  Apart(d)
  BY
  DEF Client, ClientSends, ClientFin, ClientResets, Destination,
      DestinationSends, DestinationEnds, CircuitFails, TorEnvironment, Apart,
      clientVars, taskVars, spliceVars, torVars, TypeOK, ClientTypeOK, TorTypeOK,
      Chunks

-----------------------------------------------------------------------------
(* What each step does for its own connection.                             *)

LEMMA ClientWhole ==
  ASSUME SpliceInv, NEW c \in Conns, Client(c)
  PROVE  Whole(c)'
<1>1. /\ UNCHANGED <<script, taskVars, spliceVars, torVars>>
      /\ net[c] # "open" => sent'[c] = sent[c] /\ net'[c] # "open"
  BY
  DEF Client, ClientSends, ClientFin, ClientResets, SpliceInv, ContractInv,
      TypeOK, ClientTypeOK
<1>2. DataIn(c, taken[c])' = DataIn(c, taken[c]) /\ (PastTarget(c)' <=> PastTarget(c))
  BY <1>1 DEF DataIn, PastTarget, taskVars
<1> QED
  BY <1>1, <1>2
  DEF SpliceInv, Whole, NothingSpliced, TakesPayload, ForwardEnded, BackEnded,
      taskVars, spliceVars, torVars

LEMMA DestinationWhole ==
  ASSUME SpliceInv, NEW c \in Conns, Destination(c)
  PROVE  Whole(c)'
<1>1. /\ UNCHANGED <<clientVars, taskVars, spliceVars>>
      /\ up[c] \in {"open", "eof"}
      /\ up[c] = "eof" => up'[c] = "err" /\ upSent'[c] = upSent[c]
  BY
  DEF Destination, DestinationSends, DestinationEnds, CircuitFails,
      TorEnvironment, SpliceInv, ContractInv, TypeOK, TorTypeOK
<1>2. DataIn(c, taken[c])' = DataIn(c, taken[c]) /\ (PastTarget(c)' <=> PastTarget(c))
  BY <1>1 DEF DataIn, PastTarget, taskVars, clientVars
<1> QED
  BY <1>1, <1>2
  DEF SpliceInv, Whole, NothingSpliced, TakesPayload, ForwardEnded, BackEnded,
      taskVars, spliceVars, clientVars

\* Reading an item of the handshake takes no payload, or ends the handler.
LEMMA HandshakeWhole ==
  ASSUME SpliceInv, NEW c \in Conns, Handshake(c)
  PROVE  Whole(c)'
<1> USE DEF SpliceInv, ContractInv
<1>1. /\ pc[c] \in {"greeting", "auth", "request", "target"}
      /\ UNCHANGED <<clientVars, spliceVars, torVars>>
      /\ \/ pc'[c] = "closed"
         \/ /\ pc'[c] \in {"auth", "request", "target", "connecting"}
            /\ taken'[c] = taken[c] + 1
            /\ Item(c).kind # "data"
            /\ pc'[c] = "connecting" => Item(c).kind = "target"
  <2>1. ASSUME Greeting(c) \/ Auth(c) \/ Request(c) \/ ReadFails(c) \/ TargetFails(c)
        PROVE  \/ pc'[c] = "closed"
               \/ /\ pc'[c] \in {"auth", "request", "target"}
                  /\ taken'[c] = taken[c] + 1
                  /\ Item(c).kind # "data"
    BY <2>1
    DEF Greeting, Auth, Request, ReadFails, TargetFails, Say, Bail, Goto, Take,
        Offers, TypeOK, TaskTypeOK, Chunks
  <2>2. ASSUME Greeting(c) \/ Auth(c) \/ Request(c) \/ ReadFails(c) \/ TargetFails(c)
        PROVE  /\ pc[c] \in {"greeting", "auth", "request", "target"}
               /\ UNCHANGED <<clientVars, spliceVars, torVars>>
    BY <2>2, HandshakeMoves DEF HandshakeOnly
  <2>3. CASE Dial(c)
    BY <2>3 DEF Dial, Goto, Take, TypeOK, TaskTypeOK, Chunks
  <2> QED
    BY <2>1, <2>2, <2>3 DEF Handshake
<1>2. fwd[c] = "run" /\ back[c] = "run" /\ took[c] = 0 /\ DataIn(c, taken[c]) = {}
  BY <1>1 DEF Whole, NothingSpliced
<1>3. fwd'[c] = "run" /\ back'[c] = "run" /\ took'[c] = 0
  BY <1>1, <1>2 DEF spliceVars
<1>4. CASE pc'[c] = "closed"
  BY <1>3, <1>4
  DEF Whole, NothingSpliced, TakesPayload, ForwardEnded, BackEnded
<1>5. CASE pc'[c] # "closed"
  <2>1. script'[c] = script[c] /\ taken[c] \in Nat
    BY <1>1 DEF clientVars, TypeOK, TaskTypeOK, Chunks
  <2>2. script[c][taken[c] + 1].kind # "data"
    BY <1>1, <1>5 DEF Item
  <2>3. DataIn(c, taken[c])' = {}
    BY <1>1, <1>2, <1>5, <2>1, <2>2 DEF DataIn
  <2>4. pc'[c] \in Registered => PastTarget(c)'
    BY <1>1, <1>5, <2>1 DEF PastTarget, Item, Registered
  <2> QED
    BY <1>1, <1>3, <1>5, <2>3, <2>4
    DEF Whole, NothingSpliced, TakesPayload, ForwardEnded, BackEnded
<1> QED
  BY <1>4, <1>5

\* From one await to the next, or to the end: nothing is read or copied.
LEMMA AnswerWhole ==
  ASSUME SpliceInv, NEW c \in Conns,
         Accept(c) \/ TorAnswers(c) \/ Answer(c) \/ Finish(c)
  PROVE  Whole(c)'
<1> USE DEF SpliceInv, ContractInv
<1>1. UNCHANGED <<clientVars, taken, spliceVars, upSent>>
  BY
  DEF Accept, TorAnswers, TorOpens, TorRefuses, Answer, Confirm, ConfirmFails,
      FailClosed, Finish, SpliceEnds, SpliceFails, Return, torVars
<1>2. /\ DataIn(c, taken[c])' = DataIn(c, taken[c])
      /\ PastTarget(c)' <=> PastTarget(c)
  BY <1>1 DEF DataIn, PastTarget, clientVars
<1>3. ForwardEnded(c)'
  BY <1>1, <1>2 DEF Whole, ForwardEnded, clientVars, spliceVars
<1>4. up'[c] = up[c] \/ up'[c] = "dropped" \/ (up'[c] = "open" /\ pc[c] = "connecting")
  BY
  DEF Accept, TorAnswers, TorOpens, TorRefuses, Answer, Confirm, ConfirmFails,
      FailClosed, Finish, SpliceEnds, SpliceFails, Return, torVars, TypeOK,
      TorTypeOK
<1>5. BackEnded(c)'
  <2>1. pc[c] = "connecting" => back[c] = "run"
    BY DEF Whole, NothingSpliced
  <2> QED
    BY <1>1, <1>4, <2>1 DEF Whole, BackEnded, spliceVars
<1>6. \/ pc'[c] = "closed"
      \/ pc[c] = "new" /\ pc'[c] = "greeting"
      \/ /\ pc[c] \in {"connecting", "reply_ok"}
         /\ pc'[c] \in {"reply_ok", "reply_fail", "splice"}
  BY
  DEF Accept, TorAnswers, TorOpens, TorRefuses, Answer, Confirm, ConfirmFails,
      FailClosed, Finish, SpliceEnds, SpliceFails, Return, Goto, TypeOK,
      TaskTypeOK
<1>7. NothingSpliced(c)'
  BY <1>1, <1>2, <1>6 DEF Whole, NothingSpliced, Registered, spliceVars
<1>8. TakesPayload(c)'
  <2>1. CASE pc'[c] = "splice"
    <3>1. /\ DataIn(c, taken[c]) = {} /\ took[c] = 0 /\ PastTarget(c)
      BY <1>6, <2>1 DEF Whole, NothingSpliced, Registered
    <3> QED
      BY <1>1, <1>2, <3>1, NoDataCounts DEF TakesPayload, spliceVars
  <2> QED
    BY <2>1 DEF TakesPayload
<1> QED
  BY <1>3, <1>5, <1>7, <1>8 DEF Whole

\* What the splice takes is what the script has after its target.
LEMMA TakeWhole ==
  ASSUME DataFollowsTarget, SpliceInv, NEW c \in Conns, TakeFromClient(c)
  PROVE  Whole(c)'
<1> USE DEF SpliceInv, ContractInv, TakeFromClient, SpliceOnly
<1> DEFINE n == taken[c]
<1>1. /\ n \in Nat /\ n < sent[c] /\ sent[c] <= Len(script[c]) /\ sent[c] \in Nat
      /\ script[c] \in Scripts
      /\ taken'[c] = n + 1 /\ took'[c] = took[c] + 1
      /\ pc'[c] = "splice" /\ fwd'[c] = "run"
      /\ script' = script /\ UNCHANGED <<back, wrote, got, torVars>>
  BY DEF Arrived, Take, clientVars, TypeOK, ClientTypeOK, TaskTypeOK,
     SpliceTypeOK, Chunks
<1>2. PastTarget(c) /\ took[c] = Cardinality(DataIn(c, n))
  BY DEF Whole, TakesPayload
<1>3. script[c][n + 1].kind = "data"
  <2>1. PICK i \in 1 .. n : script[c][i].kind = "target"
    BY <1>2 DEF PastTarget
  <2>2. script[c] \in Seq(Items)
    BY <1>1, ServerAssumption
  <2>3. i \in 1 .. Len(script[c]) /\ n + 1 \in 1 .. Len(script[c]) /\ i < n + 1
    BY <1>1, <2>2
  <2> QED
    BY <1>1, <2>1, <2>3 DEF DataFollowsTarget
<1>4. took'[c] = Cardinality(DataIn(c, n + 1))
  BY <1>1, <1>2, <1>3, OneMoreCounts
<1>5. DataIn(c, taken[c])' = DataIn(c, n + 1)
  BY <1>1 DEF DataIn
<1>6. PastTarget(c)'
  BY <1>1, <1>2 DEF PastTarget
<1>7. BackEnded(c)'
  BY <1>1 DEF Whole, BackEnded, torVars
<1> QED
  BY <1>1, <1>4, <1>5, <1>6, <1>7
  DEF Whole, NothingSpliced, TakesPayload, ForwardEnded

\* The other steps of the splice: a direction is done when there is nothing
\* left to read and nothing left in its buffer.
LEMMA CopyWhole ==
  ASSUME SpliceInv, NEW c \in Conns,
         \/ GiveToTor(c) \/ ShutTor(c)
         \/ TakeFromTor(c) \/ WriteToClient(c) \/ ShutClient(c)
  PROVE  Whole(c)'
<1> USE DEF SpliceInv, ContractInv, SpliceOnly
<1>1. /\ pc[c] = "splice" /\ pc'[c] = "splice"
      /\ UNCHANGED <<clientVars, taken, took, torVars>>
  BY DEF GiveToTor, ShutTor, TakeFromTor, WriteToClient, ShutClient
<1>2. /\ DataIn(c, taken[c])' = DataIn(c, taken[c])
      /\ PastTarget(c)' <=> PastTarget(c)
  BY <1>1 DEF DataIn, PastTarget, clientVars
<1>3. NothingSpliced(c)' /\ TakesPayload(c)'
  BY <1>1, <1>2 DEF Whole, NothingSpliced, TakesPayload
<1>4. took[c] = Cardinality(DataIn(c, taken[c]))
  BY <1>1 DEF Whole, TakesPayload
<1>5. /\ gave[c] \in Nat /\ took[c] \in Nat /\ gave[c] <= took[c]
      /\ wrote[c] \in Nat /\ got[c] \in Nat /\ wrote[c] <= got[c]
      /\ upSent[c] \in Nat /\ got[c] <= upSent[c]
  BY ServerAssumption DEF TypeOK, SpliceTypeOK, TorTypeOK, Chunks
<1>6. ForwardEnded(c)'
  <2>1. CASE ShutTor(c)
    <3>1. net[c] # "open" /\ taken[c] = sent[c] /\ took[c] = gave[c] /\ gave' = gave
      BY <2>1 DEF ShutTor, AtEof
    <3> QED
      BY <1>1, <1>2, <1>4, <3>1 DEF ForwardEnded, clientVars
  <2>2. CASE GiveToTor(c)
    <3>1. fwd[c] # "done" /\ fwd' = fwd
      BY <1>5, <2>2 DEF GiveToTor, Whole, ForwardEnded
    <3> QED
      BY <3>1 DEF ForwardEnded
  <2>3. CASE TakeFromTor(c) \/ WriteToClient(c) \/ ShutClient(c)
    <3>1. UNCHANGED <<fwd, gave>>
      BY <2>3 DEF TakeFromTor, WriteToClient, ShutClient
    <3> QED
      BY <1>1, <1>2, <3>1 DEF Whole, ForwardEnded, clientVars
  <2> QED
    BY <2>1, <2>2, <2>3
<1>7. BackEnded(c)'
  <2>1. CASE ShutClient(c)
    BY <1>1, <2>1 DEF ShutClient, BackEnded, torVars
  <2>2. CASE TakeFromTor(c) \/ WriteToClient(c)
    <3>1. back[c] # "done" /\ back' = back
      BY <1>5, <2>2 DEF TakeFromTor, WriteToClient, Whole, BackEnded
    <3> QED
      BY <3>1 DEF BackEnded
  <2>3. CASE GiveToTor(c) \/ ShutTor(c)
    <3>1. UNCHANGED <<back, got, wrote>>
      BY <2>3 DEF GiveToTor, ShutTor
    <3> QED
      BY <1>1, <3>1 DEF Whole, BackEnded, torVars
  <2> QED
    BY <2>1, <2>2, <2>3
<1> QED
  BY <1>3, <1>6, <1>7 DEF Whole

-----------------------------------------------------------------------------

LEMMA InitSplice == Init => SpliceInv
<1> SUFFICES ASSUME Init PROVE SpliceInv
  OBVIOUS
<1>1. ASSUME NEW c \in Conns PROVE Whole(c)
  <2>1. /\ pc[c] = "new" /\ taken[c] = 0 /\ took[c] = 0
        /\ fwd[c] = "run" /\ back[c] = "run"
    BY DEF Init
  <2>2. DataIn(c, taken[c]) = {}
    BY <2>1 DEF DataIn
  <2> QED
    BY <2>1, <2>2
    DEF Whole, NothingSpliced, TakesPayload, ForwardEnded, BackEnded, Registered
<1> QED
  BY <1>1, InitContractInv DEF SpliceInv

LEMMA NextSplice ==
  ASSUME DataFollowsTarget
  PROVE  SpliceInv /\ [Next]_vars => SpliceInv'
<1> SUFFICES ASSUME SpliceInv, [Next]_vars, NEW d \in Conns
             PROVE  Whole(d)'
  BY NextContractInv DEF SpliceInv
<1> USE DEF SpliceInv, ContractInv
<1>1. ASSUME NEW c \in Conns,
             \/ Client(c) \/ Accept(c) \/ Handshake(c) \/ TorAnswers(c)
             \/ Answer(c) \/ Forward(c) \/ Backward(c) \/ Finish(c)
             \/ Destination(c)
      PROVE  Whole(d)'
  <2>1. CASE d = c
    BY <1>1, <2>1, ClientWhole, DestinationWhole, HandshakeWhole, AnswerWhole,
       TakeWhole, CopyWhole DEF Forward, Backward
  <2>2. CASE d # c
    <3>1. Apart(d)
      BY <1>1, <2>2, HandshakeApart, AnswerApart, CopyApart, EndsApart
    <3> QED
      BY <3>1, ApartKeeps
  <2> QED
    BY <2>1, <2>2
<1>2. CASE AcceptFails
  <2>1. /\ UNCHANGED <<clientVars, taken, spliceVars, torVars>>
        /\ pc'[d] = pc[d] \/ pc'[d] = "closed"
    BY <1>2 DEF AcceptFails, TypeOK, TaskTypeOK
  <2>2. DataIn(d, taken[d])' = DataIn(d, taken[d]) /\ (PastTarget(d)' <=> PastTarget(d))
    BY <2>1 DEF DataIn, PastTarget, clientVars
  <2> QED
    BY <2>1, <2>2
    DEF Whole, NothingSpliced, TakesPayload, ForwardEnded, BackEnded,
        clientVars, spliceVars, torVars
<1>3. CASE BackoffEnds \/ UNCHANGED vars
  <2>1. Apart(d)
    BY <1>3 DEF BackoffEnds, Apart, vars, clientVars, taskVars, spliceVars, torVars
  <2> QED
    BY <2>1, ApartKeeps
<1> QED
  BY <1>1, <1>2, <1>3 DEF Next

\* A stream that ends cleanly lost nothing in either direction: what a client
\* sent behind its target before it was told of success is still there for the
\* splice (server.rs, handle: the handshake reads with read_exact and keeps no
\* buffer), and each direction is drained before it is shut
\* (copy_bidirectional over metered.rs).
THEOREM NoPayloadIsLost ==
  ASSUME DataFollowsTarget
  PROVE  Spec => []NoPayloadLost
<1>1. SpliceInv /\ [Next]_vars => SpliceInv'
  BY NextSplice
<1> QED
  BY <1>1, InitSplice, InvNoLoss, PTL DEF Spec
=============================================================================
