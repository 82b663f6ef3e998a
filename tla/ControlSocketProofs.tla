------------------------- MODULE ControlSocketProofs -------------------------
(***************************************************************************)
(* Theorems about ControlSocket: a query only reads, and what it is told   *)
(* is of one moment after it asked.                                        *)
(***************************************************************************)
EXTENDS ControlSocket, SocksServerCountProofs

-----------------------------------------------------------------------------
(* The proxy does not notice the queries. *)

LEMMA QueryLeavesProxy ==
  ASSUME [ControlNext]_allVars
  PROVE  [Next]_vars
<1>1. ASSUME NEW q \in Queries, Query(q) \/ AcceptQuery(q) \/ Serve(q)
      PROVE  UNCHANGED vars
  BY <1>1
  DEF Query, QueryTypes, QueryEnds, QueryEnd, AcceptQuery, Serve,
      ReadLineFails, Dispatch, WriteReply, WriteReplyFails, ControlOnly
<1>2. CASE PollStatus \/ LogSighup
  BY <1>2 DEF PollStatus, LogSighup
<1> QED
  BY <1>1, <1>2 DEF ControlNext, Proxy, allVars

\* The control socket's view is read-only: with any queries at any time the
\* proxy is the proxy of SocksServer, and all that is proved of that holds
\* (ControlState, "Read-only state the control socket reports on").
THEOREM QueriesOnlyRead == ControlSpec => Spec
  BY QueryLeavesProxy, PTL DEF ControlSpec, ControlInit, Spec

\* What is known of the proxy, whatever is asked of it.
ServerInv == CountInv /\ RegistryInv /\ Live \subseteq Dialled

LEMMA ServerKnown == ControlSpec => []ServerInv
<1>1. Spec => []CountInv
  BY InitCount, NextCount, PTL DEF Spec
<1>2. Spec => []RegistryInv
  BY InitRegistryInv, NextRegistryInv, PTL DEF Spec
<1> QED
  BY <1>1, <1>2, LiveIsDialled, QueriesOnlyRead, PTL DEF ServerInv

-----------------------------------------------------------------------------
(* `stats`, at the moment of its dispatch. *)

LEMMA RowsAreLive ==
  ASSUME ServerInv
  PROVE  /\ IsFiniteSet(Live) /\ Cardinality(Live) \in Nat
         /\ Cardinality(DOMAIN rows) = Cardinality(Live)
<1>1. Live \in SUBSET Conns
  BY DEF Live
<1>2. IsFiniteSet(Live) /\ Cardinality(Live) \in Nat
  BY <1>1, FS_Subset, FS_CardinalityType, ServerAssumption
<1> DEFINE f == [c \in Live |-> handle[c]]
<1>3. DOMAIN rows = {handle[c] : c \in Live} /\ RegistryIsLiveView
  BY DEF ServerInv, RegistryInv, RegistryIsLiveView
<1>4. f \in Surjection(Live, DOMAIN rows)
  BY <1>3 DEF Surjection
<1>5. f \in Injection(Live, DOMAIN rows)
  BY <1>3, HandlesDiffer DEF Injection, IsInjective
<1> QED
  BY <1>2, <1>4, <1>5, FS_Surjection

\* The figures of one `stats` reply fit together.
AddsUp(r) ==
  LET ended == r.metrics.connects_ok + r.metrics.connects_failed
  IN  /\ ended <= r.metrics.connects_total
      /\ r.streams_active <= r.metrics.connects_total
      /\ r.metrics.connects_total - ended
           <= r.streams_active + Cardinality(Unconfirmed)

LEMMA StatsReplyAddsUp ==
  ASSUME ServerInv, NEW q \in Queries
  PROVE  /\ AddsUp(StatsReply(q))
         /\ StatsReply(q).metrics \in Counters /\ StatsReply(q).streams_active \in Nat
<1>1. /\ ConnectsAccounted
      /\ metrics \in Counters
  BY DEF ServerInv, CountInv, ContractInv, TypeOK, SharedTypeOK
<1>2. Cardinality(DOMAIN rows) = Cardinality(Live) /\ Cardinality(Live) \in Nat
  BY RowsAreLive
<1>3. Cardinality(Live) <= Cardinality(Dialled)
  BY Finite, FS_Subset DEF ServerInv
<1>4. Cardinality(InFlight) <= Cardinality(Live)
  <2>1. InFlight \subseteq Live
    BY DEF InFlight, Live, Registered
  <2> QED
    BY <2>1, RowsAreLive, FS_Subset
<1>5. /\ metrics.connects_total \in Nat
      /\ metrics.connects_ok \in Nat /\ metrics.connects_failed \in Nat
  BY <1>1 DEF Counters
<1>6. /\ StatsReply(q).metrics = metrics
      /\ StatsReply(q).streams_active = Cardinality(Live)
  BY <1>2 DEF StatsReply
<1> QED
  BY <1>1, <1>2, <1>3, <1>4, <1>5, <1>6, Finite DEF AddsUp, ConnectsAccounted

-----------------------------------------------------------------------------
(* `streams`, at the moment of its dispatch. *)

\* Each id at one place, in ascending order (sort_by_key).
LEMMA SortedIsSorted ==
  ASSUME NEW S \in SUBSET Nat, IsFiniteSet(S)
  PROVE  /\ DOMAIN Sorted(S) = 1 .. Cardinality(S)
         /\ \A i \in DOMAIN Sorted(S) : Sorted(S)[i] \in S
         /\ \A i, j \in DOMAIN Sorted(S) : i < j => Sorted(S)[i] < Sorted(S)[j]
         /\ \A x \in S : \E i \in DOMAIN Sorted(S) : Sorted(S)[i] = x
<1>1. DOMAIN Sorted(S) = 1 .. Cardinality(S) /\ Cardinality(S) \in Nat
  BY FS_CardinalityType DEF Sorted
<1>2. ASSUME NEW i \in 1 .. Cardinality(S)
      PROVE  /\ Sorted(S)[i] \in S
             /\ Cardinality(Smaller(S, Sorted(S)[i])) = i - 1
  <2>1. \E x \in S : Cardinality(Smaller(S, x)) = i - 1
    BY PlacesAreFilled
  <2>2. Sorted(S)[i] = CHOOSE x \in S : Cardinality(Smaller(S, x)) = i - 1
    BY DEF Sorted, Smaller
  <2> QED
    BY <2>1, <2>2
<1>3. ASSUME NEW i \in 1 .. Cardinality(S), NEW j \in 1 .. Cardinality(S), i < j
      PROVE  Sorted(S)[i] < Sorted(S)[j]
  <2> DEFINE x == Sorted(S)[i]
             z == Sorted(S)[j]
  <2>1. /\ x \in S /\ Cardinality(Smaller(S, x)) = i - 1
        /\ z \in S /\ Cardinality(Smaller(S, z)) = j - 1
    BY <1>2
  <2> HIDE DEF x, z
  <2>2. x # z /\ ~ (z < x)
    BY <1>3, <2>1, PlacesAreOrdered
  <2>3. x < z
    BY <2>1, <2>2
  <2> QED
    BY <2>3 DEF x, z
<1>4. ASSUME NEW x \in S
      PROVE  \E i \in 1 .. Cardinality(S) : Sorted(S)[i] = x
  <2>1. /\ Cardinality(Smaller(S, x)) \in Nat
        /\ Cardinality(Smaller(S, x)) + 1 \in 1 .. Cardinality(S)
    BY <1>1, PlacesAreOrdered
  <2>2. PICK i \in 1 .. Cardinality(S) : i = Cardinality(Smaller(S, x)) + 1
    BY <2>1
  <2>3. /\ Sorted(S)[i] \in S
        /\ Cardinality(Smaller(S, Sorted(S)[i])) = Cardinality(Smaller(S, x))
    <3>1. i - 1 = Cardinality(Smaller(S, x))
      BY <2>1, <2>2
    <3>2. /\ Sorted(S)[i] \in S
          /\ Cardinality(Smaller(S, Sorted(S)[i])) = i - 1
      BY <1>2, Zenon
    <3> QED
      BY <3>1, <3>2
  <2> DEFINE y == Sorted(S)[i]
  <2>4. y = x
    <3>1. y \in S /\ Cardinality(Smaller(S, y)) = Cardinality(Smaller(S, x))
      BY <2>3
    <3> HIDE DEF y
    <3> QED
      BY <3>1, PlacesDiffer
  <2> QED
    BY <2>4
<1> QED
  BY <1>1, <1>2, <1>3, <1>4

\* The ids a reply lists.
Listed(table) == {table[i].id : i \in DOMAIN table}
InIdOrder(table) ==
  \A i, j \in DOMAIN table : i < j => table[i].id < table[j].id

LEMMA SnapshotIsTable ==
  ASSUME ServerInv
  PROVE  Listed(snapshot) = DOMAIN rows /\ InIdOrder(snapshot)
<1>1. DOMAIN rows \in SUBSET Nat /\ IsFiniteSet(DOMAIN rows)
  <2>1. next_id \in Nat /\ DOMAIN rows \subseteq 0 .. (next_id - 1)
    BY DEF ServerInv, RegistryInv, TypeOK, SharedTypeOK, Registry!TypeOK
  <2>2. IsFiniteSet(0 .. (next_id - 1))
    BY <2>1, FS_Interval
  <2>3. IsFiniteSet(DOMAIN rows)
    BY <2>1, <2>2, FS_Subset
  <2> QED
    BY <2>1, <2>3
<1> DEFINE ids == Sorted(DOMAIN rows)
<1>2. /\ \A i \in DOMAIN ids : ids[i] \in DOMAIN rows
      /\ \A i, j \in DOMAIN ids : i < j => ids[i] < ids[j]
      /\ \A x \in DOMAIN rows : \E i \in DOMAIN ids : ids[i] = x
  BY <1>1, SortedIsSorted
<1>3. /\ DOMAIN snapshot = DOMAIN ids
      /\ \A i \in DOMAIN ids : snapshot[i].id = ids[i]
  BY DEF snapshot, StreamSnapshot
<1> HIDE DEF ids
<1> QED
  BY <1>2, <1>3 DEF Listed, InIdOrder

-----------------------------------------------------------------------------
(* What is known of each query. *)

Shapes ==
  /\ command \in [Queries -> Commands]
  /\ typed \in [Queries -> {"nothing", "word", "line"}]
  /\ hangup \in [Queries -> {"no", "fin", "gone"}]
  /\ received \in [Queries -> BOOLEAN]
  /\ stage \in [Queries -> {"backlog", "reading", "writing", "closed"}]
  /\ reply = [q \in Queries |-> reply[q]]
  /\ asked = [q \in Queries |-> asked[q]]
  /\ reading \in 0 .. MaxReadings
  /\ sighup \in BOOLEAN

StageFits(q) ==
  /\ reply[q].kind \in ReplyKinds
  /\ reply[q] # NoReply <=> stage[q] = "writing"
  /\ asked[q] # NoView <=> Complete(q) /\ stage[q] # "closed"
  /\ stage[q] \in {"writing", "closed"} => Complete(q)
  /\ received[q] => stage[q] = "closed"

Below(m, n) == \A f \in Fields : m[f] <= n[f]

\* The ids that were in use when a query was complete: all of them handed out
\* by then, and of the others handed out by then none is in use again.
IdsBehind(view) ==
  /\ view.next_id \in Nat /\ view.next_id <= next_id
  /\ view.ids \subseteq 0 .. (view.next_id - 1)
  /\ \A id \in DOMAIN rows : id < view.next_id => id \in view.ids

\* A table of a moment between the question and now.
TableWhole(view, table) ==
  /\ InIdOrder(table)
  /\ view.ids \cap DOMAIN rows \subseteq Listed(table)
  /\ Listed(table) \subseteq view.ids \cup (view.next_id .. (next_id - 1))

\* What a query was asked of is behind it.
AskedBefore(q) ==
  asked[q] # NoView =>
    /\ asked[q].metrics \in Counters /\ Below(asked[q].metrics, metrics)
    /\ asked[q].reading \in 0 .. reading
    /\ IdsBehind(asked[q])

ReplyTrue(q) ==
  /\ reply[q].kind = "stats" =>
       /\ AddsUp(reply[q])
       /\ reply[q].metrics \in Counters /\ reply[q].streams_active \in Nat
       /\ Below(asked[q].metrics, reply[q].metrics)
       /\ Below(reply[q].metrics, metrics)
  /\ reply[q].kind = "status" =>
       reply[q].reading \in asked[q].reading .. reading
  /\ reply[q].kind = "streams" => TableWhole(asked[q], reply[q].rows)

QueryInv ==
  Shapes /\ \A q \in Queries : StageFits(q) /\ AskedBefore(q) /\ ReplyTrue(q)

LEMMA InvTypes == QueryInv => ControlTypeOK
  BY DEF QueryInv, Shapes, StageFits, ControlTypeOK

LEMMA InvAddsUp == QueryInv => StatsAddUp
  BY DEF QueryInv, ReplyTrue, AddsUp, StatsAddUp

LEMMA InvCurrent == QueryInv => RepliesAreCurrent
<1> SUFFICES ASSUME QueryInv, NEW q \in Queries
             PROVE  /\ reply[q].kind = "stats" =>
                         Reflects(asked[q].metrics, metrics, reply[q].metrics)
                    /\ reply[q].kind = "status" =>
                         reply[q].reading \in asked[q].reading .. reading
  BY DEF RepliesAreCurrent
<1>1. ReplyTrue(q)
  BY DEF QueryInv
<1>2. ASSUME reply[q].kind = "stats"
      PROVE  Reflects(asked[q].metrics, metrics, reply[q].metrics)
  <2>1. DOMAIN reply[q].metrics = Fields
    BY <1>1, <1>2 DEF ReplyTrue, Counters, Fields
  <2> QED
    BY <1>1, <1>2, <2>1 DEF ReplyTrue, Reflects, Below
<1> QED
  BY <1>1, <1>2 DEF ReplyTrue

LEMMA InvWhole == QueryInv => StreamsReplyIsWhole
  BY DEF QueryInv, ReplyTrue, TableWhole, Listed, InIdOrder, StreamsReplyIsWhole

-----------------------------------------------------------------------------
(* QueryInv is inductive, given what is known of the proxy. *)

\* A view of the daemon is not the lack of one.
LEMMA ViewIsSome == View # NoView
<1>1. "reading" \in DOMAIN View
  BY DEF View
<1>2. "reading" \notin DOMAIN NoView
  BY DEF NoView
<1> QED
  BY <1>1, <1>2, Zenon

LEMMA InitQuery == ControlInit => QueryInv
<1> SUFFICES ASSUME ControlInit PROVE QueryInv
  OBVIOUS
<1>1. Shapes
  <2>1. /\ reply = [q \in Queries |-> reply[q]]
        /\ asked = [q \in Queries |-> asked[q]]
    BY Zenon DEF ControlInit
  <2>2. /\ command \in [Queries -> Commands]
        /\ typed \in [Queries -> {"nothing", "word", "line"}]
        /\ hangup \in [Queries -> {"no", "fin", "gone"}]
        /\ stage \in [Queries -> {"backlog", "reading", "writing", "closed"}]
        /\ received \in [Queries -> BOOLEAN]
    BY DEF ControlInit
  <2>3. reading \in 0 .. MaxReadings
    BY ControlAssumption DEF ControlInit
  <2>4. sighup \in BOOLEAN
    BY Zenon DEF ControlInit
  <2> QED
    BY <2>1, <2>2, <2>3, <2>4 DEF Shapes
<1>2. ASSUME NEW q \in Queries
      PROVE  StageFits(q) /\ AskedBefore(q) /\ ReplyTrue(q)
  <2>1. /\ typed[q] = "nothing" /\ hangup[q] = "no" /\ received[q] = FALSE
        /\ stage[q] = "backlog" /\ reply[q] = NoReply /\ asked[q] = NoView
    BY DEF ControlInit
  <2>2. reply[q].kind = "none"
    BY <2>1 DEF NoReply
  <2> QED
    BY <2>1, <2>2 DEF StageFits, AskedBefore, ReplyTrue, ReplyKinds, Complete
<1> QED
  BY <1>1, <1>2 DEF QueryInv

\* Of the proxy a query sees counters that grow, clients that stay untold, and
\* rows that come under new ids or not at all.
MovesOn ==
  /\ metrics \in Counters /\ metrics' \in Counters /\ Below(metrics, metrics')
  /\ Cardinality(Unconfirmed) \in Nat /\ Cardinality(Unconfirmed)' \in Nat
  /\ Cardinality(Unconfirmed) <= Cardinality(Unconfirmed)'
  /\ next_id \in Nat /\ next_id' \in Nat /\ next_id <= next_id'
  /\ DOMAIN rows \subseteq 0 .. (next_id - 1)
  /\ DOMAIN rows' \subseteq DOMAIN rows \cup (next_id .. (next_id' - 1))

LEMMA IdsMoveOn ==
  ASSUME RegistryInv, [Next]_vars
  PROVE  /\ next_id \in Nat /\ next_id' \in Nat /\ next_id <= next_id'
         /\ DOMAIN rows \subseteq 0 .. (next_id - 1)
         /\ DOMAIN rows' \subseteq DOMAIN rows \cup (next_id .. (next_id' - 1))
<1>1. next_id \in Nat /\ DOMAIN rows \subseteq 0 .. (next_id - 1)
  BY DEF RegistryInv, TypeOK, SharedTypeOK, Registry!TypeOK
<1>2. [Registry!Next]_Registry!registryVars
  BY RegistryStep
<1>3. \/ UNCHANGED <<rows, next_id>>
      \/ next_id' = next_id + 1 /\ DOMAIN rows' = DOMAIN rows \cup {next_id}
      \/ next_id' = next_id /\ DOMAIN rows' \subseteq DOMAIN rows
  BY <1>2
  DEF Registry!Next, Registry!registryVars, Registry!Register,
      Registry!DropHandle, Registry!Restrict, Registry!CountToUpstream,
      Registry!CountToClient
<1> QED
  BY <1>1, <1>3

LEMMA ProxyMovesOn ==
  ASSUME ServerInv, ServerInv', [Next]_vars
  PROVE  MovesOn
<1>1. metrics \in Counters /\ metrics' \in Counters /\ TypeOK /\ ContractInv
  BY DEF ServerInv, CountInv, ContractInv, TypeOK, SharedTypeOK
<1>2. Below(metrics, metrics')
  BY <1>1, CountersGrow DEF Below
<1>3. Unconfirmed \subseteq Unconfirmed'
  BY <1>1, UnconfirmedGrows
<1>4. /\ IsFiniteSet(Unconfirmed) /\ Cardinality(Unconfirmed) \in Nat
      /\ IsFiniteSet(Unconfirmed') /\ Cardinality(Unconfirmed') \in Nat
  <2>1. Unconfirmed \in SUBSET Conns /\ Unconfirmed' \in SUBSET Conns
    BY DEF Unconfirmed
  <2> QED
    BY <2>1, FS_Subset, FS_CardinalityType, ServerAssumption
<1>5. RegistryInv
  BY DEF ServerInv
<1> QED
  BY <1>1, <1>2, <1>3, <1>4, <1>5, IdsMoveOn, FS_Subset DEF MovesOn

\* A step that is not about q.
KeepsQuery(q) ==
  /\ typed'[q] = typed[q] /\ hangup'[q] = hangup[q]
  /\ received'[q] = received[q] /\ stage'[q] = stage[q]
  /\ reply'[q] = reply[q] /\ asked'[q] = asked[q]

Fits(q) == StageFits(q) /\ AskedBefore(q) /\ ReplyTrue(q)

LEMMA BelowChain ==
  ASSUME NEW m \in Counters, NEW n \in Counters, NEW o \in Counters,
         Below(m, n), Below(n, o)
  PROVE  Below(m, o)
<1>1. \A f \in Fields : m[f] \in Nat /\ n[f] \in Nat /\ o[f] \in Nat
  BY DEF Counters, Fields
<1> QED
  BY <1>1 DEF Below

\* The registry moving on keeps what is known of ids and tables.
LEMMA IdsStayBehind ==
  ASSUME MovesOn, NEW view, IdsBehind(view)
  PROVE  /\ IdsBehind(view)'
         /\ \A table : TableWhole(view, table) => TableWhole(view, table)'
<1>1. ASSUME NEW id \in DOMAIN rows', id < view.next_id
      PROVE  id \in DOMAIN rows
  BY <1>1 DEF MovesOn, IdsBehind
<1>2. IdsBehind(view)'
  BY <1>1 DEF MovesOn, IdsBehind
<1>3. view.ids \cap DOMAIN rows' \subseteq view.ids \cap DOMAIN rows
  BY <1>1 DEF IdsBehind
<1>4. view.next_id .. (next_id - 1) \subseteq view.next_id .. (next_id' - 1)
  BY DEF MovesOn, IdsBehind
<1> QED
  BY <1>2, <1>3, <1>4 DEF TableWhole

LEMMA OtherQuery ==
  ASSUME MovesOn, reading \in Nat, reading' \in Nat, reading <= reading',
         NEW q \in Queries, KeepsQuery(q), Fits(q)
  PROVE  Fits(q)'
<1> USE DEF KeepsQuery, Fits
<1>1. StageFits(q)'
  BY DEF StageFits, Complete
<1>2. AskedBefore(q)'
  <2>1. CASE asked[q] = NoView
    BY <2>1 DEF AskedBefore
  <2>2. CASE asked[q] # NoView
    <3>1. Below(asked[q].metrics, metrics') /\ asked[q].metrics \in Counters
      BY <2>2, BelowChain DEF AskedBefore, MovesOn
    <3>2. asked[q].reading \in 0 .. reading'
      BY <2>2 DEF AskedBefore
    <3>3. IdsBehind(asked[q])'
      BY <2>2, IdsStayBehind DEF AskedBefore, IdsBehind
    <3> QED
      BY <3>1, <3>2, <3>3 DEF AskedBefore
  <2> QED
    BY <2>1, <2>2
<1>3. ASSUME reply[q].kind = "stats"
      PROVE  AddsUp(reply[q])' /\ Below(reply[q].metrics, metrics')
  <2>1. Below(reply[q].metrics, metrics')
    BY <1>3, BelowChain DEF ReplyTrue, MovesOn
  <2>2. AddsUp(reply[q])'
    BY <1>3 DEF ReplyTrue, AddsUp, MovesOn, Counters
  <2> QED
    BY <2>1, <2>2
<1>4. ASSUME reply[q].kind = "status"
      PROVE  reply[q].reading \in asked[q].reading .. reading'
  <2>1. asked[q] # NoView
    BY <1>4 DEF StageFits, NoReply
  <2> QED
    BY <1>4, <2>1 DEF ReplyTrue, AskedBefore
<1>5. ASSUME reply[q].kind = "streams"
      PROVE  TableWhole(asked[q], reply[q].rows)'
  <2>1. asked[q] # NoView
    BY <1>5 DEF StageFits, NoReply
  <2>2. IdsBehind(asked[q]) /\ TableWhole(asked[q], reply[q].rows)
    BY <1>5, <2>1 DEF AskedBefore, ReplyTrue
  <2> QED
    BY <2>2, IdsStayBehind DEF TableWhole
<1>6. ReplyTrue(q)'
  BY <1>3, <1>4, <1>5 DEF ReplyTrue
<1> QED
  BY <1>1, <1>2, <1>6

-----------------------------------------------------------------------------
(* One action at a time.  What a step is about is one query at most. *)

LEMMA OthersKept ==
  ASSUME ServerInv, ServerInv', QueryInv, UNCHANGED <<vars, reading>>,
         NEW q \in Queries,
         \A p \in Queries \ {q} : KeepsQuery(p)
  PROVE  /\ MovesOn
         /\ \A p \in Queries \ {q} : Fits(p)'
<1>1. MovesOn
  BY ProxyMovesOn DEF vars
<1> QED
  BY <1>1, OtherQuery, ControlAssumption DEF QueryInv, Fits, Shapes

\* The query's own steps: what it is asked of is the daemon as it is.
LEMMA QueryStep ==
  ASSUME ServerInv, ServerInv', QueryInv, NEW q \in Queries, Query(q)
  PROVE  QueryInv'
<1> USE DEF QueryInv, Query, QueryEnd
<1>1. Shapes'
  BY DEF QueryTypes, QueryEnds, Shapes
<1>2. \A p \in Queries \ {q} : KeepsQuery(p)
  BY DEF QueryTypes, QueryEnds, Shapes, KeepsQuery
<1>3. /\ UNCHANGED <<vars, reading, metrics>>
      /\ reply' = reply /\ stage' = stage /\ received' = received
  BY DEF QueryTypes, QueryEnds, vars, sharedVars
<1>4. MovesOn /\ \A p \in Queries \ {q} : Fits(p)'
  BY <1>2, <1>3, OthersKept
<1>5. /\ View.metrics = metrics /\ View.reading = reading
      /\ View.ids = DOMAIN rows /\ View.next_id = next_id
  BY DEF View
<1>6. \/ asked'[q] = View /\ ~ Complete(q)
      \/ asked'[q] = asked[q] /\ (Complete(q)' <=> Complete(q))
  BY DEF QueryTypes, QueryEnds, Complete, Shapes
<1>7. asked'[q] = View => Complete(q)' /\ stage[q] # "closed"
  BY <1>6, ViewIsSome DEF QueryTypes, QueryEnds, Complete, Shapes, StageFits
<1>8. StageFits(q)'
  BY <1>3, <1>6, <1>7, ViewIsSome DEF StageFits
<1>9. AskedBefore(q)'
  <2>1. CASE asked'[q] = View
    <3>1. Below(metrics, metrics') /\ metrics \in Counters
      BY <1>4 DEF MovesOn
    <3>2. IdsBehind(View)
      BY <1>4, <1>5 DEF IdsBehind, MovesOn
    <3>3. IdsBehind(asked[q])'
      BY <1>3, <2>1, <3>2 DEF IdsBehind, vars, registryVars, sharedVars
    <3> QED
      BY <1>3, <1>5, <2>1, <3>1, <3>3, ControlAssumption DEF AskedBefore, Shapes
  <2>2. CASE asked'[q] = asked[q]
    BY <1>3, <2>2
    DEF AskedBefore, Below, IdsBehind, vars, registryVars, sharedVars
  <2> QED
    BY <1>6, <2>1, <2>2
<1>10. ReplyTrue(q)'
  <2>1. CASE asked'[q] = View /\ ~ Complete(q)
    <3>1. reply[q].kind = "none"
      BY <2>1 DEF StageFits, NoReply
    <3> QED
      BY <1>3, <3>1 DEF ReplyTrue
  <2>2. CASE asked'[q] = asked[q]
    <3>1. Cardinality(Unconfirmed)' = Cardinality(Unconfirmed)
      BY <1>3 DEF Unconfirmed, vars, torVars, taskVars
    <3> QED
      BY <1>3, <2>2, <3>1
      DEF ReplyTrue, AddsUp, Below, TableWhole, vars, registryVars, sharedVars
  <2> QED
    BY <1>6, <2>1, <2>2
<1> QED
  BY <1>1, <1>4, <1>8, <1>9, <1>10 DEF Fits

LEMMA AcceptStep ==
  ASSUME ServerInv, ServerInv', QueryInv, NEW q \in Queries, AcceptQuery(q)
  PROVE  QueryInv'
<1> USE DEF QueryInv, AcceptQuery, ControlOnly, queryVars
<1>1. Shapes'
  BY DEF Shapes
<1>2. \A p \in Queries \ {q} : KeepsQuery(p)
  BY DEF Shapes, KeepsQuery
<1>3. MovesOn /\ \A p \in Queries \ {q} : Fits(p)'
  BY <1>2, OthersKept
<1>4. /\ stage'[q] = "reading" /\ reply[q].kind = "none"
      /\ UNCHANGED <<metrics, reading, typed, hangup, received, reply, asked>>
  BY DEF Shapes, StageFits, NoReply, vars, sharedVars
<1>5. StageFits(q)'
  BY <1>4 DEF StageFits, Complete
<1>6. AskedBefore(q)' /\ ReplyTrue(q)'
  BY <1>4
  DEF AskedBefore, ReplyTrue, Below, IdsBehind, vars, registryVars, sharedVars
<1> QED
  BY <1>1, <1>3, <1>5, <1>6 DEF Fits

\* dispatch: the counters it reads are the daemon's of that moment.
LEMMA DispatchStep ==
  ASSUME ServerInv, ServerInv', QueryInv, NEW q \in Queries, Dispatch(q)
  PROVE  QueryInv'
<1> USE DEF QueryInv, Dispatch, ControlOnly, queryVars, HasLine
<1>1. \A p \in Queries \ {q} : KeepsQuery(p)
  BY DEF Shapes, KeepsQuery
<1>2. MovesOn /\ \A p \in Queries \ {q} : Fits(p)'
  BY <1>1, OthersKept
<1>3. /\ stage'[q] = "writing" /\ reply'[q] = Answered(q)
      /\ UNCHANGED <<metrics, reading, typed, hangup, received, asked>>
  BY DEF Shapes, vars, sharedVars
<1>4. Complete(q) /\ asked[q] # NoView /\ ~ received[q]
  BY DEF StageFits
<1>5. \/ Answered(q).kind \in {"pong", "reload", "error"}
      \/ Answered(q) = [kind |-> "streams", rows |-> snapshot]
      \/ Answered(q) = [kind |-> "status", reading |-> reading]
      \/ Answered(q) = StatsReply(q)
  <2>1. /\ command[q] \in {"ping", "status", "stats", "streams", "reload", "unknown", Garbled}
        /\ typed[q] = "nothing" \/ command[q] # Garbled
    BY ControlAssumption DEF Shapes, Unreadable
  <2> DEFINE word == IF typed[q] = "nothing" THEN "unknown" ELSE command[q]
  <2>2. word \in {"ping", "status", "stats", "streams", "reload", "unknown"}
    BY <2>1
  <2> QED
    BY <2>2 DEF Answered
<1>6. StatsReply(q).kind = "stats"
  BY DEF StatsReply
<1>7. Answered(q).kind \in ReplyKinds \ {"none"}
  BY <1>5, <1>6 DEF ReplyKinds
<1>8. Answered(q) # NoReply
  BY <1>7 DEF NoReply
<1>9. StageFits(q)' /\ AskedBefore(q)'
  BY <1>3, <1>4, <1>7, <1>8
  DEF StageFits, AskedBefore, Complete, Below, IdsBehind, vars, registryVars,
      sharedVars
<1>10. ReplyTrue(q)'
  <2>1. CASE Answered(q).kind \in {"pong", "reload", "error"}
    BY <1>3, <2>1 DEF ReplyTrue
  <2>2. CASE Answered(q) = [kind |-> "status", reading |-> reading]
    BY <1>3, <1>4, <2>2, ControlAssumption DEF ReplyTrue, AskedBefore, Shapes
  <2>3. CASE Answered(q) = StatsReply(q)
    <3>1. /\ StatsReply(q).metrics = metrics /\ metrics \in Counters
          /\ StatsReply(q).streams_active \in Nat
          /\ AddsUp(StatsReply(q))
      BY StatsReplyAddsUp DEF StatsReply
    <3>2. Below(asked[q].metrics, metrics) /\ Below(metrics, metrics)
      <4>1. \A f \in Fields : metrics[f] \in Nat
        BY <3>1 DEF Counters, Fields
      <4> QED
        BY <1>4, <4>1 DEF AskedBefore, Below
    <3>3. AddsUp(reply[q])'
      <4>1. Cardinality(Unconfirmed)' = Cardinality(Unconfirmed)
        BY DEF Unconfirmed, vars, torVars, taskVars
      <4> QED
        BY <1>3, <2>3, <3>1, <4>1 DEF AddsUp
    <3>4. StatsReply(q).kind = "stats"
      BY <1>6
    <3> QED
      BY <1>3, <2>3, <3>1, <3>2, <3>3, <3>4 DEF ReplyTrue, Below
  <2>4. CASE Answered(q) = [kind |-> "streams", rows |-> snapshot]
    <3>1. reply'[q].kind = "streams" /\ reply'[q].rows = snapshot
      BY <1>3, <2>4
    <3>2. IdsBehind(asked[q])
      BY <1>4 DEF AskedBefore
    <3>3. Listed(snapshot) = DOMAIN rows /\ InIdOrder(snapshot)
      BY SnapshotIsTable
    <3>4. DOMAIN rows \subseteq 0 .. (next_id - 1) /\ next_id \in Nat
      BY <1>2 DEF MovesOn
    <3>5. DOMAIN rows \subseteq asked[q].ids \cup (asked[q].next_id .. (next_id - 1))
      BY <3>2, <3>4 DEF IdsBehind
    <3>6. TableWhole(asked[q], reply[q].rows)'
      BY <1>3, <3>1, <3>3, <3>5 DEF TableWhole, vars, registryVars, sharedVars
    <3> QED
      BY <3>1, <3>6 DEF ReplyTrue
  <2> QED
    BY <1>5, <2>1, <2>2, <2>3, <2>4
<1>11. Shapes'
  BY DEF Shapes
<1> QED
  BY <1>2, <1>9, <1>10, <1>11 DEF Fits

\* handle returns, by whichever way.
LEMMA ReturnStep ==
  ASSUME ServerInv, ServerInv', QueryInv, NEW q \in Queries,
         ReadLineFails(q) \/ WriteReply(q) \/ WriteReplyFails(q)
  PROVE  QueryInv'
<1> USE DEF QueryInv
<1>1. /\ Returns(q) /\ UNCHANGED <<vars, queryVars, reading, sighup>>
      /\ received' = [received EXCEPT ![q] = TRUE] \/ UNCHANGED received
      /\ Complete(q)
  BY DEF ReadLineFails, WriteReply, WriteReplyFails, HasLine, ControlOnly,
      Shapes, StageFits
<1>2. Shapes'
  <2>1. received' \in [Queries -> BOOLEAN]
    BY <1>1 DEF Shapes
  <2> QED
    BY <1>1, <2>1 DEF Shapes, Returns, queryVars
<1>3. \A p \in Queries \ {q} : KeepsQuery(p)
  BY <1>1 DEF Shapes, KeepsQuery, Returns, queryVars
<1>4. MovesOn /\ \A p \in Queries \ {q} : Fits(p)'
  BY <1>1, <1>3, OthersKept
<1>5. /\ stage'[q] = "closed" /\ reply'[q] = NoReply /\ asked'[q] = NoView
      /\ Complete(q)'
  BY <1>1 DEF Returns, Shapes, Complete, queryVars
<1>6. reply'[q].kind = "none"
  BY <1>5 DEF NoReply
<1>7. Fits(q)'
  BY <1>5, <1>6 DEF Fits, StageFits, AskedBefore, ReplyTrue, ReplyKinds
<1> QED
  BY <1>2, <1>4, <1>7 DEF Fits

\* The rest of the daemon goes on.
LEMMA DaemonStep ==
  ASSUME ServerInv, ServerInv', QueryInv,
         PollStatus \/ LogSighup \/ Proxy \/ UNCHANGED allVars
  PROVE  QueryInv'
<1> USE DEF QueryInv
<1>1. /\ [Next]_vars
      /\ UNCHANGED <<command, typed, hangup, received, stage, reply, asked>>
      /\ reading' = reading \/ (reading < MaxReadings /\ reading' = reading + 1)
      /\ UNCHANGED sighup \/ sighup' = FALSE
  BY DEF PollStatus, LogSighup, Proxy, allVars, controlVars, queryVars
<1>2. /\ reading \in Nat /\ reading' \in Nat /\ reading <= reading'
      /\ reading' \in 0 .. MaxReadings
  BY <1>1, ControlAssumption DEF Shapes
<1>3. sighup' \in BOOLEAN
  BY <1>1 DEF Shapes
<1>4. Shapes'
  BY <1>1, <1>2, <1>3 DEF Shapes
<1>5. MovesOn
  BY <1>1, ProxyMovesOn
<1>6. \A q \in Queries : KeepsQuery(q)
  BY <1>1 DEF KeepsQuery
<1>7. \A q \in Queries : Fits(q)'
  BY <1>2, <1>5, <1>6, OtherQuery DEF Fits
<1> QED
  BY <1>4, <1>7 DEF Fits

LEMMA NextQuery ==
  ServerInv /\ ServerInv' /\ QueryInv /\ [ControlNext]_allVars => QueryInv'
<1> SUFFICES ASSUME ServerInv, ServerInv', QueryInv, [ControlNext]_allVars
             PROVE  QueryInv'
  OBVIOUS
<1>1. ASSUME NEW q \in Queries, Query(q) \/ AcceptQuery(q) \/ Serve(q)
      PROVE  QueryInv'
  BY <1>1, QueryStep, AcceptStep, DispatchStep, ReturnStep DEF Serve
<1>2. CASE PollStatus \/ LogSighup \/ Proxy \/ UNCHANGED allVars
  BY <1>2, DaemonStep
<1> QED
  BY <1>1, <1>2 DEF ControlNext

LEMMA QueryKnown == ControlSpec => []QueryInv
  BY InitQuery, NextQuery, ServerKnown, PTL DEF ControlSpec

\* Each connection is answered at most once and only after it has asked
\* (control.rs, handle: one read_line, one dispatch, one write_all).
THEOREM ControlTypeCorrect == ControlSpec => []ControlTypeOK
  BY QueryKnown, InvTypes, PTL

\* The figures of every `stats` reply add up, for any number of connections
\* and queries (control.rs, dispatch: the counters and the registry are read
\* with no await between them).
THEOREM StatsAlwaysAddUp == ControlSpec => []StatsAddUp
  BY QueryKnown, InvAddsUp, PTL

\* No reply is staler than its question, nor ahead of the daemon (control.rs,
\* dispatch, and the relaxed counters of metrics.rs).
THEOREM RepliesAlwaysCurrent == ControlSpec => []RepliesAreCurrent
  BY QueryKnown, InvCurrent, PTL

\* Every `streams` reply is a table of one moment after its question: nobody is
\* missing, listed twice or listed who had gone, with rows coming and going
\* between the question and the answer (streams.rs, snapshot; it rests on ids
\* that are never handed out again).
THEOREM StreamsRepliesAreWhole == ControlSpec => []StreamsReplyIsWhole
  BY QueryKnown, InvWhole, PTL
=============================================================================
