------------------------- MODULE TorBootstrapProofs -------------------------
(***************************************************************************)
(* Theorems about TorBootstrap, for any number of CONNECTs, steps of       *)
(* progress and outages.                                                   *)
(***************************************************************************)
EXTENDS TorBootstrap, TLAPS

USE BootstrapAssumption

-----------------------------------------------------------------------------
(* The cast to per-mille. *)

\* Integer division rounds down.
LEMMA RoundsDown ==
  ASSUME NEW a \in Nat, NEW b \in Nat \ {0}
  PROVE  a \div b \in Nat /\ (a \div b) * b <= a
  OBVIOUS

\* The per-mille of a progress never says more than the progress.
LEMMA PermilleBelow ==
  ASSUME NEW n \in 0 .. Full
  PROVE  Permille(n) \in Nat /\ Permille(n) * Full <= n * 1000
  BY RoundsDown DEF Permille

\* It is at most a thousand.
LEMMA PermilleType ==
  ASSUME NEW n \in 0 .. Full
  PROVE  Permille(n) \in 0 .. 1000
<1>1. n * 1000 <= 1000 * Full /\ n * 1000 \in Nat
  OBVIOUS
<1>2. SUFFICES ASSUME NEW q \in Nat, q * Full <= 1000 * Full, q >= 1001
               PROVE  FALSE
  <2>1. Permille(n) \in Nat /\ Permille(n) * Full <= n * 1000
    BY PermilleBelow
  <2>2. Permille(n) * Full <= 1000 * Full
    BY <1>1, <2>1
  <2> QED
    BY <2>1, <2>2
<1>3. q * Full = (q - 1001) * Full + 1001 * Full
  OBVIOUS
<1>4. (q - 1001) * Full >= 0
  BY <1>2
<1> QED
  BY <1>2, <1>3, <1>4

\* What the poller stores is a cell.
LEMMA StoredType ==
  ASSUME TypeOK
  PROVE  Stored(bootstrap_status) \in Cells
<1>1. Permille(progress) \in 0 .. 1000
  BY PermilleType DEF TypeOK
<1> QED
  BY <1>1 DEF TypeOK, Stored, bootstrap_status, Cells

-----------------------------------------------------------------------------
(* Type correctness. *)

LEMMA InitType == Init => TypeOK
<1> SUFFICES ASSUME Init PROVE TypeOK
  OBVIOUS
<1>1. cell \in Cells
  BY DEF Init, Cells
<1>2. \A p \in Callers : at[p] = IF p = Task THEN "waiting" ELSE "none"
  BY DEF Init
<1>3. /\ holder = NoOne /\ holder \notin Callers
      /\ booted \in BOOLEAN /\ online \in BOOLEAN
      /\ progress \in 0 .. Full /\ outages \in 0 .. MaxOutages
  <2>1. holder = NoOne /\ holder \notin Callers
    BY DEF Init
  <2>2. booted \in BOOLEAN /\ online \in BOOLEAN
    BY DEF Init
  <2>3. progress \in 0 .. Full /\ outages \in 0 .. MaxOutages
    BY DEF Init
  <2> QED
    BY <2>1, <2>2, <2>3
<1>4. at \in [Callers -> {"waiting", "none"}]
  BY DEF Init
<1>5. at[Task] = "waiting" /\ \A c \in Connects : at[c] = "none"
  BY <1>2 DEF Callers
<1>6. \A p \in Callers : at[p] # "driving" /\ holder # p
  BY <1>2, <1>3
<1> QED
  BY <1>1, <1>3, <1>4, <1>5, <1>6 DEF TypeOK, Unbootstrapped

LEMMA NextType ==
  ASSUME TypeOK, [Next]_vars
  PROVE  TypeOK'
<1>1. ASSUME NEW c \in Connects, Connect(c) \/ Opens(c)
      PROVE  TypeOK'
  <2>1. /\ c # Task /\ c \in Callers
        /\ at[c] \in {"none", "opening"}
        /\ \E next \in {"waiting", "ok", "failed"} :
             at' = [at EXCEPT ![c] = next]
        /\ UNCHANGED <<holder, progress, booted, online, outages, cell>>
    BY <1>1 DEF Connect, Opens, Goto, artiVars, networkVars, Callers
  <2> QED
    BY <2>1 DEF TypeOK, Unbootstrapped
<1>2. ASSUME NEW p \in Callers, StartsAttempt(p)
      PROVE  TypeOK'
  BY <1>2 DEF StartsAttempt, Goto, networkVars, TypeOK, Unbootstrapped, Callers
<1>3. ASSUME NEW p \in Callers, Bootstraps(p) \/ GivesUp(p)
      PROVE  TypeOK'
  <2>1. /\ holder = p /\ holder' = NoOne
        /\ booted' \in BOOLEAN
        /\ \E next \in {"ok", "failed", "opening"} :
             (p = Task => next # "opening") /\ at' = [at EXCEPT ![p] = next]
        /\ UNCHANGED <<progress, online, outages, cell>>
    BY <1>3 DEF Bootstraps, GivesUp, Goto, networkVars, TypeOK
  <2> QED
    BY <2>1 DEF TypeOK, Unbootstrapped, Callers
<1>4. CASE BootstrapTimesOut
  BY <1>4 DEF BootstrapTimesOut, Goto, networkVars, TypeOK, Unbootstrapped, Callers
<1>5. CASE Poll
  BY <1>5, StoredType DEF Poll, artiVars, networkVars, TypeOK
<1>6. CASE MakesProgress
  <2>1. progress' = progress + 1 /\ progress < Full
    BY <1>6 DEF MakesProgress
  <2>2. progress' \in 0 .. Full
    BY <2>1 DEF TypeOK
  <2> QED
    BY <1>6, <2>2 DEF MakesProgress, networkVars, TypeOK
<1>7. CASE NetworkFails \/ NetworkReturns
  <2>1. outages' \in 0 .. MaxOutages
    BY <1>7 DEF NetworkFails, NetworkReturns, TypeOK
  <2>2. online' \in BOOLEAN
    BY <1>7 DEF NetworkFails, NetworkReturns
  <2> QED
    BY <1>7, <2>1, <2>2 DEF NetworkFails, NetworkReturns, artiVars, TypeOK
<1>8. CASE UNCHANGED vars
  BY <1>8 DEF vars, artiVars, networkVars, TypeOK
<1> QED
  BY <1>1, <1>2, <1>3, <1>4, <1>5, <1>6, <1>7, <1>8 DEF Next

\* Where the callers of arti's bootstrap stand is well-formed, and whoever
\* holds the attempt is the one driving it, through every timeout that drops
\* it (TorManager::bootstrap).
THEOREM BootstrapTypeCorrect == Spec => []TypeOK
  BY InitType, NextType, PTL DEF Spec

-----------------------------------------------------------------------------
(* The status cell. *)

LEMMA InitStatus == Init => StatusNeverAhead
  BY DEF Init, StatusNeverAhead

\* What the cell claims is stable, and the poller claims no more than it reads.
LEMMA NextStatus ==
  ASSUME TypeOK, StatusNeverAhead, [Next]_vars
  PROVE  StatusNeverAhead'
<1>1. CASE Poll
  <2>1. UNCHANGED <<progress, booted>>
    BY <1>1 DEF Poll, artiVars
  <2>2. Permille(progress) * Full <= progress * 1000
    BY PermilleBelow DEF TypeOK
  <2> QED
    BY <1>1, <2>1, <2>2 DEF Poll, Stored, bootstrap_status, StatusNeverAhead
<1>2. CASE ~ Poll
  <2>1. UNCHANGED cell
    BY <1>2
    DEF Next, Connect, Opens, StartsAttempt, Bootstraps, GivesUp,
        BootstrapTimesOut, MakesProgress, NetworkFails, NetworkReturns, vars
  <2>2. booted => booted'
    BY <1>2
    DEF Next, Connect, Opens, StartsAttempt, Bootstraps, GivesUp,
        BootstrapTimesOut, MakesProgress, NetworkFails, NetworkReturns, vars,
        artiVars
  <2>3. progress' = progress \/ progress' = progress + 1
    BY <1>2
    DEF Next, Connect, Opens, StartsAttempt, Bootstraps, GivesUp,
        BootstrapTimesOut, MakesProgress, NetworkFails, NetworkReturns, vars,
        artiVars
  <2>4. cell.frac_permille * Full <= progress' * 1000
    BY <2>3 DEF TypeOK, Cells, StatusNeverAhead
  <2> QED
    BY <2>1, <2>2, <2>4 DEF StatusNeverAhead
<1> QED
  BY <1>1, <1>2

\* The operator is never shown readiness or progress that is not there, at any
\* delay of the poller and for any granularity of arti's progress.
THEOREM StatusIsHonest == Spec => []StatusNeverAhead
  BY BootstrapTypeCorrect, InitStatus, NextStatus, PTL DEF Spec
=============================================================================
