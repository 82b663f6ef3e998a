---------------------------- MODULE TorBootstrap ----------------------------
(***************************************************************************)
(* Bootstrapping Tor (src/src/tor.rs) while the proxy already serves: the  *)
(* background task that drives arti's bootstrap under a timeout, the       *)
(* CONNECTs that arrive meanwhile and bootstrap on demand, and the poller  *)
(* task that copies arti's status into the cell the control socket reads   *)
(* (src/src/main.rs).                                                      *)
(*                                                                         *)
(* arti is external and modelled as tor.rs uses it.  Whoever needs the     *)
(* client bootstrapped, the task or a CONNECT, waits for the one bootstrap *)
(* attempt arti allows at a time and then makes its own; dropping the      *)
(* future of an attempt ends it.  An attempt may take for ever while the   *)
(* network is down.  Once a bootstrap has completed it stays completed,    *)
(* but the client carries traffic only while the network is up.            *)
(*                                                                         *)
(* The isolation side of connect is in TorIsolation and SocksServer.       *)
(***************************************************************************)
EXTENDS Integers, FiniteSets

CONSTANTS
  Connects,      \* calls of TorManager::connect
  Task,          \* the background task of main.rs
  NoOne,         \* nobody is bootstrapping
  Full,          \* steps of bootstrap progress
  MaxOutages     \* bound: times the network goes down

Callers == Connects \cup {Task}

ASSUME BootstrapAssumption ==
  /\ Task \notin Connects
  /\ NoOne \notin Callers
  /\ Full \in Nat \ {0}
  /\ MaxOutages \in Nat

VARIABLES
  at,            \* where each caller is
  holder,        \* arti: who makes the bootstrap attempt
  progress,      \* arti: steps of bootstrap done
  booted,        \* arti: a bootstrap has completed
  online,        \* the network
  outages,       \* times it went down
  cell           \* BootstrapState

artiVars == <<holder, progress, booted>>
networkVars == <<online, outages>>
vars == <<at, artiVars, networkVars, cell>>

Unbootstrapped == {"waiting", "driving"}

\* TorManager::bootstrap_status: what arti reports of itself.
bootstrap_status ==
  [ready |-> booted /\ online,
   fraction |-> progress,
   blocked |-> ~ online]

\* Faulty variant: rounded to the nearest per-mille.
PermilleRounded(fraction) == (fraction * 1000 + Full \div 2) \div Full

\* The cast of store: progress in whole per-mille, rounded down.
Permille(fraction) == (fraction * 1000) \div Full

Stored(snap) ==
  [ready |-> snap.ready,
   frac_permille |-> Permille(snap.fraction),
   blocked |-> snap.blocked]

\* The task and the poller are spawned before the first CONNECT can arrive.
Init ==
  /\ at = [p \in Callers |-> IF p = Task THEN "waiting" ELSE "none"]
  /\ holder = NoOne
  /\ progress = 0
  /\ booted = FALSE
  /\ online \in BOOLEAN
  /\ outages = 0
  /\ cell = [ready |-> FALSE, frac_permille |-> 0, blocked |-> FALSE]

Goto(p, next) == at' = [at EXCEPT ![p] = next]

-----------------------------------------------------------------------------
(* tord *)

\* TorManager::connect is called; the client was created OnDemand.
Connect(c) ==
  /\ at[c] = "none"
  /\ Goto(c, "waiting")
  /\ UNCHANGED <<artiVars, networkVars, cell>>

\* Faulty variant: the clock starts with the task's own attempt.
BootstrapTimesOutDrivingOnly ==
  /\ at[Task] = "driving"
  /\ Goto(Task, "timed_out")
  /\ holder' = NoOne
  /\ UNCHANGED <<progress, booted, networkVars, cell>>

\* Faulty variant: the timed-out attempt is kept somewhere, not dropped.
BootstrapTimesOutUndropped ==
  /\ at[Task] \in Unbootstrapped
  /\ Goto(Task, "timed_out")
  /\ UNCHANGED <<artiVars, networkVars, cell>>

\* TorManager::bootstrap: the timeout covers the wait for another's attempt,
\* and drops the task's own.
BootstrapTimesOut ==
  /\ at[Task] \in Unbootstrapped
  /\ Goto(Task, "timed_out")
  /\ holder' = IF holder = Task THEN NoOne ELSE holder
  /\ UNCHANGED <<progress, booted, networkVars, cell>>

\* Faulty variant: the poller stops once the bootstrap task is done.
PollWhileBootstrapping ==
  /\ at[Task] \in Unbootstrapped
  /\ cell' = Stored(bootstrap_status)
  /\ UNCHANGED <<at, artiVars, networkVars>>

\* One turn of the poller: a reading of arti into the cell.
Poll ==
  /\ cell' = Stored(bootstrap_status)
  /\ UNCHANGED <<at, artiVars, networkVars>>

-----------------------------------------------------------------------------
(* arti, external *)

StartsAttempt(p) ==
  /\ at[p] = "waiting" /\ holder = NoOne
  /\ holder' = p
  /\ Goto(p, "driving")
  /\ UNCHANGED <<progress, booted, networkVars, cell>>

MakesProgress ==
  /\ online /\ holder # NoOne /\ progress < Full
  /\ progress' = progress + 1
  /\ UNCHANGED <<at, holder, booted, networkVars, cell>>

\* Enough of the directory is there; if it was there before, at once.
Bootstraps(p) ==
  /\ at[p] = "driving"
  /\ booted \/ (online /\ progress > 0)
  /\ booted' = TRUE
  /\ holder' = NoOne
  /\ Goto(p, IF p = Task THEN "ok" ELSE "opening")
  /\ UNCHANGED <<progress, networkVars, cell>>

GivesUp(p) ==
  /\ at[p] = "driving" /\ ~ booted
  /\ holder' = NoOne
  /\ Goto(p, "failed")
  /\ UNCHANGED <<progress, booted, networkVars, cell>>

\* A circuit and a stream over it; arti bounds these with its own timeouts.
Opens(c) ==
  /\ at[c] = "opening"
  /\ \/ online /\ Goto(c, "ok")
     \/ Goto(c, "failed")
  /\ UNCHANGED <<artiVars, networkVars, cell>>

NetworkFails ==
  /\ online /\ outages < MaxOutages
  /\ online' = FALSE
  /\ outages' = outages + 1
  /\ UNCHANGED <<at, artiVars, cell>>

NetworkReturns ==
  /\ ~ online
  /\ online' = TRUE
  /\ UNCHANGED <<at, artiVars, outages, cell>>

-----------------------------------------------------------------------------

Next ==
  \/ \E c \in Connects : Connect(c) \/ Opens(c)
  \/ \E p \in Callers : StartsAttempt(p) \/ Bootstraps(p) \/ GivesUp(p)
  \/ BootstrapTimesOut \/ Poll
  \/ MakesProgress \/ NetworkFails \/ NetworkReturns

Spec == Init /\ [][Next]_vars

(***************************************************************************)
(* Fairness: tord's two timers go off, a caller at the head of arti's      *)
(* queue is let in, and a stream opens or fails (arti's own timeouts).     *)
(* That a bootstrap attempt ever ends is not assumed.                      *)
(***************************************************************************)
Fairness ==
  /\ WF_vars(BootstrapTimesOut)
  /\ WF_vars(Poll)
  /\ \A p \in Callers : WF_vars(StartsAttempt(p))
  /\ \A c \in Connects : WF_vars(Opens(c))

FairSpec == Spec /\ Fairness

-----------------------------------------------------------------------------

Cells == [ready : BOOLEAN, frac_permille : 0 .. 1000, blocked : BOOLEAN]

\* Every variable keeps its type, and the caller that holds arti's bootstrap
\* is the one that is driving it.
TypeOK ==
  /\ at \in [Callers -> Unbootstrapped \cup
                        {"none", "opening", "ok", "failed", "timed_out"}]
  /\ at[Task] \in Unbootstrapped \cup {"ok", "failed", "timed_out"}
  /\ \A c \in Connects : at[c] # "timed_out"
  /\ holder \in Callers \cup {NoOne}
  /\ \A p \in Callers : at[p] = "driving" <=> holder = p
  /\ progress \in 0 .. Full
  /\ booted \in BOOLEAN
  /\ online \in BOOLEAN
  /\ outages \in 0 .. MaxOutages
  /\ cell \in Cells

\* The operator is never shown more than there is: no readiness before a
\* bootstrap has completed, no progress beyond arti's, however late the poller
\* runs (BootstrapState::store).
StatusNeverAhead ==
  /\ cell.ready => booted
  /\ cell.frac_permille * Full <= progress * 1000

\* What arti says and then keeps saying, the control socket says too, a stall
\* that is over or a bootstrap completed long after the timeout included (the
\* poller of main.rs never ends).
StatusCatchesUp ==
  \A ready \in BOOLEAN, fraction \in 0 .. Full, blocked \in BOOLEAN :
    LET snap == [ready |-> ready, fraction |-> fraction, blocked |-> blocked]
    IN  <>[](bootstrap_status = snap) => <>[](cell = Stored(snap))

\* The background task ends within its timeout, behind whomever it waits and
\* whatever the network does (TorManager::bootstrap).
BootstrapTaskEnds == <>(at[Task] \notin Unbootstrapped)

AttemptsEnd == \A c \in Connects : []<>(holder # c)

\* If arti's attempts end, no CONNECT is left behind by the background task:
\* it is opened or refused though the task timed out before, during or after
\* its wait (connects "arriving before it finishes bootstrap on demand").
TimeoutStrandsNobody ==
  AttemptsEnd =>
    \A c \in Connects : at[c] = "waiting" ~> at[c] \in {"ok", "failed"}

\* What config.rs says of bootstrap_timeout_secs, and DESIGN.md of Bootstrap:
\* after the timeout a CONNECT fails fast; it does not sit through a bootstrap
\* attempt of its own, which nothing bounds.
FailsFastAfterTimeout ==
  [][\A c \in Connects :
       at[Task] = "timed_out" /\ ~ booted /\ at[c] # "driving"
         => at'[c] # "driving"]_vars
=============================================================================
