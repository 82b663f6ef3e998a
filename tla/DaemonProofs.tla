---------------------------- MODULE DaemonProofs ----------------------------
(***************************************************************************)
(* Theorems about Daemon, for any set of processes and any number of       *)
(* starts.                                                                 *)
(*                                                                         *)
(* What makes the control socket's path safe for a daemon that has the     *)
(* machine to itself is not in any one step: the path is empty from its    *)
(* own remove_file until its own bind, because nobody else is up.          *)
(***************************************************************************)
EXTENDS Daemon, TLAPS

\* No two processes are up at a time.
Alone == \A p, q \in Procs : Up(p) /\ Up(q) => p = q

\* Between remove_file and bind there is nothing at the path.
PathKeptClear == \A p \in Procs : control[p] = "unlinked" => path = "none"

DaemonInv ==
  /\ TypeOK
  /\ ~ overlapped => Alone /\ PathKeptClear
  /\ SoleDaemonReachable
  /\ StaleSocketNeverBlocks

USE DaemonAssumption DEF Configs

LEMMA InitDaemonInv == Init => DaemonInv
<1> SUFFICES ASSUME Init PROVE DaemonInv
  OBVIOUS
<1>1. path \notin Procs
  BY DEF Init
<1>2. TypeOK
  <2>1. /\ stage \in [Procs -> Stages] /\ how \in [Procs -> Endings]
        /\ control \in [Procs -> {"none", "unlinked", "bound"}]
    BY DEF Init, Stages, Endings
  <2>2. path \in {"none", "stale"} /\ starts = 0 /\ starts \in 0 .. MaxStarts
    BY DEF Init
  <2>3. config \in Configs /\ socks = {} /\ sigterm = {} /\ overlapped = FALSE
    BY DEF Init
  <2>4. \A p \in Procs : control[p] = "none"
    BY DEF Init
  <2> QED
    BY <1>1, <2>1, <2>2, <2>3, <2>4 DEF TypeOK
<1>3. Alone /\ PathKeptClear /\ SoleDaemonReachable /\ StaleSocketNeverBlocks
  BY DEF Init, Alone, PathKeptClear, SoleDaemonReachable,
         StaleSocketNeverBlocks, Up
<1> QED
  BY <1>2, <1>3 DEF DaemonInv

-----------------------------------------------------------------------------
(* Type correctness. *)

LEMMA EndsType ==
  ASSUME TypeOK, NEW p \in Procs, NEW reason \in Endings, Ends(p, reason)
  PROVE  TypeOK'
  BY DEF TypeOK, Ends, Stages

LEMMA ReachesType ==
  ASSUME TypeOK, NEW p \in Procs, NEW next \in Stages, Reaches(p, next),
         stage[p] # "running"
  PROVE  TypeOK'
  BY DEF TypeOK, Reaches, sockVars

LEMMA SelectType ==
  ASSUME TypeOK, NEW p \in Procs, BindSocks(p) \/ Unlink(p) \/ BindControl(p)
  PROVE  TypeOK'
<1>1. CASE BindSocks(p)
  BY <1>1 DEF TypeOK, BindSocks, Polls
<1>2. CASE Unlink(p)
  BY <1>2 DEF TypeOK, Unlink, Polls
<1>3. CASE BindControl(p)
  BY <1>3 DEF TypeOK, BindControl
<1> QED
  BY <1>1, <1>2, <1>3

LEMMA StartType ==
  ASSUME TypeOK, NEW p \in Procs, Start(p)
  PROVE  TypeOK'
<1>1. CASE config = "enabled"
  <2>1. /\ stage' = [stage EXCEPT ![p] = "starting"]
        /\ starts' = starts + 1 /\ starts < MaxStarts
        /\ overlapped' \in BOOLEAN
        /\ UNCHANGED <<config, how, control, path, socks, sigterm>>
    BY <1>1 DEF TypeOK, Start, sockVars
  <2> QED
    BY <2>1 DEF TypeOK, Start, Up, Stages
<1>2. CASE config # "enabled"
  BY <1>2 DEF TypeOK, Start, Stages, Endings, sockVars
<1> QED
  BY <1>1, <1>2

LEMMA SignalType ==
  ASSUME TypeOK, NEW p \in Procs, Sigterm(p), stage[p] = "running"
  PROVE  TypeOK'
  BY DEF TypeOK, Sigterm, sockVars

-----------------------------------------------------------------------------
(* The inductive invariant. *)

\* A process that ends gives back what it held, and it did not end for a stale
\* socket unless another was up beside it.
LEMMA EndsInv ==
  ASSUME DaemonInv, NEW p \in Procs, NEW reason \in Endings, Ends(p, reason),
         reason = "control_bind" => overlapped
  PROVE  DaemonInv'
<1>1. TypeOK'
  BY EndsType DEF DaemonInv
<1>2. ASSUME ~ overlapped PROVE Alone' /\ PathKeptClear'
  BY <1>2 DEF DaemonInv, TypeOK, Alone, PathKeptClear, Up, Ends, Stages
<1>3. SoleDaemonReachable'
  BY DEF DaemonInv, TypeOK, SoleDaemonReachable, Ends
<1>4. StaleSocketNeverBlocks'
  BY DEF DaemonInv, TypeOK, StaleSocketNeverBlocks, Ends
<1>5. overlapped' = overlapped
  BY DEF Ends
<1> QED
  BY <1>1, <1>2, <1>3, <1>4, <1>5 DEF DaemonInv

\* Unlinking and binding disturb nobody where nobody else is up.
LEMMA SelectInv ==
  ASSUME DaemonInv, NEW p \in Procs, BindSocks(p) \/ Unlink(p) \/ BindControl(p)
  PROVE  DaemonInv'
<1>1. TypeOK'
  BY SelectType DEF DaemonInv
<1>2. overlapped' = overlapped /\ stage' = stage /\ how' = how
  BY DEF BindSocks, Unlink, BindControl
<1>3. stage[p] = "running"
  BY DEF BindSocks, Unlink, BindControl, Polls, DaemonInv, TypeOK
<1>4. ASSUME ~ overlapped, NEW q \in Procs, q # p
      PROVE  control[q] = "none" /\ control'[q] = "none"
  <2>1. stage[q] = "down"
    BY <1>3, <1>4 DEF DaemonInv, Alone, Up
  <2>2. control[q] = "none"
    BY <2>1 DEF DaemonInv, TypeOK
  <2> QED
    BY <2>2, <1>4 DEF BindSocks, Unlink, BindControl, DaemonInv, TypeOK
<1>5. ASSUME ~ overlapped
      PROVE  /\ control'[p] = "bound" => path' = p
             /\ control'[p] = "unlinked" => path' = "none"
  BY <1>5
  DEF BindSocks, Unlink, BindControl, Polls, DaemonInv, TypeOK, PathKeptClear,
      SoleDaemonReachable
<1>6. ASSUME ~ overlapped PROVE Alone' /\ PathKeptClear'
  BY <1>2, <1>4, <1>5, <1>6 DEF DaemonInv, Alone, PathKeptClear, Up
<1>7. SoleDaemonReachable'
  BY <1>2, <1>4, <1>5 DEF SoleDaemonReachable
<1>8. StaleSocketNeverBlocks'
  BY <1>2 DEF DaemonInv, StaleSocketNeverBlocks
<1> QED
  BY <1>1, <1>2, <1>6, <1>7, <1>8 DEF DaemonInv

LEMMA StartInv ==
  ASSUME DaemonInv, NEW p \in Procs, Start(p)
  PROVE  DaemonInv'
<1>1. TypeOK'
  BY StartType DEF DaemonInv
<1>2. UNCHANGED <<control, path>> /\ (~ overlapped' => ~ overlapped)
  BY DEF Start, sockVars, DaemonInv, TypeOK
<1>3. ASSUME ~ overlapped' PROVE Alone'
  <2>1. CASE config = "enabled"
    <3>1. ASSUME NEW q \in Procs PROVE stage[q] = "down"
      BY <1>3, <2>1 DEF Start, Up
    <3> QED
      BY <2>1, <3>1 DEF Start, Alone, Up, DaemonInv, TypeOK
  <2>2. CASE config # "enabled"
    BY <1>3, <2>2 DEF Start, Alone, Up, DaemonInv
  <2> QED
    BY <2>1, <2>2
<1>4. StaleSocketNeverBlocks'
  BY <1>2 DEF Start, StaleSocketNeverBlocks, DaemonInv, TypeOK
<1> QED
  BY <1>1, <1>2, <1>3, <1>4 DEF DaemonInv, PathKeptClear, SoleDaemonReachable

LEMMA NextDaemonInv ==
  ASSUME DaemonInv, [Next]_vars
  PROVE  DaemonInv'
<1>1. ASSUME NEW p \in Procs, Startup(p) PROVE DaemonInv'
  <2>1. CASE StartFails(p)
    BY <2>1, EndsInv DEF StartFails, Endings
  <2>2. CASE InstallSighup(p) \/ InstallSigterm(p)
    <3>1. TypeOK'
      BY <2>2, ReachesType
      DEF DaemonInv, InstallSighup, InstallSigterm, Stages
    <3>2. /\ UNCHANGED <<how, control, path, overlapped>>
          /\ \A q \in Procs : Up(q)' => Up(q)
      BY <2>2
      DEF InstallSighup, InstallSigterm, Reaches, sockVars, Up, DaemonInv, TypeOK
    <3> QED
      BY <3>1, <3>2
      DEF DaemonInv, Alone, PathKeptClear, SoleDaemonReachable,
          StaleSocketNeverBlocks
  <2> QED
    BY <1>1, <2>1, <2>2 DEF Startup
<1>2. ASSUME NEW p \in Procs, Select(p) PROVE DaemonInv'
  <2>1. CASE BindSocksFails(p)
    BY <2>1, EndsInv DEF BindSocksFails, Endings
  <2>2. CASE BindControlFails(p)
    <3>1. overlapped
      BY <2>2 DEF BindControlFails, DaemonInv, PathKeptClear, TypeOK
    <3> QED
      BY <2>2, <3>1, EndsInv DEF BindControlFails, Endings
  <2> QED
    BY <1>2, <2>1, <2>2, SelectInv DEF Select
<1>3. ASSUME NEW p \in Procs, HandleSigterm(p) \/ ControlAcceptFails(p) \/ Crash(p)
      PROVE  DaemonInv'
  BY <1>3, EndsInv DEF HandleSigterm, ControlAcceptFails, Crash, Endings
<1>4. ASSUME NEW p \in Procs, Sighup(p) \/ Sigterm(p) PROVE DaemonInv'
  <2>1. CASE Ends(p, "signal")
    BY <2>1, EndsInv DEF Endings
  <2>2. CASE Sigterm(p) /\ stage[p] = "running"
    BY <2>2, SignalType
    DEF Sigterm, sockVars, DaemonInv, Alone, PathKeptClear,
        SoleDaemonReachable, StaleSocketNeverBlocks, Up
  <2>3. CASE UNCHANGED vars
    BY <2>3
    DEF vars, sockVars, DaemonInv, TypeOK, Alone, PathKeptClear,
        SoleDaemonReachable, StaleSocketNeverBlocks, Up
  <2> QED
    BY <1>4, <2>1, <2>2, <2>3 DEF Sighup, Sigterm
<1>5. CASE EditConfig \/ UNCHANGED vars
  BY <1>5
  DEF EditConfig, vars, sockVars, DaemonInv, TypeOK, Alone, PathKeptClear,
      SoleDaemonReachable, StaleSocketNeverBlocks, Up
<1> QED
  BY <1>1, <1>2, <1>3, <1>4, <1>5, StartInv DEF Next, Outside, Reload

LEMMA DaemonInvAlways == Spec => []DaemonInv
  BY InitDaemonInv, NextDaemonInv, PTL DEF Spec

-----------------------------------------------------------------------------

\* What main's processes hold and where they are stays well-formed: a process
\* holds listeners only in its select, and the path names only listeners.
THEOREM DaemonTypeCorrect == Spec => []TypeOK
  BY DaemonInvAlways, PTL DEF DaemonInv

\* control::serve keeps its promise to a daemon alone on its machine: whoever
\* opens the path reaches the daemon that is listening.
THEOREM SoleDaemonIsReachable == Spec => []SoleDaemonReachable
  BY DaemonInvAlways, PTL DEF DaemonInv

\* remove_file does what its comment says: no crash leaves behind what stops
\* the next daemon.
THEOREM RestartNeverBlocked == Spec => []StaleSocketNeverBlocks
  BY DaemonInvAlways, PTL DEF DaemonInv

LEMMA SignalEndsOnlyStarting ==
  ASSUME TypeOK, [Next]_vars, NEW p \in Procs,
         control[p] = "bound", stage'[p] = "down"
  PROVE  how'[p] # "signal"
<1>1. stage[p] = "running"
  BY DEF TypeOK
<1>2. ASSUME NEW q \in Procs, NEW reason, Ends(q, reason), q # p \/ reason # "signal"
      PROVE  how'[p] # "signal"
  <2>1. stage'[q] = "down" /\ (q # p => stage'[p] = stage[p])
    BY <1>2 DEF Ends, TypeOK
  <2>2. q = p
    BY <2>1, <1>1
  <2> QED
    BY <1>2, <2>2 DEF Ends, TypeOK
<1>3. ASSUME UNCHANGED stage PROVE FALSE
  BY <1>3, <1>1
<1>4. ASSUME NEW q \in Procs, Startup(q) PROVE how'[p] # "signal"
  BY <1>1, <1>2, <1>4
  DEF Startup, StartFails, InstallSighup, InstallSigterm, Reaches, TypeOK
<1>5. ASSUME NEW q \in Procs, Select(q) PROVE how'[p] # "signal"
  BY <1>2, <1>3, <1>5
  DEF Select, BindSocks, BindSocksFails, Unlink, BindControl, BindControlFails
<1>6. ASSUME NEW q \in Procs, HandleSigterm(q) \/ ControlAcceptFails(q) \/ Crash(q)
      PROVE  how'[p] # "signal"
  BY <1>2, <1>6 DEF HandleSigterm, ControlAcceptFails, Crash
<1>7. ASSUME NEW q \in Procs, Start(q) PROVE FALSE
  BY <1>1, <1>7 DEF Start, Up, TypeOK
<1>8. ASSUME NEW q \in Procs, Sighup(q) \/ Sigterm(q) PROVE how'[p] # "signal"
  <2>1. CASE Ends(q, "signal") /\ stage[q] # "running"
    BY <2>1, <1>1, <1>2
  <2> QED
    BY <1>1, <1>3, <1>8, <2>1 DEF Sighup, Sigterm, vars
<1> QED
  BY <1>3, <1>4, <1>5, <1>6, <1>7, <1>8
  DEF Next, Outside, Reload, EditConfig, vars

\* By the time the control socket can be asked to reload, the SIGHUP it raises
\* has a handler (the order of run).
THEOREM ReloadIsSafe == Spec => ReloadNeverKills
<1>1. TypeOK /\ [Next]_vars
        => [\A p \in Procs : control[p] = "bound" /\ stage'[p] = "down"
                               => how'[p] # "signal"]_vars
  BY SignalEndsOnlyStarting
<1> QED
  BY <1>1, DaemonTypeCorrect, PTL DEF Spec, ReloadNeverKills
=============================================================================
