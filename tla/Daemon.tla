------------------------------- MODULE Daemon -------------------------------
(***************************************************************************)
(* The life of tord processes (src/src/main.rs, main and run, with the     *)
(* binding and accepting half of src/src/control.rs, serve): the config    *)
(* gate, the signal handlers, the two listeners the daemon comes up with,  *)
(* and everything that ends it.                                            *)
(*                                                                         *)
(* A process is sequential; processes started beside each other, or after  *)
(* each other, share the config file, the SOCKS address and the path of    *)
(* the control socket, and between two system calls of one the others may  *)
(* run.  Of the kernel: a bind fails where a name is taken, and a process  *)
(* that ends takes its listeners with it but leaves the socket file.       *)
(* remove_file is assumed to have the right to remove the file.            *)
(*                                                                         *)
(* What the listeners serve is SocksServer's subject, and the bootstrap    *)
(* and poller tasks spawned here are TorBootstrap's.                       *)
(***************************************************************************)
EXTENDS Naturals, FiniteSets

CONSTANTS
  Procs,         \* tord processes
  MaxStarts      \* bound: times a process is started

ASSUME DaemonAssumption ==
  /\ IsFiniteSet(Procs)
  /\ Procs \cap {"none", "stale"} = {}
  /\ MaxStarts \in Nat

VARIABLES
  config,        \* what the config file says
  path,          \* the control socket's path: "none", a file whose listener is
                 \* gone ("stale"), or the process whose listener it names
  stage,         \* how far each process has come
  how,           \* how it last ended
  socks,         \* the processes that hold a SOCKS listener
  control,       \* the control listener: "none", "unlinked" or "bound"
  sigterm,       \* the processes with a SIGTERM to handle
  starts,        \* times a process was started
  overlapped     \* history: two processes were up at a time

sockVars == <<socks, control, path>>
vars == <<config, stage, how, sockVars, sigterm, starts, overlapped>>

\* What load and the `enabled` switch come to: an absent file or section is
\* "off", a file that cannot be read or parsed "broken".
Configs == {"enabled", "off", "broken"}

Stages == {"down", "starting", "sighup", "running"}
Endings == {"never", "gated", "config", "start", "signal", "socks",
            "control_bind", "control_accept", "sigterm", "crash"}

Up(p) == stage[p] # "down"

Init ==
  /\ config \in Configs
  /\ path \in {"none", "stale"}
  /\ stage = [p \in Procs |-> "down"]
  /\ how = [p \in Procs |-> "never"]
  /\ socks = {}
  /\ control = [p \in Procs |-> "none"]
  /\ sigterm = {}
  /\ starts = 0
  /\ overlapped = FALSE

\* The process ends, and the kernel closes what it held.
Ends(p, reason) ==
  /\ stage' = [stage EXCEPT ![p] = "down"]
  /\ how' = [how EXCEPT ![p] = reason]
  /\ socks' = socks \ {p}
  /\ control' = [control EXCEPT ![p] = "none"]
  /\ path' = IF path = p THEN "stale" ELSE path
  /\ sigterm' = sigterm \ {p}
  /\ UNCHANGED <<config, starts, overlapped>>

Reaches(p, next) ==
  /\ stage' = [stage EXCEPT ![p] = next]
  /\ UNCHANGED <<config, how, sockVars, sigterm, starts, overlapped>>

-----------------------------------------------------------------------------
(* main, and run up to its select. *)

\* main: only an enabled `tor:` section lets the daemon start.
Start(p) ==
  /\ ~ Up(p) /\ starts < MaxStarts
  /\ starts' = starts + 1
  /\ \/ /\ config = "enabled"
        /\ stage' = [stage EXCEPT ![p] = "starting"]
        /\ overlapped' = (overlapped \/ \E q \in Procs : Up(q))
        /\ UNCHANGED how
     \/ /\ config # "enabled"
        /\ how' = [how EXCEPT ![p] = IF config = "off" THEN "gated" ELSE "config"]
        /\ UNCHANGED <<stage, overlapped>>
  /\ UNCHANGED <<config, sockVars, sigterm>>

\* The tokio runtime, the VCL application, the Tor client or one of the signal
\* handlers cannot be had.
StartFails(p) == stage[p] \in {"starting", "sighup"} /\ Ends(p, "start")

InstallSighup(p) == stage[p] = "starting" /\ Reaches(p, "sighup")

InstallSigterm(p) == stage[p] = "sighup" /\ Reaches(p, "running")

-----------------------------------------------------------------------------
(* run's select: its three branches are polled in any order. *)

\* Nothing of p's own comes between remove_file and bind.
Polls(p) == stage[p] = "running" /\ control[p] # "unlinked"

BindSocks(p) ==
  /\ Polls(p) /\ socks = {}
  /\ socks' = {p}
  /\ UNCHANGED <<config, stage, how, control, path, sigterm, starts, overlapped>>

\* The address is taken, or cannot be bound at all.
BindSocksFails(p) == Polls(p) /\ p \notin socks /\ Ends(p, "socks")

\* Faulty variant: the path is left as it is found.
UnlinkNothing(p) ==
  /\ Polls(p) /\ control[p] = "none"
  /\ control' = [control EXCEPT ![p] = "unlinked"]
  /\ UNCHANGED <<config, stage, how, socks, path, sigterm, starts, overlapped>>

\* control::serve: remove_file, whatever is there ...
Unlink(p) ==
  /\ Polls(p) /\ control[p] = "none"
  /\ control' = [control EXCEPT ![p] = "unlinked"]
  /\ path' = "none"
  /\ UNCHANGED <<config, stage, how, socks, sigterm, starts, overlapped>>

\* Faulty variant: the socket is served before the handlers are installed.
BindControlEarly(p) ==
  /\ Up(p) /\ control[p] # "bound" /\ path = "none"
  /\ control' = [control EXCEPT ![p] = "bound"]
  /\ path' = p
  /\ UNCHANGED <<config, stage, how, socks, sigterm, starts, overlapped>>

\* Faulty variant: bind, and only then the stale file is removed.
BindControlThenUnlink(p) ==
  /\ control[p] = "unlinked" /\ path = "none"
  /\ control' = [control EXCEPT ![p] = "bound"]
  /\ UNCHANGED <<config, stage, how, socks, path, sigterm, starts, overlapped>>

\* ... and bind.
BindControl(p) ==
  /\ control[p] = "unlinked" /\ path = "none"
  /\ control' = [control EXCEPT ![p] = "bound"]
  /\ path' = p
  /\ UNCHANGED <<config, stage, how, socks, sigterm, starts, overlapped>>

BindControlFails(p) ==
  /\ control[p] = "unlinked" /\ path # "none"
  /\ Ends(p, "control_bind")

\* The accept loop's `?`.
ControlAcceptFails(p) ==
  Polls(p) /\ control[p] = "bound" /\ Ends(p, "control_accept")

\* Faulty variant: SIGTERM is logged and waited for again, as SIGHUP is.
HandleSigtermLogging(p) ==
  /\ Polls(p) /\ p \in sigterm
  /\ sigterm' = sigterm \ {p}
  /\ UNCHANGED <<config, stage, how, sockVars, starts, overlapped>>

HandleSigterm(p) == Polls(p) /\ p \in sigterm /\ Ends(p, "sigterm")

-----------------------------------------------------------------------------
(* Signals, crashes and the operator. *)

\* Without a handler SIGHUP kills; with one, the request is logged.
Sighup(p) ==
  \/ stage[p] = "starting" /\ Ends(p, "signal")
  \/ stage[p] \in {"sighup", "running"} /\ UNCHANGED vars

\* The `reload` command of the control socket raises SIGHUP.
Reload(p) == control[p] = "bound" /\ Sighup(p)

Sigterm(p) ==
  \/ stage[p] \in {"starting", "sighup"} /\ Ends(p, "signal")
  \/ /\ stage[p] = "running"
     /\ sigterm' = sigterm \cup {p}
     /\ UNCHANGED <<config, stage, how, sockVars, starts, overlapped>>

Crash(p) == Up(p) /\ Ends(p, "crash")

EditConfig ==
  /\ config' \in Configs
  /\ UNCHANGED <<stage, how, sockVars, sigterm, starts, overlapped>>

-----------------------------------------------------------------------------

Startup(p) == StartFails(p) \/ InstallSighup(p) \/ InstallSigterm(p)
Select(p) ==
  \/ BindSocks(p) \/ BindSocksFails(p)
  \/ Unlink(p) \/ BindControl(p) \/ BindControlFails(p)
Outside(p) == Start(p) \/ Sighup(p) \/ Reload(p) \/ Sigterm(p) \/ Crash(p)

Next ==
  \/ \E p \in Procs :
       \/ Startup(p) \/ Select(p) \/ HandleSigterm(p)
       \/ ControlAcceptFails(p) \/ Outside(p)
  \/ EditConfig

Spec == Init /\ [][Next]_vars

\* Fairness: a process goes on with its own code; nothing is assumed of
\* signals, crashes, failing accepts or the operator.
FairSpec ==
  /\ Spec
  /\ \A p \in Procs :
       WF_vars(Startup(p)) /\ WF_vars(Select(p)) /\ WF_vars(HandleSigterm(p))

-----------------------------------------------------------------------------

\* Every variable keeps its type; a process that is down holds nothing, and
\* the path names a process only while that process listens.
TypeOK ==
  /\ config \in Configs
  /\ stage \in [Procs -> Stages]
  /\ how \in [Procs -> Endings]
  /\ control \in [Procs -> {"none", "unlinked", "bound"}]
  /\ path \in Procs \cup {"none", "stale"}
  /\ path \in Procs => control[path] = "bound"
  /\ socks \subseteq Procs
  /\ \A p, q \in socks : p = q
  /\ sigterm \subseteq Procs
  /\ \A p \in Procs :
       stage[p] # "running" =>
         control[p] = "none" /\ p \notin socks /\ p \notin sigterm
  /\ starts \in 0 .. MaxStarts
  /\ overlapped \in BOOLEAN

\* Where no two daemons were ever up together, the path leads to the daemon
\* that is listening, restarts after crashes included.
SoleDaemonReachable ==
  ~ overlapped => \A p \in Procs : control[p] = "bound" => path = p

\* A socket file left by a daemon that crashed never keeps the next one down
\* (serve: "A stale socket from a previous run blocks bind()").
StaleSocketNeverBlocks ==
  ~ overlapped => \A p \in Procs : how[p] # "control_bind"

\* SIGHUP, whoever sends it, never ends a daemon that can be asked to reload.
ReloadNeverKills ==
  [][\A p \in Procs :
       control[p] = "bound" /\ stage'[p] = "down" => how'[p] # "signal"]_vars

\* A daemon told to stop stops, whatever it was waiting for (run's select).
SigtermEndsDaemon == \A p \in Procs : p \in sigterm ~> ~ Up(p)

Serving(p) == p \in socks /\ control[p] = "bound"

\* What main.rs says: both sockets are served until SIGTERM.
ServesUntilSigterm ==
  [][\A p \in Procs :
       Serving(p) /\ stage'[p] = "down" => how'[p] \in {"sigterm", "crash"}]_vars

\* What control.rs says: the daemon owns the path, so that removing what is
\* there takes it from nobody.
ControlPathOwned ==
  \A p \in Procs : control[p] = "bound" => path = p
=============================================================================
