---------------------------- MODULE ProxyOverTor ----------------------------
(***************************************************************************)
(* The handlers of SocksServer over the Tor client of TorBootstrap: one    *)
(* TorManager::connect (src/src/tor.rs) for each CONNECT, awaited by its   *)
(* handler and by nothing else.                                            *)
(*                                                                         *)
(* SocksServer takes arti's answer from nowhere and assumes that it comes; *)
(* here it comes from bootstrap and stream, and only if they end.  The     *)
(* handler cannot give up: while it awaits arti nothing reads its client.  *)
(* The poller only reads, and is left out.                                 *)
(***************************************************************************)
EXTENDS SocksServer

CONSTANTS Task, NoOne, Full, MaxOutages      \* as in TorBootstrap

VARIABLES at, holder, progress, booted, online, outages, cell

Manager == INSTANCE TorBootstrap WITH Connects <- Conns

ASSUME ProxyAssumption == Manager!BootstrapAssumption

managerVars == <<at, holder, progress, booted, online, outages, cell>>
proxyVars == <<vars, managerVars>>

ProxyInit == Init /\ Manager!Init

-----------------------------------------------------------------------------

\* handle calls connect, which asks arti in the same poll.
DialTor(c) == Dial(c) /\ Manager!Connect(c)

\* Faulty variant: the handler does not wait for the bootstrap.
ConnectResolvesEarly(c) ==
  /\ \/ at[c] \in {"ok", "opening"} /\ TorOpens(c)
     \/ at[c] \notin {"ok", "opening"} /\ TorRefuses(c)
  /\ UNCHANGED managerVars

\* Faulty variant: the handler watches its client and leaves, while a task of
\* its own goes on with the connect.
ConnectResolvesOrAbandoned(c) ==
  /\ \/ at[c] = "ok" /\ TorOpens(c)
     \/ (at[c] = "failed" \/ net[c] = "reset") /\ TorRefuses(c)
  /\ UNCHANGED managerVars

\* Faulty variant: only a stream ends the wait, an error is tried again.
ConnectResolvesOpenOnly(c) ==
  /\ at[c] = "ok" /\ TorOpens(c)
  /\ UNCHANGED managerVars

\* connect().await is over.
ConnectResolves(c) ==
  /\ \/ at[c] = "ok" /\ TorOpens(c)
     \/ at[c] = "failed" /\ TorRefuses(c)
  /\ UNCHANGED managerVars

\* The rest of the handlers, and the accept loop.
Handles(c) ==
  \/ Client(c) \/ Accept(c) \/ Greeting(c) \/ Auth(c) \/ Request(c)
  \/ ReadFails(c) \/ TargetFails(c) \/ Answer(c) \/ Forward(c) \/ Backward(c)
  \/ Finish(c) \/ Destination(c)

Serving ==
  /\ (\E c \in Conns : Handles(c)) \/ AcceptFails \/ BackoffEnds
  /\ UNCHANGED managerVars

\* The rest of arti, and the background task.
Bootstrapping ==
  /\ \/ \E c \in Conns : Manager!Opens(c)
     \/ \E p \in Manager!Callers :
          Manager!StartsAttempt(p) \/ Manager!Bootstraps(p) \/ Manager!GivesUp(p)
     \/ Manager!BootstrapTimesOut
     \/ Manager!MakesProgress \/ Manager!NetworkFails \/ Manager!NetworkReturns
  /\ UNCHANGED vars

ProxyNext ==
  \/ \E c \in Conns : DialTor(c) \/ ConnectResolves(c)
  \/ Serving
  \/ Bootstrapping

ProxySpec == ProxyInit /\ [][ProxyNext]_proxyVars

(***************************************************************************)
(* Fairness: as in the two parts, but for arti's answer, of which only the *)
(* handler's waking up is left.                                            *)
(***************************************************************************)
Woken(c) ==
  /\ \/ Greeting(c) \/ Auth(c) \/ Request(c) \/ ReadFails(c) \/ TargetFails(c)
     \/ Answer(c) \/ Finish(c)
  /\ UNCHANGED managerVars

ProxyFairness ==
  /\ WF_proxyVars(Manager!BootstrapTimesOut /\ UNCHANGED vars)
  /\ \A p \in Manager!Callers :
       WF_proxyVars(Manager!StartsAttempt(p) /\ UNCHANGED vars)
  /\ \A c \in Conns :
       /\ WF_proxyVars(Manager!Opens(c) /\ UNCHANGED vars)
       /\ WF_proxyVars(DialTor(c))
       /\ WF_proxyVars(ConnectResolves(c))
       /\ WF_proxyVars(Woken(c))
       /\ WF_proxyVars(Forward(c) /\ UNCHANGED managerVars)
       /\ WF_proxyVars(Backward(c) /\ UNCHANGED managerVars)
       /\ WF_proxyVars(fwd[c] = "done" /\ DestinationEnds(c)
                         /\ UNCHANGED managerVars)

FairProxySpec == ProxySpec /\ ProxyFairness

-----------------------------------------------------------------------------

\* No connect is left without the handler that awaits it, and none is asked
\* of arti twice: a handler has returned only when its connect has.
ConnectHasItsHandler ==
  \A c \in Conns :
    /\ at[c] \in {"waiting", "driving", "opening"} => pc[c] = "connecting"
    /\ at[c] = "none" <=> c \notin Dialled

\* What the client is told is what became of its connect: success only after
\* Tor has bootstrapped and opened its stream, failure only if it did not
\* (tor.rs, connect; server.rs, "fail closed").
RepliesFollowTor ==
  \A c \in Conns :
    /\ "rep_ok" \in Range(out[c]) => booted /\ at[c] = "ok"
    /\ "rep_fail" \in Range(out[c]) => at[c] = "failed"

\* What SocksServer assumes of arti follows from this alone, that the attempts
\* CONNECTs make to bootstrap end: whether Tor is up, is coming up, has timed
\* out or cannot come up, the handler gets its answer.
ArtiAnswers ==
  Manager!AttemptsEnd =>
    \A c \in Conns : pc[c] = "connecting" ~> pc[c] # "connecting"

\* So a client that leaves at whatever stage, its CONNECT queued behind the
\* bootstrap included, is released all the same.
LeaverIsReleased == Manager!AttemptsEnd => GoneClientIsReleased
=============================================================================
