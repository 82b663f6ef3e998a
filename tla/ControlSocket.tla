---------------------------- MODULE ControlSocket ----------------------------
(***************************************************************************)
(* Queries over the control socket (src/src/control.rs) while the proxy of *)
(* SocksServer serves: each control connection has a task that reads one   *)
(* line, answers it from the counters, the registry (streams.rs, len and   *)
(* snapshot) or the bootstrap status, and closes.  A query may come        *)
(* between any two awaits of any handler; dispatch itself does not await.  *)
(*                                                                         *)
(* The clients are external.  `tord query` (control.rs, query) writes the  *)
(* command and the newline in two calls, before it is accepted if need be, *)
(* and then reads to the end; another client may stop after the command,   *)
(* send no newline, send bytes that are not UTF-8, or leave at any time.   *)
(*                                                                         *)
(* Abstracted.  BootstrapState, TorBootstrap's subject, is the number of   *)
(* the reading it holds.  Uptime, ages and the wording of replies are left *)
(* out.  That a failed accept ends the daemon is Daemon's subject.         *)
(***************************************************************************)
EXTENDS SocksServer

CONSTANTS
  Queries,          \* control connections
  Commands,         \* what they ask for; Garbled is a line that is not UTF-8
  LocalConns,       \* SOCKS clients that have no IP address (VCL cut-through)
  MaxReadings       \* bound: readings of the bootstrap status

ASSUME ControlAssumption ==
  /\ Commands \subseteq
       {"ping", "status", "stats", "streams", "reload", "unknown", Garbled}
  /\ LocalConns \subseteq Conns
  /\ MaxReadings \in Nat

VARIABLES
  \* the query's end
  command,      \* what it asks
  typed,        \* how much of it is written: "nothing", "word" or "line"
  hangup,       \* "no", "fin" (no more to come), or "gone" (nobody reads)
  received,     \* it has read a whole reply
  \* the daemon's end
  stage,        \* "backlog", "reading", "writing" or "closed"
  reply,        \* handle's reply, from dispatch to its return
  \* shared
  reading,      \* the last reading in BootstrapState
  sighup,       \* a SIGHUP is pending
  asked         \* history: the daemon when the query it serves was complete

queryVars == <<command, typed, hangup>>
controlVars == <<queryVars, received, stage, reply, reading, sighup, asked>>

NoReply == [kind |-> "none"]
NoView == [kind |-> "none"]

\* What a query could be told now.
View == [metrics |-> metrics, ids |-> DOMAIN rows, next_id |-> next_id,
         reading |-> reading]

ControlInit ==
  /\ Init
  /\ command \in [Queries -> Commands]
  /\ typed = [q \in Queries |-> "nothing"]
  /\ hangup = [q \in Queries |-> "no"]
  /\ received = [q \in Queries |-> FALSE]
  /\ stage = [q \in Queries |-> "backlog"]
  /\ reply = [q \in Queries |-> NoReply]
  /\ reading = 0
  /\ sighup = FALSE
  /\ asked = [q \in Queries |-> NoView]

-----------------------------------------------------------------------------
(* The query, external: connected from the start, and accepted when the    *)
(* daemon gets to it.                                                      *)

QueryEnd == UNCHANGED <<vars, command, received, stage, reply, reading, sighup>>

Complete(q) == typed[q] = "line" \/ hangup[q] # "no"

QueryTypes(q) ==
  /\ stage[q] # "closed" /\ ~ Complete(q)
  /\ \/ /\ typed[q] = "nothing"
        /\ typed' = [typed EXCEPT ![q] = "word"]
        /\ UNCHANGED asked
     \/ /\ typed[q] = "word"
        /\ typed' = [typed EXCEPT ![q] = "line"]
        /\ asked' = [asked EXCEPT ![q] = View]
  /\ UNCHANGED hangup
  /\ QueryEnd

QueryEnds(q) ==
  /\ stage[q] # "closed" /\ hangup[q] # "gone"
  /\ \E end \in {"fin", "gone"} \ {hangup[q]} :
       hangup' = [hangup EXCEPT ![q] = end]
  /\ asked' = IF Complete(q) THEN asked ELSE [asked EXCEPT ![q] = View]
  /\ UNCHANGED typed
  /\ QueryEnd

-----------------------------------------------------------------------------
(* serve and handle. *)

ControlOnly == UNCHANGED <<vars, queryVars, reading>>

\* handle returns, and closes the connection.
Returns(q) ==
  /\ stage' = [stage EXCEPT ![q] = "closed"]
  /\ reply' = [reply EXCEPT ![q] = NoReply]
  /\ asked' = [asked EXCEPT ![q] = NoView]

\* Faulty variant: handle is awaited in the accept loop and not spawned.
AcceptQueryInTurn(q) ==
  /\ stage[q] = "backlog" /\ \A p \in Queries : stage[p] # "reading"
  /\ stage' = [stage EXCEPT ![q] = "reading"]
  /\ UNCHANGED <<received, reply, sighup, asked>>
  /\ ControlOnly

AcceptQuery(q) ==
  /\ stage[q] = "backlog"
  /\ stage' = [stage EXCEPT ![q] = "reading"]
  /\ UNCHANGED <<received, reply, sighup, asked>>
  /\ ControlOnly

\* read_line has its line, or all there will be of it.
HasLine(q) == stage[q] = "reading" /\ Complete(q)

Unreadable(q) == command[q] = Garbled /\ typed[q] # "nothing"

\* read_line fails, and `?` ends the task without a reply.
ReadLineFails(q) ==
  /\ HasLine(q) /\ Unreadable(q)
  /\ Returns(q)
  /\ UNCHANGED <<received, sighup>>
  /\ ControlOnly

\* sort_by_key: the ids in ascending order, each at the place that the smaller
\* ones leave it.
Sorted(ids) ==
  [i \in 1 .. Cardinality(ids) |->
     CHOOSE id \in ids : Cardinality({smaller \in ids : smaller < id}) = i - 1]

\* A row as it is shown, the unspecified peer as `local`.
StreamSnapshot(id) ==
  [id |-> id,
   peer |-> IF rows[id].peer \in LocalConns THEN "local" ELSE rows[id].peer,
   target |-> rows[id].target, isolation |-> rows[id].isolation,
   to_upstream |-> rows[id].to_upstream, to_client |-> rows[id].to_client]

\* Faulty variant: connections that have carried nothing yet are left out.
SnapshotOfBusy ==
  LET ids == Sorted({id \in DOMAIN rows : rows[id].to_upstream > 0})
  IN  [i \in DOMAIN ids |-> StreamSnapshot(ids[i])]

\* StreamRegistry::snapshot: the rows in order of id.
snapshot ==
  LET ids == Sorted(DOMAIN rows)
  IN  [i \in DOMAIN ids |-> StreamSnapshot(ids[i])]

\* Faulty variant: `streams_active` is kept beside the counters, which are
\* read ahead of an await.
StatsReplyInTwo(q) ==
  [kind |-> "stats", metrics |-> asked[q].metrics,
   streams_active |-> Cardinality(DOMAIN rows)]

\* Metrics::snapshot with the row count.
StatsReply(q) ==
  [kind |-> "stats", metrics |-> metrics,
   streams_active |-> Cardinality(DOMAIN rows)]

\* dispatch: the word as it stands, with or without its newline; an empty
\* line is an unknown command.
Answered(q) ==
  LET word == IF typed[q] = "nothing" THEN "unknown" ELSE command[q]
  IN  CASE word = "ping" -> [kind |-> "pong"]
        [] word = "status" -> [kind |-> "status", reading |-> reading]
        [] word = "stats" -> StatsReply(q)
        [] word = "streams" -> [kind |-> "streams", rows |-> snapshot]
        [] word = "reload" -> [kind |-> "reload"]
        [] word = "unknown" -> [kind |-> "error"]

\* Faulty variant: the counters are read with swap(0).
DispatchResetting(q) ==
  /\ HasLine(q) /\ ~ Unreadable(q)
  /\ reply' = [reply EXCEPT ![q] = Answered(q)]
  /\ metrics' = [f \in DOMAIN metrics |-> 0]
  /\ stage' = [stage EXCEPT ![q] = "writing"]
  /\ UNCHANGED <<clientVars, taskVars, spliceVars, torVars, registryVars,
                 isolationVars, acceptVars, queryVars, received, reading,
                 sighup, asked>>

\* The line is dispatched, and the writing of the reply begins.
Dispatch(q) ==
  /\ HasLine(q) /\ ~ Unreadable(q)
  /\ reply' = [reply EXCEPT ![q] = Answered(q)]
  /\ sighup' = (sighup \/ reply'[q].kind = "reload")
  /\ stage' = [stage EXCEPT ![q] = "writing"]
  /\ UNCHANGED <<received, asked>>
  /\ ControlOnly

\* Faulty variant: the connection is kept for the next command.
WriteReplyKeepsOpen(q) ==
  /\ stage[q] = "writing" /\ hangup[q] # "gone"
  /\ received' = [received EXCEPT ![q] = TRUE]
  /\ stage' = [stage EXCEPT ![q] = "reading"]
  /\ UNCHANGED <<reply, sighup, asked>>
  /\ ControlOnly

\* write_all, as fast as the query reads; then handle returns.
WriteReply(q) ==
  /\ stage[q] = "writing" /\ hangup[q] # "gone"
  /\ received' = [received EXCEPT ![q] = TRUE]
  /\ Returns(q)
  /\ UNCHANGED sighup
  /\ ControlOnly

WriteReplyFails(q) ==
  /\ stage[q] = "writing" /\ hangup[q] = "gone"
  /\ Returns(q)
  /\ UNCHANGED <<received, sighup>>
  /\ ControlOnly

-----------------------------------------------------------------------------
(* What else goes on in the daemon. *)

\* Faulty variant: the cell is cleared when arti has nothing to report.
PollStatusClearing ==
  /\ reading < MaxReadings \/ reading > 0
  /\ reading' \in {0, reading + 1} \cap 0 .. MaxReadings
  /\ UNCHANGED <<vars, queryVars, received, stage, reply, sighup, asked>>

\* The poller's turn (main.rs).
PollStatus ==
  /\ reading < MaxReadings
  /\ reading' = reading + 1
  /\ UNCHANGED <<vars, queryVars, received, stage, reply, sighup, asked>>

\* The task of main.rs that waits for SIGHUP logs it.
LogSighup ==
  /\ sighup
  /\ sighup' = FALSE
  /\ UNCHANGED <<vars, queryVars, received, stage, reply, reading, asked>>

Proxy == Next /\ UNCHANGED controlVars

-----------------------------------------------------------------------------

Query(q) == QueryTypes(q) \/ QueryEnds(q)

Serve(q) ==
  ReadLineFails(q) \/ Dispatch(q) \/ WriteReply(q) \/ WriteReplyFails(q)

ControlNext ==
  \/ \E q \in Queries : Query(q) \/ AcceptQuery(q) \/ Serve(q)
  \/ PollStatus
  \/ LogSighup
  \/ Proxy

allVars == <<vars, controlVars>>

ControlSpec == ControlInit /\ [][ControlNext]_allVars

(***************************************************************************)
(* Fairness: the accept loop and the woken tasks go on, and a query that   *)
(* has asked reads what it is told, as `tord query` does.  That it ever    *)
(* ends its line is not assumed, nor anything of the proxy.                *)
(***************************************************************************)
ControlFairness ==
  \A q \in Queries : WF_allVars(AcceptQuery(q)) /\ WF_allVars(Serve(q))

FairControlSpec == ControlSpec /\ ControlFairness

-----------------------------------------------------------------------------

ReplyKinds == {"none", "pong", "status", "stats", "streams", "reload", "error"}

\* Every variable keeps its type; there is one reply to a connection, made
\* once the query is complete and received at most when it is closed.
ControlTypeOK ==
  /\ command \in [Queries -> Commands]
  /\ typed \in [Queries -> {"nothing", "word", "line"}]
  /\ hangup \in [Queries -> {"no", "fin", "gone"}]
  /\ received \in [Queries -> BOOLEAN]
  /\ stage \in [Queries -> {"backlog", "reading", "writing", "closed"}]
  /\ reading \in 0 .. MaxReadings
  /\ sighup \in BOOLEAN
  /\ \A q \in Queries :
       /\ reply[q].kind \in ReplyKinds
       /\ reply[q] # NoReply <=> stage[q] = "writing"
       /\ asked[q] # NoView <=> Complete(q) /\ stage[q] # "closed"
       /\ stage[q] \in {"writing", "closed"} => Complete(q)
       /\ received[q] => stage[q] = "closed"

\* What `stats` shows at one time fits together, however the handlers and the
\* reply interleave: a connect that is counted and has neither succeeded nor
\* failed is among the active streams, unless its client left before it could
\* be told, and no stream is active that was not counted (dispatch reads the
\* counters, then the registry, with no await between).
StatsAddUp ==
  \A q \in Queries : reply[q].kind = "stats" =>
    LET m == reply[q].metrics
        ended == m.connects_ok + m.connects_failed
        active == reply[q].streams_active
    IN  /\ ended <= m.connects_total
        /\ active <= m.connects_total
        /\ m.connects_total - ended <= active + Cardinality(Unconfirmed)

Reflects(then, now, m) ==
  \A f \in DOMAIN m : then[f] <= m[f] /\ m[f] <= now[f]

\* A reply is true of a moment after the question: none of its counts is older
\* than the question or ahead of what the process has counted by now, and its
\* status is no older than the poller's last turn before the question.
RepliesAreCurrent ==
  \A q \in Queries :
    /\ reply[q].kind = "stats" =>
         Reflects(asked[q].metrics, metrics, reply[q].metrics)
    /\ reply[q].kind = "status" =>
         reply[q].reading \in asked[q].reading .. reading

\* `streams` lists each connection once, in order of id: all that have lived
\* since before the question, and none that was over by then
\* (StreamRegistry::snapshot).
StreamsReplyIsWhole ==
  \A q \in Queries : reply[q].kind = "streams" =>
    LET table == reply[q].rows
        ids == {table[i].id : i \in DOMAIN table}
    IN  /\ \A i, j \in DOMAIN table : i < j => table[i].id < table[j].id
        /\ asked[q].ids \cap DOMAIN rows \subseteq ids
        /\ ids \subseteq asked[q].ids
                           \cup (asked[q].next_id .. (next_id - 1))

\* A query that has ended its line is answered, whatever other queries do and
\* do not do, unless it has left; only a line that is not UTF-8 is dropped.
QueryIsAnswered ==
  \A q \in Queries :
    typed[q] = "line" ~> received[q] \/ hangup[q] = "gone" \/ command[q] = Garbled
=============================================================================
