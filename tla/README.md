# A verification development of tord

tord is a SOCKS5 proxy whose only way out is Tor. It is one process and one
thread: a current-thread tokio runtime with a `LocalSet`, on which the accept
loop, one task per client connection, the Tor client (arti) and the control
socket take turns. Nothing runs in parallel, so the grain of the models is the
stretch of code between two `await`s; everything that can go wrong goes wrong
between such stretches, in what clients, Tor, signals and other processes do
meanwhile, and in the ways a handler can end.

All source paths below are under `src/src/`.

## 1. Inventory

| Component | State | Operations | Talks to |
|---|---|---|---|
| SOCKS5 server (`socks/server.rs`) | per connection: the await it is at, the username, the Tor stream, the stream handle | accept loop with back-off; greeting, RFC 1929, request, target, connect, reply, splice | registry, metrics, Tor manager, meter |
| Byte meter (`socks/metered.rs`) | none of its own | `poll_read` / `poll_write` count into the totals and the row | metrics, registry row |
| Stream registry (`streams.rs`) | id -> row, next id | `register`, `Drop` of the handle; `len`, `snapshot` read | server, meter, control socket |
| Metrics (`metrics.rs`) | five counters | increments; `snapshot` | server, meter, control socket |
| Tor manager (`tor.rs`) | arti client, isolation policy, username -> token | `connect`, `isolation_token`, `bootstrap` with a timeout, `bootstrap_status` | server, background task, poller |
| Status cell (`tor.rs`, `BootstrapState`) | ready, per-mille, blocked | `store` by the poller every 2 s, `snapshot` by `status` | poller, control socket |
| Daemon (`main.rs`) | config, signal handlers, the two listeners | gate, start-up, `select!`, exit | all |
| Control socket (`control.rs`) | the listener at a path | `serve`, `handle`, `dispatch`, the `query` client | registry, metrics, status cell, SIGHUP |
| Configuration (`config.rs`) | | `load` | daemon |
| Query output (`format.rs`) | | pure rendering | `tord query` |
| Runtime glue (`runtime/`) | | sockets of VCL or tokio as arti's transport | arti |

What is hard, and what makes each part right:

* **Server.** A handler has a dozen ways to end, and each must leave the shared
  state right: the row gone, the CONNECT counted, the Tor stream dropped. Bytes
  the client sends early must not be lost between the exact reads of the
  handshake and the splice. Success may only be said with a Tor stream behind
  it. A client that goes away while Tor is connecting is noticed late, but must
  be noticed.
* **Registry, meter, metrics.** The live view must match the handlers, with
  totals that are right even when a copy ends with an error.
* **Isolation.** One token per username for the life of the process, whatever
  the order of CONNECTs; never one token for two usernames.
* **Bootstrap.** The timeout of the background task, CONNECTs that bootstrap on
  demand, and arti's one attempt at a time overlap in every way; the operator
  reads a copy of the status that is always a little old.
* **Daemon.** A daemon may crash at any point and be started again, or beside
  one that runs; signals arrive before their handlers; either listener may fail.
* **Queries.** A query comes between any two polls of the handlers, and reads
  counters, rows and status that go on changing while it waits for its line and
  while its reply is written. A control client may be silent, garbled or gone.
* **Query output.** Figures change their units as they grow, widths are measured
  in bytes and padded in characters, and `status` means two things.

The hazards, each at its line, with the properties that answer to them, are
listed in `PROJECT.json`.

## 2. Modules

```
 Socks5Contract  StreamRegistry  TorIsolation    TorBootstrap      Daemon
        ^ refines     ^ used, refines  ^ used         ^ used          |
        +---------SocksServer----------+              |           DaemonProofs
                 ^         ^                          |
    EXTENDS      |         +------ ProxyOverTor ------+--- TorBootstrapProofs
                 |                      |
           ControlSocket        ProxyOverTorProofs
                 |
        ControlSocketProofs        HumanUnits <- QueryFormat <- QueryFormatProofs

 SocksServerProofs <- SocksServerCountProofs -> FiniteFacts <- QueryFormatProofs
```

`MCSocksServer`, `MCControlSocket`, `MCProxyOverTor` and `MCQueryFormat` hold the
instances for TLC: scripts of clients, replies, and the order and length of keys.

**StreamRegistry** (`streams.rs`, counting of `metered.rs`). The map and the id
counter; one operator per method. It is a specification too: how the registry
may be used (`RegistryUsedWell`).

**TorIsolation** (`tor.rs`, `isolation_token`). Tokens are numbers, minted in
order; `isolation_token` is what a call returns and `ResolveToken` what it
leaves behind.

**Socks5Contract**. The abstract specification of one client's conversation:
the order of the replies, success only over a Tor stream, payload only after
success, nothing after a refusal.

**SocksServer** (`socks/server.rs`, `metered.rs`, `metrics.rs`, with the two
above). `pc[c]` is the await a handler is at, and each action runs from one
await to the next:

| `handle` | Actions |
|---|---|
| accept loop | `Accept`, `AcceptFails`, `BackoffEnds` |
| greeting, RFC 1929, request | `Greeting`, `Auth`, `Request`, `ReadFails` |
| target | `TargetFails`, `Dial` (counter, register and token resolution in one step, as there is no await between them) |
| `connect().await` | `TorOpens`, `TorRefuses` |
| the reply | `Confirm`, `ConfirmFails`, `FailClosed` |
| `copy_bidirectional` | `TakeFromClient`, `GiveToTor`, `ShutTor`; `TakeFromTor`, `WriteToClient`, `ShutClient`; `SpliceEnds`, `SpliceFails` |
| drop of the locals | `Return`, part of every action that ends a registered handler |

The client (`ClientSends`, `ClientFin`, `ClientResets`) and the destination
(`DestinationSends`, `DestinationEnds`, `CircuitFails`) are external and may act
at any time. A client's bytes are a script of protocol items, one for each
stage of the handler; an item of the wrong kind stands for bytes that do not
parse. Payload is counted in chunks.

**TorBootstrap** (`tor.rs`, two tasks of `main.rs`). `at[p]` says where each
caller of arti's bootstrap is, the background task and the CONNECTs alike;
`cell` is `BootstrapState`. arti is external: one attempt at a time, a dropped
attempt is ended, an attempt need not end while the network is down. It is
assumed that a completed bootstrap stays completed and that arti's progress
does not fall back.

**Daemon** (`main.rs`, `serve` of `control.rs`, the gate of `config.rs`). Each
process passes the stages of `main` and `run`, the `select!` polls its branches
in any order, `remove_file` and `bind` are two steps, and every ending has its
name in `how`. Processes share the path, the SOCKS address and the config file.

**ProxyOverTor** (`handle`'s `connect().await`, `TorManager::connect`). The
composition of SocksServer and TorBootstrap: the CONNECTs of the one are the
handlers of the other. `DialTor` is a handler's `Dial` with arti's `Connect` in
the same poll, `ConnectResolves` its waking up with what arti made of it; the
other steps belong to one part and leave the other alone. It answers the question
SocksServer leaves open: that arti's answer comes, and is the client's own. The
status poller only reads, and is left out.

**ControlSocket** (`control.rs`: the loop of `serve`, `handle`, `dispatch`,
`query`; `len` and `snapshot` of `streams.rs`; `snapshot` of `metrics.rs`; the
SIGHUP task of `main.rs`). It extends SocksServer, and lets queries come between
any two of its steps:

| Code | Actions |
|---|---|
| `query`, or another client | `QueryTypes` (the command, then the newline), `QueryEnds` (half-close, or leave) |
| `serve`, `spawn_local` | `AcceptQuery` |
| `read_line` | `ReadLineFails`; otherwise `Dispatch`, which is `dispatch` whole and the start of the write |
| `write_all` and the return of `handle` | `WriteReply`, `WriteReplyFails` |
| poller, SIGHUP task, everything else | `PollStatus`, `LogSighup`, `Proxy` |

`asked` is a history variable: what the query would have been told at the moment
it was complete. `BootstrapState`, whose content is TorBootstrap's subject, is
the number of the poller's reading it holds.

**HumanUnits** and **QueryFormat** (`format.rs`). Pure functions: `human_bytes`
and `human_age` as the figures they show, in tenths of a unit and in time units;
`render` by the shape of the reply, with `collect_kv` and the layouts of both
views as the column each cell begins in. A text is its number of characters and
of bytes. The state machine around them is an operator who asks again and again
while the figures of the streams grow.

Each module also holds a few operators marked as faulty variants. They stand
before the definition they vary, are used by nothing, and record a plausible
mistake that one of the properties is known to catch.

## 3. Runs

| Run | Instance | Checks |
|---|---|---|
| `two` | 2 connections, 3 scripts, all isolation modes; 1.8 million states, under symmetry | `RegistryIsLiveView`, `ConnectsAccounted`, `BytesAccounted`, `IsolationRespected`, `TypeOK` |
| `one` | 1 connection, 11 scripts with every malformed conversation, 3 chunks each way, buffer of 2 | `NoPayloadLost`, `ContractHolds`, `RegistryUsedWell`, `TypeOK` |
| `live` | 1 connection, a good and a malformed script, 2 failed accepts, `FairSpec` | `BacklogIsServed`, `GoneClientIsReleased`, `DialIsAnswered` |
| `bootstrap` | the task and 2 CONNECTs, 3 steps of progress, 1 outage, `FairSpec` | `StatusNeverAhead`, `StatusCatchesUp`, `BootstrapTaskEnds`, `TimeoutStrandsNobody`, `TypeOK` |
| `daemon` | 2 processes, 3 starts, `FairSpec` | `SoleDaemonReachable`, `StaleSocketNeverBlocks`, `ReloadNeverKills`, `SigtermEndsDaemon`, `TypeOK` |
| `replies` | 2 SOCKS connections, 1 query for `stats`, `streams` or `reload`; 2.3 million states, under symmetry | `StatsAddUp`, `RepliesAreCurrent`, `StreamsReplyIsWhole` |
| `queries` | 2 queries, a garbled command, 1 reading of the status, an idle connection; `MCFairSpec`; 178 000 states | `ControlTypeOK`, `RepliesAreCurrent`, `QueryIsAnswered` |
| `proxy` | the background task and 2 CONNECTs, network up or down at the start; `MCSpec`, with `ProxyFairness`; 107 000 states | `ConnectHasItsHandler`, `RepliesFollowTor`, `ArtiAnswers`, `LeaverIsReleased` |
| `format` | objects of two levels over four keys, tables of no, one and two rows, figures up to 5000; 184 000 states | `FiguresAreTrue`, `FiguresNeverFall`, `RepliesToldApart`, `ColumnsAligned`, `ValuesAligned` |
| `failfast`, `serves`, `path` | smallest instances | one stated promise each, which the code does not keep (section 6) |

Bounds and why they suffice. *Connections*: handlers meet only in the registry,
the counters and the isolation map, each touched by one or two of them at a
time, so two interleave in every way; the proofs then cover any number.
*Chunks and buffers*: `MaxDown`, the data items of a script and `BufCap` let the
buffer be empty, part full and full while data is outstanding and at end of
file. *Accept errors*: two, so that one strikes while another is recovered
from; they play no part in `two`, where they only delay. *Progress*: three
steps, so that per-mille does not divide evenly. *Outages*: one, besides the
network being down at the start. *Starts*: three, so that there is a crash, a
restart and a second instance at once.

*Queries*: they share nothing but what they read, and one reads at every point
of two handlers (`replies`); two are there where one might hold up the other
(`queries`). `replies` and `queries` leave payload out, so byte counters are zero
there: `dispatch` reads all five counters alike, and the theorems of section 4
cover them. *Isolation* is held at `shared` in the composed runs, where it plays
no part. *Connects over Tor*: two beside the background task, so that one holds
arti's attempt while another waits and the timeout strikes; outages in midstream
are `bootstrap`'s. *Units*: 8 instead of 1024, so that a figure goes through all
five units below `MaxFigure`; 5000 also takes an age past its hour. Counts
above 2^53, which f64 does not hold exactly, are not covered. Among the
key/value replies the text `-` is left out: it is printed as an absent value is.

Deadlock is not checked: connections all closed, or a daemon that is down, are
proper ends.

**Fairness.** `SocksServer`: a woken task is polled (tokio), the 50 ms timer goes
off, the accept loop goes on; arti answers a connect; a destination ends a
stream whose client has ended; a client reads what is written to it. The last
three are assumptions about others, and needed: `handle` has no timeout at any
stage. No client is assumed to send, finish or leave. `TorBootstrap`: the timeout
and the poller's timer go off, arti lets its next waiter in, and a stream being
opened opens or fails. That attempts to bootstrap end is *not* assumed; it is
the premise of `TimeoutStrandsNobody` alone. `Daemon`: a process goes on with its
own code. Signals, crashes and failures are never assumed to happen.
`ProxyOverTor`: as its two parts, but that arti answers a connect is no longer
assumed; what is left is that a handler whose connect is over wakes up. `ArtiAnswers` and
`LeaverIsReleased` have one premise, that attempts to bootstrap end.
`ControlSocket`: the accept loop and the woken tasks go on, and a query that has
asked reads its reply, as `tord query` does; that a client ever ends its line is
not assumed, nor anything of the proxy.

## 4. Proofs

Checked by TLAPS for every value of the constants under each module's named
assumption (`ServerAssumption`, `BootstrapAssumption`, `DaemonAssumption`,
`ProxyAssumption`, `ControlAssumption`, `UnitsAssumption`), which only say that
the sentinels are distinct, the connections finitely many and the bounds numbers.
`QueryFormat` has four more, about what it is given; TLC evaluates them for
`MCQueryFormat`:

* `RepliesAssumption`: a reply is an object or garbage, and what the daemon lists
  under `streams` are typed rows (`StreamSnapshot`);
* `ValuesAssumption`: a JSON value is a finite tree, that is, each of its fields
  is less deep than itself. How deep a value may be is left open;
* `KeysAssumption`: the keys have an order, each one place in it, and lengths;
* `ScalarsAssumption`: under one key no two scalars print alike. The keys of
  `dispatch`'s replies are of one type each; the one that may be null, `blocked`,
  has a reason else, and `scalar` prints null as `-`, which no reason is.

What is proved, module by module:

* `FiniteFacts`: what the others need of finite sets and numbers. The library's
  induction theorems take an operator as a parameter and cannot be cited, so
  every induction here is a least counterexample: `LeastNat` (from the
  well-foundedness of strict inclusion, on the sets `1 .. n`) and
  `SmallestSubset`. From them: a sum over a finite set exists, does not depend on
  the order of adding (`SumWithout`) and moves as its terms do (`SumOfBumped`); a
  finite set of numbers has a maximum (`MaxIsGreatest`); each element of a finite
  set of numbers has a place of its own in their order, and every place is filled
  (`PlacesDiffer`, `PlacesAreFilled`).
* `SocksServerProofs`:
  * `TypeCorrect`. `TypeOK` is inductive as it stands; it includes that reading
    never passes what was sent and that the buffers are bounded. The lemmas on
    the registry and the isolation map come first.
  * `RegistryCorrect`, `RegistryRefined`. `RegistryIsLiveView` is not inductive
    alone: a row starts at zero, so a handler must have copied nothing before it
    registers (`NothingCopiedBeforeSplice`), and a new id must be above all ids
    in use (`TypeOK`). That no two handlers hold one row, so that one's return
    cannot drop another's, follows from the peers in the rows (`HandlesDiffer`).
  * `IsolationCorrect`. The property compares the streams that exist; a stream
    yet to come is compared with a map and a counter. `TokensComeFromUsers` ties
    them: every token given out was minted, the map is injective and misses the
    default token, and each stream's token is the one its mode prescribes.
  * `ContractRefined`. The refinement needs `StreamHeldFromAnswerToReturn`: from
    arti's answer to the return of the handler a Tor stream is held; then every
    step of the server is a step of the contract or a stutter.
* `SocksServerCountProofs`:
  * `ConnectsCounted`. The equation is not inductive alone: a stream dropped by
    its handler leaves the connection unconfirmed only if the client was not told
    of success, so one must know who was told. `ToldAtSplice` says that success is
    said on the way into the splice and nowhere before. Each action then moves one
    connection between the sets counted, and its counter by one. The lemmas
    `CountersGrow`, `UnconfirmedGrows` and `LiveIsDialled` serve the queries.
  * `BytesCounted`. `BytesAccounted` is inductive with `TypeOK`: no action but the
    meter's moves a count, and the meter moves the total and one connection's
    count together (`BytesMove`); the sums are `FiniteFacts`'.
  * `NoPayloadIsLost`, for scripts in which what follows a target is payload
    (`DataFollowsTarget`, which `MCSocksServer` has TLC evaluate). The invariant
    `Whole` follows a connection: the handshake takes no payload; in the splice
    the chunks taken are the payload items passed; a direction that is done had
    read all there was and all there will be, and kept nothing in its buffer.
* `DaemonProofs`: `DaemonTypeCorrect`, `SoleDaemonIsReachable`,
  `RestartNeverBlocked`, `ReloadIsSafe`. The path is safe for a daemon alone
  because nobody else is up between its `remove_file` and its `bind`
  (`Alone`, `PathKeptClear`).
* `TorBootstrapProofs`: `BootstrapTypeCorrect`, which says that the holder of
  arti's attempt is the one driving it, and `StatusIsHonest`, from the
  arithmetic of the per-mille cast.
* `ProxyOverTorProofs`: `ServerUnchanged` and `ManagerUnchanged`, that the
  composition is a SocksServer and a TorBootstrap, so that every theorem of
  either holds of it; `ConnectIsHandled` and `RepliesAreTrue`, from an invariant
  that ties where a handler is to where its connect is.
* `ControlSocketProofs`: `QueriesOnlyRead`, that a query is a stutter of the
  proxy; `ControlTypeCorrect`, `StatsAlwaysAddUp`, `RepliesAlwaysCurrent`. At the
  moment of `dispatch` the figures add up because of `ConnectsAccounted`, because
  the rows are as many as the live handlers (`RegistryIsLiveView`) and because a
  live handler's CONNECT is counted. Afterwards the reply is kept while the
  proxy moves on: `QueryInv` says that counters only grow, and that a client that
  left untold stays untold. `StreamsRepliesAreWhole`: at the moment of `snapshot`
  the table has every row once and in order (`SnapshotIsTable`). Afterwards rows
  come and go, and what keeps the reply whole is that an id is never handed out
  twice: all ids in use, asked about or shown are behind `next_id` (`IdsBehind`),
  so a row that is there now and was there when asked was there in between
  (`TableWhole`). `Sorted` is written out, as the place of each id, rather than
  taken from the library, whose sorting is defined by a choice among
  permutations that the provers cannot unfold.
* `QueryFormatProofs`: `FiguresAlwaysTrue`, `NoFigureFalls`,
  `ColumnsAlwaysAligned`, on the invariant that the terminal shows the last reply
  rendered (`ReplyShown`). Below it lies arithmetic. A count is scaled by the
  largest unit there is one of (`UnitFits`), and rounding to a tenth is off by
  half a tenth at the most and is monotone, ties included (`NearestIsNear`,
  `NearestGrows`). At a change of unit `BytesGrow` needs that the smaller unit
  shows 1024.0 at the most and the larger one 1.0 at least (`NearestStays`). The
  columns line up because a width is the most bytes and no text has more
  characters than bytes (`CellsFit`); so every line advances alike
  (`LinesAdvanceAlike`). The arithmetic is that of exact division: what f64 does
  above 2^53 is left out here too.

  `ValuesAlwaysAligned` and `RepliesAlwaysToldApart` are about the lines that
  `collect_kv` makes of an object nested to any depth. First its recursion has to
  end: for each depth there is one way to have the lines of all values no deeper
  (`FillsAgree`, `ShallowFilled`), and together they are those of all values
  (`KvLinesFilled`); the same for the joining of the blocks of lines that the keys
  of one object make (`JoinerExists`). Then every line of a nested object is
  further in than its header (`KvLinesType`), so that the lines at an object's own
  depth name its keys in their order, each once (`JoinedKeys`). That is why the
  blocks can be read off their concatenation (`BlocksAlike`) and, the depth
  falling, all fields with them (`NestedTell`). With `status` dropped below the
  top as well, `BlockTells` is false. Key/value lines are those of a first reply,
  as only a table makes the operator ask again (`FirstReply`). The text of a
  scalar is one line here; a `blocked` with a line break is not covered.

Model-checked only: all liveness, that arti answers and that the timeout strands
no CONNECT included. Liveness under fairness is outside the prover's reach. Every
other property of the passing runs has a theorem.

## 5. Not modelled

Bytes: messages are items, payload is chunks. Logging, the choice of log level
in `is_benign_disconnect` included. DNS (tord never resolves names). The runtime
glue (`runtime/`): adapters that pass every poll on to a VCL or tokio socket and
keep no state of their own; which source address goes with which family is one
assignment, the connect timeout exists on the VCL side only, and what is
connected, when and how often is arti's business. Parsing of the configuration,
which is serde's; `build_arti_config`, which only builds a value. The wording
of replies. What TCP does to a reply in flight when the socket is closed with
unread input
(`0x07` is sent with the target unread). The handler has no timeout before
`connect` and none in the splice: the models show what follows and promise
nothing more.

## 6. Where the code departs from what it says

* **CONNECTs do not fail fast** (`failfast`). `config.rs` calls
  `bootstrap_timeout_secs` the time "before CONNECTs start failing fast", and
  DESIGN.md wants consumers to fail closed "rather than queueing". The timeout
  ends the background task only; a later CONNECT starts a bootstrap of its own,
  with no bound.
* **One failed accept on the control socket stops the proxy** (`serves`).
  `main.rs` promises service until SIGTERM. `control::serve` leaves its loop at the
  first error, its future is a branch of `select!`, and the daemon exits with
  status 0 and drops every stream.
* **The control socket may be another daemon's** (`path`). "The daemon owns the
  path, so removing it is safe" holds only of a daemon alone; a second instance
  unlinks the live socket and may then die of the busy SOCKS address, leaving
  the first one running and unreachable.

## 7. Plan

Done: the modules of section 2, with the runs of section 3 and the theorems of
section 4.

What is left, in this order:

1. Daemon and ControlSocket together: queries in flight when the daemon ends.
2. A larger `proxy` run, with an outage in midstream and payload behind it.
