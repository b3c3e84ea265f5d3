# TLA+ verification of kad-monitor

kad-monitor runs DHT lookups under strict resource budgets and shows the budgets
on a live dashboard. The lookups pass three token pools (Layers A, B and C), a
walk worker and a load generator keep them busy, and a broadcaster sends
snapshots to the dashboards and to a history on disk.

Everything runs in one process on one trio event loop. Tasks interleave only at
checkpoints (an `await` that may yield), and a task may be cancelled at any of
them and nowhere else. So **one action of a module is what one task does between
two checkpoints**, and cancellation is an action that marks the task, followed by
an action in which the event loop raises `Cancelled` in it. There are no threads
and no data races. What is hard is the order of the checkpoints, cancellation,
reloads of the caps under load, and nested waits.

All paths below are relative to the repository's sources (`src/`).

## 1. Inventory

### Query coordinator (Layers A and B): `src/coordinator.py`
- State: the limiters `_query_limiter` (A) and `_rw_limiter` (B), created by
  `_bootstrap` on first use; `_live`; the counters `_total`, `_success`,
  `_failed`, `_timed_out`, `_cancelled`; `_peak_concurrent`; `_history`; the
  completion window of the throughput figure.
- Operations: `find_peer` (with `_run_with_capacity`, `_execute`, `_record`),
  `reconfigure`, `snapshot`.
- Interacts with: the `query_fn` of its caller, `on_snapshot`, every task below.
- Hard: a walk holds a token of B while it waits for A; `find_peer` swallows
  `Cancelled` and makes a result of it; the caps change while tokens are out and
  tasks are parked; a deadline races the answer and the caller's cancellation.
- Correct means: no token leaks, no slot idles while somebody waits, admissions
  keep the cap, nobody overtakes, walks leave the users their share, and every
  call is counted under one outcome.

### Stream manager (Layer C): `src/stream_manager.py`
- State: `_limiter`, `_open_streams`, `_closed_streams`, four counters,
  `_peak_open`.
- Operations: `open_stream` (an async context manager with a time limit),
  `reconfigure`, `snapshot`.
- Hard: the slot and the entry of the open table must go together at every exit;
  the manager's own `move_on_after` swallows a cancellation.
- Correct means: the slot is always released, and the counters agree with the
  open streams.

### Lookup pipeline: the `query_fn` in `src/workers.py`, `api/app.py`, `src/experiment.py`
- No state of its own: `find_peer` around `open_stream` around `network.query`.
- Hard: two time limits race inside two nested pools (three for a walk); the
  three caps are reloaded independently by `POST /api/config`.
- Correct means: no deadlock, every lookup returns, the two components tell the
  same story about it.

### `trio.CapacityLimiter` (external)
- State: the cap, the borrowers, the parked tasks in order.
- Behaviour used: `async with`, assignment to `total_tokens`, cancellation while
  parked.

### Snapshot broadcast: `src/workers.py`, `main.py`, `api/app.py`
- State: the bounded channel, the broadcaster's round, `connected_ws`.
- Operations: `metrics_broadcaster` (a tick: offer and store), `on_snapshot`
  (offer), `_ws_broadcaster` (one send after another), `websocket_endpoint`
  (join, greet, leave).
- Hard: the roster changes while a send is awaited; the channel is full; a client
  stalls; a greeting overtakes queued snapshots.
- Correct means: the roster is right, frames arrive in order, nobody is skipped,
  the history misses no tick.

### Snapshot history: `src/history.py`
- State: rows in SQLite (durable), `_last_prune` (in memory).
- Operations: the constructor, `append` with its prune, `query` with its
  downsampling.
- Hard: crash between two commits, a failing `DELETE`, a restart forgets the
  prune clock, floor division in the stride.
- Correct means: nothing is deleted early, nothing stays much too long, a chart
  gets an even sample.

### Simulated DHT: `src/dht_simulation.py`
- State: `_nodes` with routing tables, `_boot_node`, scenario settings.
- Operations: `query`, `toggle_node`, `remove_peer`, `add_peer`, `set_scenario`.
- Hard: a lookup sleeps with a node in hand while the network is changed.
- Correct means: lookups stay within budget, go in no circles, and end with the
  network they began in.

### Walk worker and load generator: `src/workers.py`
- State: the worker's loop; the shared dict `load_gen`, the stamps of the last
  window.
- Operations: both loops, `POST /api/loadgen`.
- Hard: which nursery a task belongs to decides who waits for whom; settings are
  changed during a sleep.
- Correct means: the load is open-loop, walks go on for ever, one at a time, and
  a load that is switched off drains.

### Experiment runner: `src/experiment.py`
- State: per arm: a coordinator, two nested nurseries, the sampler's peaks.
- Operations: `run_arm` (fire, sample, drain, report), `run_experiment`.
- Hard: the drain after the firing, the sampler between any two steps.
- Correct means: every query fired is in the report, the peaks keep the cap, the
  arm ends.

### libp2p node: `src/libp2p_node.py`, under `run_server` of `main.py`
- State: `_started`, the host's context, the nursery of the DHT service, the
  resource manager, the table `_subscriptions`.
- Operations: `start` (with `_setup_pubsub`, `_bootstrap`), `stop`, `subscribe`,
  `unsubscribe`, `publish`, the DHT calls, `connect_peer`; `RealDHTNetwork.query`.
- Interacts with: py-libp2p (external), the routes of `api/app.py`, the service
  nursery, Ctrl-C.
- Hard: `subscribe` and `unsubscribe` test the table, await, and write it; each of
  the steps of `stop` may fail or be interrupted; requests are in flight when the
  service ends.
- Correct means: table and router agree, nothing is used after it was closed, `stop`
  leaves nothing open, and the process ends.

### Not modelled, or only in part
| Component | Source | Why |
|---|---|---|
| Command line, wiring | `main.py` | `run_server` is modelled in `Libp2pNode` and `Telemetry`. Argument parsing is not: the values it passes are constants. |
| Read-only routes | `api/app.py` | They keep and change no state. |
| py-libp2p | | External: `Libp2pNode` models what the node relies on. |
| Dashboard page | `static/index.html` | Presentation only. |

`PROJECT.json` lists every component with its status and every hazard at its line.

## 2. Modules

| Module | Models | Extends or instantiates |
|---|---|---|
| `CapacityLimiter` | the token pool of trio, as a value with `Acquire`, `Release`, `LeaveLot`, `SetTotal` | |
| `AdmissionControl` | abstract: what a caller relies on, a bounded set of admitted clients and no way past the bound | |
| `Coordinator` | Layers A and B, one action per stretch of `find_peer` between two checkpoints | `CapacityLimiter`; refines `AdmissionControl` |
| `StreamManager` | Layer C, as a component with a contract of its own (`StreamSpec`) | `CapacityLimiter` |
| `QueryPipeline` | B, A and C through `query_fn`, two time limits, `/api/config` | `Coordinator`, `INSTANCE StreamManager`; refines `StreamSpec` |
| `TimedQueries` | the coordinator with its time limit in ticks | `Coordinator` |
| `Workload` | walk worker, load generator, `/api/loadgen` | `TimedQueries` |
| `Metrics` | p50, p95, p99 of a snapshot | |
| `Experiment` | one arm: fire, sample, drain, report | `TimedQueries`, `Metrics` |
| `Telemetry` | channel, broadcaster, WebSocket endpoints | |
| `SnapshotHistory` | append, prune, crash, restart, query | |
| `DhtLookup` | one lookup, hop by hop, under churn | |
| `Libp2pNode` | the real node and the process around it, from start to stop | |
| `CoordinatorProofs`, `QueryPipelineProofs`, `WorkloadProofs`, `ExperimentProofs`, `TelemetryProofs`, `SnapshotHistoryProofs`, `DhtLookupProofs`, `Libp2pNodeProofs` | theorems | the module each is named after; the three that build on the coordinator also `CoordinatorProofs` |
| `MC*` | instances for TLC | |

How state and actions correspond to the code:

- **`Coordinator`**. `pc[q]` says what the task of call `q` waits for: a token of B
  (`"walk"`), of A (`"query"`), `query_fn` (`"run"`), or the event loop to raise
  `Cancelled` (`"abort"`). `FindPeer` is the code from the call to the first
  checkpoint; `WalkAdmitted` the step between the two `async with`; `Execute` up to
  `query_fn`; `QueryReturns`, `QueryRaises` and `Unwind` share `Finish`, which is
  everything from the end of `query_fn` to the end of `find_peer`: no checkpoint
  lies in it, since leaving a limiter does not yield. `Deadline` and `Cancel` only
  mark: a query may still return although it is already due to be cancelled.
  `query_fn` is open: it may return, raise, or stay for ever.
- **`CapacityLimiter`** hands a released token to the head of the queue at once, as
  trio does: the woken task *is* a borrower before it runs. That is why a task at
  `"query"` may be a borrower, and why a cancelled task may hold a token.
- **`StreamManager`** is written against a set `interrupted` of tasks with a
  cancelled scope around them. `StreamSpec` lets the set change as any caller might
  change it; `QueryPipeline` gives it as `cancelled \cup expired`, which is how the
  query's time limit and its caller reach the stream.
- **`QueryPipeline`** joins actions that have no checkpoint between them:
  `StartQuery` is `Execute` and `AskForSlot`; `StreamTimesOut` is the stream's
  timeout and, since `query_fn` then returns `None`, the `TypeError` of the unpacking.
  `allowed[q]` is the time limit the query got when it started; `outlasting` says
  whether the one its stream got, when that opened, may end first. `/api/config` may
  change both settings (`SetLimits`) between these two moments.
- **`Telemetry`** numbers snapshots by the order in which they are taken.
  `send_nowait` hands a snapshot to a waiting broadcaster directly (`Offer`). Of the
  contents it has the settings of the load generator: the snapshot holds the live
  dict, and `HandTo` makes a frame of it when a send starts.
- **`SnapshotHistory`**: a row is its timestamp. `Crash` may fall between the
  commit of the row and that of the prune.
- **`DhtLookup`**: an action runs from the end of one simulated hop to the beginning
  of the next. The distance `Dist` is a constant of which only one thing is assumed,
  that it tells the peers apart seen from any id; the instance for TLC gives it the
  XOR of the code. The real ids are hashes: that no two peers share one, and that no
  id is drawn again after a rebuild, is assumed.
- **`TimedQueries`** (used by `Workload` and `Experiment`): time passes only when no
  task can run. That is the autojump clock of the repository's tests, and a real
  clock when the work between two checkpoints takes no time. In these two modules
  the stream is part of the time the network takes; `QueryPipeline` has it in full.

- **`Libp2pNode`**: `main` says where `run_server` is: in `start` (`"host"`, `"settle"`,
  `"boot"`), in the wiring, serving, waiting for the cancelled nursery (`"drain"`), or
  in `stop` (`"leave"`, `"dht"`, `"close"`). A request is a `call` with a state of its
  own; a pubsub call takes effect (`Applied`) between its start and its return, and
  may fail before or after that. `joined` is what the router really takes part in,
  `subs` is the table. `Interrupt` is Ctrl-C; it is raised in the main task.

What is abstracted everywhere: peer names, result payloads, logging, latencies. A
cancelled call stays cancelled until it returns, and a call is made once.

## 3. Runs

Each line says what TLC explores, and why the bounds are wide enough to show it.

| Run | Instance | Shows |
|---|---|---|
| `coordinator` | two users, two walks, pools of 3 and 2, one reload of either or both caps within 1..4, one cancelled caller, a history of two | `SlotsMatchTasks`, `NoIdleCapacity`, `WalksCannotStarveUsers`, `EveryCallAccounted`; the action properties `AdmissionRespectsCaps` and `FirstComeFirstServed`; the refinement `ImplementsAdmission` |
| `pipeline_safety` | two users, two walks through pools of 3, 2 and 2, a reload of the query caps and one of the stream cap within 1..3, a cancelled caller, a stream limit below the query's | `StreamsWithinQueries`, `CountersAgree`, `UserShareOfStreams`, `StreamSlotsMatch` |
| `pipeline_live` | a user and two walks on 2, 1 and 1 tokens, a cancelled caller, a reload of the stream pool and one of the time limits, no stream's below any query's | `EveryLookupReturns`, `FailedOnlyByError` |
| `pipeline_contract` | two users and a walk, a reload that cuts both time limits and keeps the stream's the longer | **violation** of `FailedOnlyByError`, finding 1 |
| `telemetry` | two clients, a channel of two, four snapshots, one change of the settings, one append that raises | `RosterIsRight`, `FramesInOrder`, `HistoryMissesNoTick`, `NobodySkipped`, `SettingsNeverGoBack`, `OnlySilentClientStalls` |
| `history` | nine instants, retention 3, a prune every 2, one failing prune, any crashes | `ChartsAreFaithful`, `NoEarlyDeletion`, `PrunedOnTime` |
| `history_restarts` | retention 1, a prune every 1, any kills and restarts within nine ticks | **violation** of `RetentionKept`, finding 2 |
| `dht` | eight peers that know three others, three ids to look up, two that may be added, any two changes | `NoPeerTwice`, `BudgetHolds`, `AddedPeersStayUnknown`, `LookupsEndWithTheirNetwork` |
| `experiment` | up to four queries, one a tick, up to four ticks each, two slots | `ReportIsComplete`, `PeaksWithinCap`, `DrainIsBounded`, `LatencyFiguresAgree`, `ThroughputIsRecent`, `ArmEnds` |
| `experiment_drain` | the same arm | **violation** of `DrainWithinTimeout`, finding 3 |
| `workload` | two load queries and two walks at two slots, two requests to `/api/loadgen` | `LoopKeepsTime`, `OneWalkAtMost`, `SwitchOffDrains`, `WalksGoOn` |
| `node` | three requests, two topics, two bootstrap peers, Ctrl-C at any stage and any number of times | `TopicsAgree`, `NodeOutlivesRequests`, `NothingLeftOpen`, `ServiceEnds` |

On the bounds:

- *coordinator*: with caps in 1..4 and four queries every regime occurs: a pool that
  is full, one with room, one whose cap falls below the tokens that are out, one
  that grows while tasks are parked, and a walk cap that is reached before the query
  cap. Cancellation hits a task before it calls, parked in either queue, with a
  token it has not used yet, and running.
- *pipeline_safety*: four calls for two stream slots, so that a reload of Layer C finds
  the pool full and tasks parked, with either time limit first. The query caps go from
  (3, 2) to (3, 1) or (2, 1) while walks may hold more of Layer B than that, and the
  stream cap goes down to 1, below the walk cap: the premise of `UserShareOfStreams` is
  true in some states and false in others. The cfg takes `WithoutRecords` as its `VIEW`:
  states that differ only in the result history and the peak of running queries are
  explored once. No guard and no property of this run reads either, so nothing is lost;
  the run `coordinator` explores both in full.
- *pipeline_live*: pools of one token, so that a walk that holds B waits for A while
  a walk waits for B, and holders of A wait for C: every nested wait there is.
- *telemetry*: four snapshots fill the broadcaster's hand and the channel and drop
  one. Two clients are enough for one to leave while the other is served. A client is
  greeted behind as many as three older snapshots here, which is what the backlog clause
  of `FramesInOrder` allows; it would take a fifth snapshot, which is out of TLC's
  reach, to see that it is never more. That clause rests on the theorem
  `FramesAlwaysInOrder`.
- *history_restarts*: more overdue ticks than fit in two prune periods, so that one kill
  at a bad moment is not enough: the trace has two restarts and no prune.
- *history*: nine instants hold two prune periods after a restart, and more rows than
  `2 * MaxPoints`, where the downsampling stride changes.
- *dht*: `K = 3` of eight peers makes tables partial, `Alpha = 2` and `MaxHops = 3`
  let a lookup run over the budget inside a round. Two peers can be added, so that the
  second finds the first in the network.
- *experiment*: four queries at two slots leave two queued when the firing stops.
- *workload*: more load than slots and a network that may never answer. A time limit of
  three ticks lets a query outlast two firings of the loop.
- *node*: two requests race for a topic while a third changes the table; the second
  topic is there for `stop` to leave when the first fails. Two like calls at once,
  with an unlike one behind them, need all three requests. Ctrl-C needs no bound: where
  it does not end the process or the services, it changes nothing.

Bounds on counters that the code lets grow (`MaxReloads`, `MaxCancels`,
`MaxStreamReloads`, `MaxSnapshots`, `MaxUnstored`, `MaxTime`, `MaxFailures`,
`MaxChurn`, `MaxPosts`, `MaxLimitChanges`, `MaxClock`) are constants named as such and appear in the
guards of the actions that count. `SYMMETRY` is used in `coordinator` and
`pipeline_safety` only, where no property is about progress and the queries of one
kind are interchangeable. Deadlock is checked in every run; a module with an end
has an action for it (`Rest`, `PipeRest`, `ArmRest`, `Terminated`), enabled
only when every call has returned or the process is gone.

Every property has a mutant in `PROJECT.json`: an operator that stands beside the
definition it replaces, changed as a plausible bug would change the code, under
which TLC finds the property violated.

## 4. Fairness

- **The event loop runs every task that can run**: weak fairness of the resumptions
  of each task (`WalkAdmitted`, `Execute`, `Unwind`, `OpenStream`, `StartRound` ...).
  trio runs all runnable tasks in every pass of its scheduler.
- **A deadline passes in the end**: weak fairness of `QueryDeadline`, or of the
  clock's `Tick` in the timed modules.
- **Nothing is owed by the network**: no fairness on `QueryReturns`, `QueryRaises`,
  `NetworkReturns`, `BodyReturns`. `query_fn` may hang; the time limit is what ends it.
- **Nobody has to act**: no fairness on calls, reloads, cancellations, clients, or
  the controls.
- `telemetry` assumes in addition that **a send to a client that has gone raises in the
  end**. Of a client that is there nothing is assumed: it may never read its socket,
  and the code sets no limit to a send (`main.py:239`). `OnlySilentClientStalls` says
  that this is the only thing that can hold the broadcaster up.
- `node` assumes that **cancellation ends a request** (`Cancelled` is raised at its
  await) **and the DHT service**, and that **the router and the host answer `stop`**:
  these awaits have no time limit, nor a cancelled scope around them. Nothing is
  assumed of `start`, whose `connect` to a bootstrap peer may hang for ever.

## 5. Theorems

TLAPS checks these for every value of the constants that the assumptions of the
modules allow. Together they state every invariant and every action property that a
run checks. TLC evaluates the assumptions in each run. They say what the code and its
callers ensure: finite sets of calls or clients, positive caps, limits and intervals,
`max_random_walks < max_concurrent_queries` at the start. `Experiment` assumes in
addition that the queries are numbered in the order of their firing, and that an arm
makes no walks.

Each proof has the same three parts: an inductive invariant holds initially, every
action preserves it, it implies the property. What makes the invariants necessary is
said below.

### `CoordinatorProofs`

| Theorem | Statement |
|---|---|
| `TypeCorrect` | `Spec => []TypeOK` |
| `SlotSafety` | `Spec => []SlotsMatchTasks` |
| `NoLostWakeUp` | `Spec => []NoIdleCapacity` |
| `UsersKeepTheirShare` | `Spec => []WalksCannotStarveUsers` |
| `CapsRespected` | `Spec => AdmissionRespectsCaps` |
| `NobodyOvertakes` | `Spec => FirstComeFirstServed` |
| `AccountsBalance` | `Spec => []EveryCallAccounted` |
| `CoordinatorImplementsPool` | `Spec => ImplementsAdmission` |

`NoIdleCapacity` is not inductive by itself: whether a released token reaches
somebody depends on the queue holding each task once, on no parked task being a
borrower, and on which task may be where. The inductive invariant is

    IInv == CallTypes /\ Pools /\ WalkPoint /\ SlotsMatchTasks

`CallTypes` types the variables outside the pools. `Pools` says of each limiter that
it is `Consistent` (a queue without repetition, disjoint from the borrowers, both
drawn from the calls, and work-conserving) and that its cap is the one configured.
`WalkPoint` keeps users away from Layer B. `SlotsMatchTasks` ties tokens to program
points. The first section of the module shows once that each operation of a limiter
keeps `Consistent`, gives out no token beyond the cap and serves the head of the
queue; each step of the coordinator is then one lemma that reduces it to one
operation on each pool, and `IInv` is preserved action by action.
`WalksCannotStarveUsers` follows from `IInv` by counting: the pool is full, every walk
that holds a token of A holds one of B, and at most `maxWalks` do.

`EveryCallAccounted` needs to know that `_live` holds a query exactly while it is
served, which `Books` adds: then the two ends of a call move the counters and the
cardinality of `Serving` together. `CoordinatorImplementsPool` goes through the
actions again: a query that starts to run, a deadline and the cancellation of a query that
runs are stutters of the abstract pool, and the others are one abstract step each. A
token that one query gives back and the next gets in the same step is one `Finish` of the
pool; that it stays within the size is the lemma behind `CapsRespected`.

### `QueryPipelineProofs`

| Theorem | Statement |
|---|---|
| `CoordinatorInside` | `PipeSpec => Spec` |
| `PipelineImplementsStreams` | `PipeSpec => ImplementsStreams` |
| `SlotsReleased` | `PipeSpec => []StreamSlotsMatch` |
| `StreamsNest` | `PipeSpec => []StreamsWithinQueries` |
| `OneStoryInTheCounters` | `PipeSpec => []CountersAgree` |
| `UsersKeepTheirStreams` | `PipeSpec => []UserShareOfStreams` |
| `OnlyErrorsFail` | `StreamsOutlast` implies `PipeSpec => []FailedOnlyByError` |

`CoordinatorInside` makes `IInv` and the theorems about the coordinator hold of the
pipeline. The inductive invariant adds to it the limiter of Layer C and what relates
the two components:

    PipeInv == IInv /\ StreamInv /\ Nested /\ Tally

`StreamInv` is for Layer C what `Pools` and `SlotsMatchTasks` are for A and B.
`Nested` ties the point of a task in the coordinator to its point in the stream;
without it, cancelling a task could take it out of two queues at once. `Tally` ties
the counters to the open streams. `PipelineImplementsStreams` is proved step by step:
the set `interrupted` of the contract is `cancelled \cup expired`, and the end of a
query takes its scopes away with it.

`OnlyErrorsFail` is the counterpart of finding 1. `StreamsOutlast` says that no stream
limit that `/api/config` may ever set is below any query limit it may ever set. Then
whichever stream opens outlasts its query (`LimitInv`), its own deadline never fires
first, and every `FAILED` query is one whose network call raised. It is enough for
every number of queries and reloads; `pipeline_contract` shows that it is not enough
to keep each *pair* of limits in order.

### `WorkloadProofs`

| Theorem | Statement |
|---|---|
| `ServiceUnderLoad` | `WorkloadSpec => Spec` |
| `OpenLoop` | `WorkloadSpec => []LoopKeepsTime` |
| `WalksStayApart` | `WorkloadSpec => []OneWalkAtMost` |

    WorkloadInv == IInv /\ WalkerInv /\ PaceInv

`WalkerInv` says that the worker knows of every walk in flight: a walk is started when
none is, and let go of only when it is over. That users then wait only while all slots but
one are theirs follows as in `UsersKeepTheirShare`, with one for the walks. `PaceInv` splits a pause into
what has passed and what is left of it, since the setting it was taken from may have
changed meanwhile.

### `ExperimentProofs`

| Theorem | Statement |
|---|---|
| `ArmUsesCoordinator` | `ArmSpec => Spec` |
| `PeaksNeverExceed` | `ArmSpec => []PeaksWithinCap` |
| `ReportCoversAll` | `ArmSpec => []ReportIsComplete` |
| `DrainStaysBounded` | `ArmSpec => []DrainIsBounded` |
| `ThroughputStaysRecent` | `ArmSpec => []ThroughputIsRecent` |
| `FiguresAgree` | `ArmSpec => []LatencyFiguresAgree` |

    ArmInv == IInv /\ Books /\ CallsInv /\ FiringInv /\ SamplesInv /\ WindowInv /\ DrainInv

`CallsInv` says how an arm uses the coordinator, with one cap for good and nobody
cancelled, so that every admission keeps that cap. `FiringInv` counts the rounds of
the loop. `WindowInv` describes the completion window by the time of the last
completion, at which it was trimmed.

`DrainInv` is what bounds the drain. The bound itself is not inductive, since a tick in
which one query runs alone pays only one unit of the `InitQueries` that it costs. The
invariant keeps, for every query that is in flight, `InitQueries - 1` times its
remaining time in reserve. A tick passes only when no task can run: then either a query
waits and, by `NoIdleCapacity`, all slots are out and all their holders run, so that
the tick takes a unit off each; or nobody waits, all that is left runs, and each
loses a unit of its reserve (`TickPays`).

The latency figures are proved from what `sorted()` promises of each place of the
list (`SortedFacts`: fewer results below it, at least as many up to it; the
existence is a counting argument) and from the arithmetic of the interpolation.

### `TelemetryProofs`

| Theorem | Statement |
|---|---|
| `TelemetryTyped` | `Spec => []TelemetryTypeOK` |
| `RosterAlwaysRight` | `Spec => []RosterIsRight` |
| `FramesAlwaysInOrder` | `Spec => []FramesInOrder` |
| `HistoryComplete` | `Spec => []HistoryMissesNoTick` |
| `NobodyEverSkipped` | `Spec => NobodySkipped` |
| `SettingsOnlyMoveOn` | `Spec => SettingsNeverGoBack` |

    Core == Typed /\ RosterInv /\ RoundInv /\ QueueInv /\ FrameInv /\ ShownInv
    TelemetryInv == Core /\ HistoryMissesNoTick /\ Bounded

`QueueInv` orders the snapshot in hand before those in the channel and all of them
before the next to be taken. `FrameInv` says that each client has got, in order,
snapshots up to the one in hand, and that one only if its turn in the round is over.
That a greeting is ahead of at most the channel and the snapshot in hand is a bound on
a set that only shrinks once the client has joined, `Older(c)`. `RoundInv` says that
everybody whose turn is over was served, has left, or is about to be struck off; with
`RosterInv` (who is struck off does not come back) nobody is skipped when the roster
changes under the round.

### `SnapshotHistoryProofs`

| Theorem | Statement |
|---|---|
| `HistoryTyped` | `Spec => []HistoryTypeOK` |
| `NothingDeletedEarly` | `Spec => NoEarlyDeletion` |
| `TableStaysBounded` | `Spec => PrunedOnTime` |
| `ChartsStayFaithful` | `Spec => []ChartsAreFaithful` |

`PrunedOnTime` needs a fact about the past: `PrunedSince` says that once
this process has pruned, the table holds nothing older than the retention at the
moment of that prune. `HistoryInv == HistoryTypeOK /\ PrunedSince` is inductive.
`ChartsStayFaithful` is about the algorithm of `query`, for any table: each place among
the rows of the window is held by one of them (`RankFacts`), and the bounds of the
stride give those of the chart (`StrideFacts`).

### `DhtLookupProofs`

| Theorem | Statement |
|---|---|
| `DhtTyped` | `Spec => []DhtTypeOK` |
| `PathNeverRepeats` | `Spec => []NoPeerTwice` |
| `BudgetAlwaysHolds` | `Spec => []BudgetHolds` |
| `NewcomersStayUnknown` | `Spec => []AddedPeersStayUnknown` |
| `LookupsEndWithNetwork` | `Spec => LookupsEndWithTheirNetwork` |

    DhtInv == NetworkInv /\ LookupInv /\ AsleepInv

`NetworkInv` says that the tables of the peers built with a network name only peers
of that network, `LookupInv` that whatever a lookup has heard of belongs to the
network it began in, `AsleepInv` what holds while it sleeps on a hop: that the peer
is one it has not visited before, and that the rest of the round fits into
the budget. The step from one hop to the next rests on lemmas about choosing and
sorting by distance.

### `Libp2pNodeProofs`

| Theorem | Statement |
|---|---|
| `RequestsOutlived` | `NodeSpec => []NodeOutlivesRequests` |
| `StopLeavesNothing` | `NodeSpec => []NothingLeftOpen` |
| `TableFollowsRouter` | `NodeSpec => []TopicsAgree` |

    NodeInv == NodeTypeOK /\ StageInv /\ TopicInv

`StageInv` lists what is open at each stage of `run_server`, which is what both
`stop` and the requests rely on. `TopicInv` says how far table and router may differ while
calls for a topic are under way (`Following`), and what is left of it in `stop`.
`Following` is what makes two like calls harmless: both lead table and router the same
way, and the router is there before either writes the table. It has to know besides
that with one call on, the table is still the one which that call found, for this is
what keeps an unlike call out.

### Model-checked only

The liveness properties `EveryLookupReturns`, `ServiceEnds`,
`OnlySilentClientStalls`,
`ArmEnds`, `SwitchOffDrains` and `WalksGoOn`: they rest on fairness, hence on
`ENABLED`, which is out of the prover's reach.

## 6. Findings

1. **A stream timeout is reported as a failed query** (`pipeline_contract`).
   `open_stream`'s `move_on_after` (`src/stream_manager.py:161`) swallows its timeout,
   so `query_fn` returns `None`; the unpacking at `src/coordinator.py:305` raises
   `TypeError` and the query is `FAILED`, although `src/coordinator.py:212` requires a
   tuple. It needs a stream whose limit ends before its query's. `main.py` sets it five
   seconds above, but `/api/config` accepts one below (`api/app.py:63-65`), the
   experiment runner makes one with a `query_timeout` above 60 s, and even a reload
   that keeps the stream's the longer does it: the query got its limit when it
   started, the stream gets its own when it opens, after the cut. That is the
   behaviour `pipeline_contract` finds. `pipeline_live` shows what is enough to exclude
   it: no stream limit ever set is below any query limit ever set.
2. **A service that restarts often never prunes** (`history_restarts`). Every start
   sets `_last_prune` to the present (`src/history.py:27`), and the first prune comes
   300 s later; `docs/DEPLOYMENT.md:29` says of the history that survives restarts
   that it has "24h retention, pruned automatically". `PrunedOnTime` is the bound that
   does hold.
3. **The drain of an arm is not bounded by one time limit** (`experiment_drain`). The
   time limit of a query starts with its slot, so queued queries are waited for one
   after another; the comment at `src/experiment.py:68` says "bounded by
   query_timeout". `DrainIsBounded` is the bound that does hold.

Behaviour that the models made visible and that contradicts no statement:

- The walk worker awaits each walk, so in the running service Layer B never has two
  customers (`OneWalkAtMost`). `Coordinator` and `QueryPipeline` still allow several
  walks at a time, as the repository's tests do.
- `/api/config` checks the walk cap against the query cap only. With a stream cap at
  or below the walk cap, walks may hold every stream; `UserShareOfStreams` states the
  share that is left.
- The peak of borrowed tokens and the peak of running queries do not bound each other:
  a token may be handed over before its task runs, and a query that ended between two
  samples was never seen borrowed (`PeaksWithinCap`).
- A greeting is newer than the broadcasts that may still be queued behind it, by at
  most the channel and the snapshot in hand (`FramesInOrder`).
- A lookup may make up to `Alpha - 1` hops more than `max_hops` (`BudgetHolds`).
- A peer added at run time gets into nobody's routing table, except of a peer that is
  added after it (`AddedPeersStayUnknown`).
- A chart may get up to `2 * max_points - 1` points (`ChartsAreFaithful`).
- Queued snapshots alias the settings of the load generator, so a late frame shows
  newer settings than its time stamp. That is harmless, and better than a copy, with
  which the switch on a dashboard would flip back (`SettingsNeverGoBack`).
- `throughput_qps` is trimmed only when a query completes: when nothing completes any
  more it stays at its last value for ever (`ThroughputIsRecent`).
- `start` and the wiring lie before the `try` whose `finally` stops the node
  (`main.py:175`, `:247`), and `stop` returns at once unless `start` has come to its
  end (`src/libp2p_node.py:285`). A start that fails or is interrupted half way, or a
  history that cannot be opened, leaves the host and the DHT service as they are.
- Ctrl-C during `stop` aborts it, except while it waits for the DHT service: there
  `except BaseException` (`src/libp2p_node.py:303`) drops the exception, and `stop` goes
  on. `NothingLeftOpen` is about a `stop` that returns.
- A DHT service that ends of itself, before its 0.1 s are over or later, is noticed by
  nobody: requests go on to use it, and `NodeOutlivesRequests` allows for it.
- A host that cannot be closed, or a topic that cannot be left, keeps `stop` from nothing;
  a resource manager that cannot be closed leaves the node marked as started
  (`src/libp2p_node.py:317`).
- One dashboard that neither reads nor disconnects holds the broadcast to all of them up
  for ever, and the channel then drops every snapshot (`main.py:239`).
  `OnlySilentClientStalls` says that nothing else does.
- Two `subscribe` calls for one topic may both pass the test of the table, and so may
  two `unsubscribe` calls, the second of which then fails on the entry that the first has
  deleted. Neither does harm by itself: `TopicsAgree` holds for such topics. But when
  the first of two like calls has returned, an unlike one may begin while the second is
  still on: then a late `unsubscribe` may delete the entry of a new `subscribe`, and the
  order in which the router sees the calls decides whether the topic is joined. Table
  and router may stay apart, as they may after a call that failed behind its effect.
  These are the topics in `blurred`, of which `TopicsAgree` says nothing; the code
  promises nothing of them either.
- A bootstrap peer that never answers keeps the service from starting: `connect` is
  awaited without a time limit (`src/libp2p_node.py:274`).

## 7. What is left out, and why

- Contents of snapshots and reports beyond the settings, the counters and the figures
  named above (`success_pct`, averages, lists).
- Ctrl-C that is raised in the task of the DHT service instead of the main task.
- The gossip and DHT protocols, connections and messages of py-libp2p.
- Wall-clock jumps: `history.py` stamps rows with wall time and times its prunes with
  the monotonic clock; the model advances both together.
- `start_soon` failing, memory exhaustion, and errors of SQLite other than a failing
  prune or append.
- Everything in section 1 marked as not modelled.

## 8. Plan

Done: all components but those named in section 1; every invariant and every action
property of the runs is a theorem. What could follow:

1. `CoordinatorImplementsPool` for the other pools: `AdmissionControl` with the walk
   cap for Layer B, and for Layer C under the pipeline.
2. `FirstComeFirstServed` for Layers B and C.
3. Safety lemmas that the liveness arguments rest on, among them that no state
   of the pipeline with a call in flight is without an action (the guards one by
   one, without `ENABLED`).
