# A TLA+ model of wsblast

wsblast is a load generator for WebSocket servers: it opens connections, drives
them in one of several modes, counts what happens, and reports it. It runs on
one machine or on several agents led by a coordinator. This directory models
the parts in which tasks, timers, sockets and processes interleave and the
algorithms behind its reports, checks the models with TLC, and proves with TLAPS
the counters of every load model, the control plane of a distributed run and
three of its protocols correct for every size. Paths below are relative to `src/` of the
repository; `METHODOLOGY.md` and `docs/` are its documentation.

## 1. The system

### Components

| Component | State | Operations | Talks to | Modelled in |
|---|---|---|---|---|
| `worker.rs` `WorkerSession::run` | `connected_before`, backoff, its token | build request, handshake, session, reconnect | metrics, session loops, token | `Worker` |
| `worker.rs` session loops (echo, stream, listen, graphql-ws, actions) | schedule, sequence number, request in flight | send, await reply, pause, close | socket, metrics, token, chaos | `EchoLoop`, `StreamLoop`, `GraphqlLoop`, `ActionLoop` |
| `socketio.rs` and `run_socketio` | ack ids, the awaited ack, a binary packet in parts | join a namespace, pump frames both ways | session loop over channels, server | `SocketIo` |
| `metrics.rs` | `LiveMetrics` (sharded atomics, claim counter), `WorkerMetrics` per worker, `MetricsTotals` | `claim_request`, `record_*`, `add_worker`, `finish` | everyone | `Metrics` |
| `runner.rs` `Runner::drive` | token, handles of the workers | ramp, stages, arrivals, watcher, timer, join | workers, metrics | `Drive`, `Ramp`, `Stages`, `Arrivals` |
| `runner.rs` `ScenarioExecutor` | totals and results of the phases | run a phase, pause, merge | `Runner` | `ScenarioRun` |
| `distributed/coordinator.rs` | links, lost agents, results, live picture | connect, barrier, start, follow, stop, publish, merge | agents over WebSocket | `ControlPlane`, `Live`, `Verdict` |
| `distributed/agent.rs` | busy flag, the test in progress | accept, prepare, run, forward, report | coordinator, `Runner` | `ControlPlane`, `AgentLease`, `Capture`, `Live` |
| `distributed/protocol.rs`, `config.rs` | none | checks of the options, shares, what an agent builds from its share | both | `Plan`, `Shares` |
| `timeseries.rs` | interval store, samples, live intervals | sample, flush, build, merge | runner, coordinator, exporters | `Series`, `Live` |
| `lag.rs` | lag of the wake-ups, by interval and in total | record, close an interval, judge, add | runner, coordinator | `Lag` |
| `capture.rs` | claim of the limit, bounded queue, writer or forwarder thread | record, write, forward, merge, finish | session loops, agents | `Capture` |
| `auth.rs`, `auth/*` | current header value | obtain, refresh | handshakes, coordinator | `Token` |
| `connect.rs`, `tls.rs` | resolved addresses, preferred address, turn of the sources | prepare, race addresses | handshakes | `Connect` |
| `deflate.rs` | agreement, contexts, buffers | negotiate, compress, inflate | WebSocket library, peer | `Deflate` |
| `mock.rs`, `mock/rules.rs` | connections of the test server, counters | accept, apply rules, replay, stall, close | clients | `MockServer` |
| `report.rs`, `app.rs` (SLOs, exit codes) | none | evaluate, decide the exit code | coordinator | `Verdict` |
| `report.rs`, `series_compare.rs` (baseline comparison) | none | summarise a series, compare two reports | saved reports | `Compare` |
| `check.rs`, `data.rs`, `template.rs` | none | per message | session loops | names and rows in `Plan`; outcomes elsewhere |
| `html.rs`, `output.rs`, `export/*`, `tui/*`, `histogram.rs`, `distributed/dashboard.rs`, `distributed/tls.rs` | display state | render, serve, draw | metrics | not modelled |

### What is hard

- **Cancellation.** One token ends a run; timers, a limit watcher, signals and
  workers fire it at any moment, and every await has to notice it. Some selects
  are biased, some are not, some writes are not raced at all.
- **Two sets of books.** Live counters and final totals record the same events
  in different places; pairs of calls (open/close, claim/send, sent/failed) sit
  in different functions. The time series is a third set, sampled while the
  others change.
- **A shared limit.** Workers race for the last requests, sessions for the last
  records of a capture.
- **Changing populations.** Stages stop and start workers; arrivals start
  sessions late, skip them at a cap and end them by timers.
- **Several machines.** Agents hang, crash and lose connections at a barrier, in
  a phase and between phases, while the user presses Ctrl+C. What they report,
  forward and show has to be merged although some of it is missing or old.
- **Waiting for each other.** A thread that waits for room in a channel, and the
  task that empties the channel waiting for the thread.

`PROJECT.json` lists these hazards one by one, at the lines where they bite,
with the properties that cover them.

## 2. Modules

| Module | Models | Extends |
|---|---|---|
| `Metrics` | counters, claims, totals and slot classification (`metrics.rs`) | |
| `Worker` | `WorkerSession::run`, `handshake`, `session_end` (`worker.rs`) | `Metrics` |
| `EchoLoop`, `StreamLoop`, `GraphqlLoop` | the session loops of those modes; listen is a stream that never sends | `Worker` |
| `ActionLoop` | the action scripts of scenario phases, `run_action_loop` | `EchoLoop` |
| `Drive` | what is common to every load model in `Runner::drive`: cancelling tasks, waiting, joining | `Worker` |
| `Ramp`, `Stages`, `Arrivals` | the spawn loop, `run_stages`, `run_arrivals` (`runner.rs`) | `Drive` |
| `Shares` | `split`, `Share::of`, `Stage::target_at` | |
| `EchoRun`, `GraphqlRun`, `StageRun`, `ArrivalRun` | a load model composed with a session loop | both |
| `ScenarioRun` | `ScenarioExecutor::run`: phases of constant load with action scripts | `ActionLoop`, `Ramp` |
| `ControlPlane` | coordinator, agents and the connections between them | |
| `CoordinatedRun` | what a distributed run promises; implemented by `ControlPlane` | |
| `AgentLease` | `AgentServer`: competing control connections, the busy flag, shutdown | |
| `Token` | `TokenSource`, the refresh thread, the value in shares and `Token` messages | |
| `Capture` | `CaptureHandle`, the queue, writer and forwarder threads, the coordinator's merged writer | |
| `SocketIo` | `open`, the pump and its two channels, with a server that answers in any order | |
| `Connect` | `ConnectTarget::prepare`, `connect`, `connect_tcp` | |
| `Deflate` | `DeflateStream` against a peer that keeps to RFC 7692 | |
| `MockServer` | `wsblast mock`: accept loop, sessions, rules, replay, stalls, shutdown | |
| `Plan` | configuration checks, phases laid over the base, `plan`, the agent's configuration | `Shares` |
| `Series` | sampler, interval store, `TimeSeries::build`, `merge_parallel` | |
| `Lag` | the probe, its verdict, `LagTotals`, `GeneratorHealth` | |
| `Live` | snapshots, `publish_live`, the remote intervals exporters see | |
| `Verdict` | `run_scenario`'s results, `merge_phase`, `merge_scenario`, SLO checks, exit code | |
| `Compare` | `--compare` | |
| `MC*` | instances for TLC (`EchoRun`, `GraphqlRun` and `ArrivalRun` need none); `MCPipelines` also holds the inputs of `Plan`, `Verdict` and `Compare` | |
| `WorkerProofs` | lemmas about counters, sums, reports, control points and claims that the other proof modules use | `Drive` |
| `EchoRunProofs`, `GraphqlRunProofs`, `StageRunProofs`, `ArrivalRunProofs`, `ScenarioRunProofs` | theorems about the run of that name | the run, `WorkerProofs` |
| `ControlPlaneProofs` | theorems about `ControlPlane`, its refinement of `CoordinatedRun` among them | `ControlPlane` |
| `ProtocolProofs` | theorems about `AgentLease`, `Token`, `SocketIo`, `Capture`, `MockServer` and `Connect` | these, `WorkerProofs` |

**State of the runs.** `stats.live` holds the counters of `LiveMetrics`, `stats.of[w]`
those of worker `w`'s `WorkerMetrics`; `claimed` is the request counter. `pc[w]` is
the await a worker's task is suspended at, so that a step is what one poll does;
`connected[w]` is `connected_before`. `runTok` and `childTok[w]` are the
cancellation tokens. `drv` is where `drive()` is. In `Stages`, `open` is the stack of
workers the runner keeps; in `Arrivals`, `sessions` is the `JoinSet`, `counts`
the `ArrivalCounts`, `now` the clock. In `ActionLoop`, `at[w]` and `left[w]` are the
loop variables of the script and of a burst, `current[w]` the action whose counters
`act[w]` are charged; in `ScenarioRun`, `scTok` is the scenario's token, `runTok` its
child for the phase in progress, `outcomes` what each finished phase returned.

**State of the distributed parts.** `ControlPlane` keeps the coordinator's
`Session` (`link`, `lost`, the results in `runs`), the agents' positions in
`run_test` and `run_phase`, and two queues per connection with an open flag at
each end. `AgentLease` keeps the flag and where the task of each connection is
(`leaseConn[c].at`, one value per await of `serve` and `control`). `Token` numbers
credentials by the refresh that made them: `tokShared` is the `LiveAuthHeader`,
`tokWatch` the watch channel, `tokLink` the ordered messages to an agent. `Live` keeps,
for each agent, its own counters and interval store (`liveAgent`), what is under
way (`liveChan`) and the coordinator's `AgentLive` (`liveHeld`); `liveExport` is what
exporters read. `Verdict` keeps the parts of the finished phases (`verRuns`) and
`session.lost` (`verLost`).

**State of the pipelines.** In `Capture`, `capShared[h]` is `Shared` of process `h`
(`claimed`, `dropped`), `capQueue[h]` its queue, `capThread[h]` the writer or forwarder
with the batch it holds, `capTask[h]` the agent's control task. In `SocketIo`,
`sioPump` has the pump's locals (`next_id`, `awaited`, `pending`), and `sioOutgoing` and
`sioIncoming` are its channels. In `Connect`, `conTry[c]` is a call of `connect` with
its pending attempts. In `Deflate`, `defLayer` is `DeflateStream` with its buffers
and contexts; a byte stream is a sequence of pieces. In `MockServer`, `mockConn[c]`
is the task of a connection with its queue of replies. In `Series`, `serRun` is one
machine's run: clock, counters, sampler, local buffers and store. In `Lag`,
`lagProbe` is the probe with its `LagRecord`. `Plan` and `Compare` are functions of a
command line taken in the steps of the program.

**Actions.** One per branch the code distinguishes, named after the function it
is part of (`HandshakeCancelled`, `EchoReplyFails`, `StageTick`, `AgentFinishes`,
`PumpReplies`, `TaskForwards`). Operators introduced by a comment `Mutant:` are not
part of any specification: each is a plausible mistake in the definition below
it, and shows that a property would notice.

**Abstractions.** Payloads, bytes and error categories are dropped; latencies
appear only where a report is computed from them (`Series`, `Lag`, `Verdict`,
`Compare`), as counts or exact samples. What a server, chaos or a check decides is
a nondeterministic choice. Delays and timeouts may end at any moment, except in
`Arrivals`, `Series`, `Lag` and `Live`, where time matters and is counted in ticks.
Interpolation, rates and percentages are exact fractions, not `f64`. The atomics
of `LiveMetrics` are sums over shards; the relaxed reads of several counters by a
snapshot are not modelled. Control messages that change no control state are
left out of `ControlPlane` and are the subject of `Token`, `Capture` and `Live`, each of
which keeps only as much of the control plane as it needs: phases that start and
end, agents that are lost. `Series` and `Lag` run the machines one after the other,
since these share nothing before the merge.

## 3. Runs

| Run | Instance | Shows |
|---|---|---|
| `echo_run` | 2 workers, limit 2, 2 handshakes each, chaos, checks | the books of an echo run: gauge, limit, overshoot of the claim counter, error scopes; `ReportExact`: live and final counters agree and every slot is classified; the run ends once cancelled, and is cancelled once the limit is claimed |
| `graphql_run` | 2 workers, 2 sessions each | `SessionBooks`: gauge, error scopes and the exchange of a session; the run ends once cancelled |
| `stage_run` | targets 2, 1, 2: three workers, limit 1 | `StageBooks`: gauge, limit and report; only the right workers are ramped down, and they end |
| `arrival_run` | 3 arrivals, room for 2, any lateness | `ArrivalsRecorded`: the report classifies all sessions and peaks miss no load; the schedule is kept, sessions end |
| `scenario_run` | 2 phases of 1 worker, limit 2, 2 handshakes, chaos, checks | `ScenarioBooks`: the merged report is the sum of the phase reports and the limit covers all phases; the limit ends the scenario, counts go to the action whose burst runs |
| `control_plane` | 2 agents, 2 phases | `PhasesSeparated`: the barrier and no overlap of phases; no stale message, lost agents are named, refinement of `CoordinatedRun`; `EverybodyEnds`: coordinator and agents end |
| `protocols` | capture, token, lease and Socket.IO, one per initial state | see below |
| `pipelines` | connect, deflate, mock, plan, series, lag, live, verdict and compare, one per initial state | see below |
| `graphql_limit`, `graphql_close`, `stage_profile`, `series_points` | as above | four sentences of the documentation the code does not keep (section 6) |

`protocols` and `pipelines` check parts that share no state. Their initial state
chooses a `part`; only the variables of that part change, so the state space is
the sum of the parts', and each property speaks of one of them.

| Property | Part and instance | Says |
|---|---|---|
| `CaptureExact` | 2 sessions on one machine or two agents, limit 2, queue of 1, batches of 2 | the file never passes the limit; written plus dropped is every record made, unless an agent was lost |
| `CaptureFinishes` | same | once sessions are over the summary is made: nobody waits for ever on the chain of bounded queues |
| `TokenNeverOlder` | 2 agents, 2 phases, 3 refreshes, one of a value that cannot be sent | handshakes of an agent never go back to an older credential |
| `TokenReachesAgents` | same | a sendable new credential reaches every running agent |
| `LeaseHeldByOne` | 3 connections, 2 of them trusted, with TLS or without | the busy flag is set exactly while one connection holds it |
| `RepliesAnswerEvents` | 2 events, one frame pushed, both engine versions | the reply a session reads answers its event; every packet is counted once |
| `SocketIoEnds` | same | a cancelled session ends even if the server stays silent |
| `RaceCoversAddresses` | 2 connections, up to 3 addresses of two families, up to 2 sources per family | a connection fails only after every usable address has failed for it |
| `DeflateTransparent` | either role, every agreement, 2 frames each way, back pressure | both ends read what the other wrote, in order |
| `MockAnswersInOrder` | 2 connections, 2 rules, all modes, stalls, close-after 2 | replies are those of the connection's own frames, in order; counters add up |
| `SharesAccepted` | families of options of `MCPipelines` | an accepted run is accepted by every agent; shares and data rows add up to the run |
| `SeriesAddsUp` | 2 machines, intervals of 3 units, late baseline, late ticks, last replies | intervals account for every reply of the totals between the baseline and the last sample, alone and merged |
| `LagVerdictExact` | 2 machines, one with two phases | the verdict is that of all wake-ups, by the definition |
| `LivePictureTrue` | 2 agents, 2 phases, lost agents | what is exported is of the phase in progress, ends as the results, and counters never fall |
| `VerdictSound` | 2 agents, 2 phases, results and thresholds of `MCPipelines` | what exit codes 0, 1 and 2 mean, whoever is lost; a breach comes before a lost agent |
| `CompareSound` | pairs of the reports of `MCPipelines` | exchanging the reports exchanges the verdict; new error categories are regressions; a window of whole intervals keeps exactly these |

**Bounds.** `HandshakeBound`, `ErrorBound`, `SendBound`, `RecvBound`, `DataBound` and
`GraphErrorBound` limit how often an unbounded event happens; each is a conjunct
of the action it bounds. Two workers are enough for every race for a claim and
for a token, two handshakes for a reconnect, a limit of two for both workers to
be below it and then above it. Three workers let a stage that ramps down and up
again start a new worker beside a stopped one. In `arrival_run` three arrivals
exceed the cap of two and the clock may skip every wake-up. Two agents separate
"one fails" from "all fail", and two phases show what is carried over.
`scenario_run` has one worker per phase: its questions are about the worker, the
phase's watcher and the executor; the races between workers are those of
`echo_run`, whose claim and token operators it shares. A second worker multiplies
the states of the second phase by all outcomes of the first. `ErrorBound` is 0
where failed handshakes are not the subject; `echo_run` covers them.

In the two suites: `FrameBound` 3 lets two sessions pass a limit of 2 and fill a
queue of 1 (`QueueCapacity`) while a batch waits for the one place of
`BatchCapacity`. `TokenBound` 3 with value 2 `Unsendable` has a value before, at and after one that
cannot be sent, across two phases. `EventBound` 2 has one event whose ack is late
for the next; `ChannelSize` 2 is never full, as in the code, where at most 2 of 8
places are used. `AddrBound` 3 has both families and one address more;
`SourceBound` 2 gives a family none, one or several sources. `AppBound` and `PeerBound` 2 show what a context carries
from one message to the next, and the two fragments of one. `ReceiveBound` 2 lets
one connection reach a rule that starts at its second frame while the other
has received too. `SerEnds` lets the first machine pass two boundaries; `SerFlush` 2
leaves a sample in a local buffer. `LagWakes` reaches the minimum of late wake-ups of an
interval and of a run. `LiveEnd` 1, `LiveReplies` 1 and `ExportLag` 0 stand for intervals
that are long beside the lag; the pruning of old intervals is not reached.
`VerPhases` 2 and four kinds of results let a threshold be met by one phase, missed
by the other, or measured by none.

**Fairness.** A worker's task goes on when it can by itself: each of its awaits
races the token or a timer, and writes complete or fail. Nothing is assumed of
the server in the stream, listen and graphql-ws modes; in echo mode the reply
wait has `message_timeout`. `drive()` and the 5 ms watcher go on. Nothing is
assumed of signals or of the duration timer. The scenario executor goes on when a
phase is over and after its pause of 500 ms. The coordinator and its following
tasks go on because each wait has a deadline, and so do agents that do not hang.
An unbiased `select!` does not pass over a ready branch for ever; where that
matters the bound on received frames stands for it.
In `protocols`, threads and control tasks of a capture that can go on do, and a
record that was begun is queued or refused; the coordinator's tick, a following
task with a new value and an agent with a message go on; a Socket.IO session's loop
goes on by its token and timeout, and the pump sends what is in its channel or
sees it closed. Nothing is assumed of when sessions end, of refreshes, of
coordinators that compete, or of a server. `pipelines` has no liveness property.

## 4. Proofs

Every theorem is about all values of the constants that satisfy the named
`ASSUME`s of the modules: the set of workers is finite and the limit positive
(`validate_max_requests` demands it), options are Booleans, bounds are numbers, a
run has an agent and a phase, a scenario a phase and each phase an action, rates,
caps and durations are positive.

| Theorem | States | For every |
|---|---|---|
| `EchoRunTypes`, `EchoGaugeExact`, `EchoSendsWithinLimit`, `EchoClaimOvershoot`, `EchoErrorsWithinAttempts`, `EchoReportExact` | six invariants of `echo_run`, `ReportExact` among them | set of workers, limit, option |
| `GraphqlBooksKept` | `SessionBooks` | set of workers |
| `StageKeepsWorkers` | `KeptWorkersRun` | profile, share, pattern of late ticks |
| `StageBooksExact` | `StageBooks`: gauge, limit and report | same |
| `EveryArrivalHandled` | `NoArrivalOverdue` | rate, cap, lateness of the loop |
| `ArrivalsRecordedExactly` | `ArrivalsRecorded`: report and peaks | same, and interval |
| `ScenarioBooksExact` | `ScenarioBooks`: the merged report, one limit over all phases | script, number of phases, set of workers |
| `ScenarioGaugeAndLimit` | the gauge across phases, the limit on the live counter | same |
| `ActionsCountOwnBursts` | `ActionCountsOwnBurst` | same |
| `PhasesNeverOverlap`, `MessagesAlwaysExpected`, `NoUnexplainedGap` | `PhasesSeparated`, `MessagesExpected`, `MissingAgentsAreLost` | number of agents and phases, any crash, hang or lost connection |
| `PromiseKept` | `ControlPlane` implements `CoordinatedRun` (safety part) | same |
| `LeaseIsHeldByOne` | `LeaseHeldByOne` | set of competing coordinators |
| `CredentialsNeverOlder` | `TokenNeverOlder` | number of agents, phases and refreshes |
| `ReplyBelongsToEvent` | `RepliesAnswerEvents` | number of events and pushed frames, contents of the channels |
| `CaptureIsExact` | `CaptureExact`: the limit, and a summary that adds up | number of sessions, processes and agents, limit, sizes of queues and batches |
| `MockAnswersFollow` | `MockAnswersInOrder` | rules file, close-after, set of connections, input |
| `RaceCoversAll` | `RaceCoversAddresses` | answer of the resolver, sources, set of connections |

None of these invariants is inductive. What strengthens each, and why:

**Runs of workers.** A step is a move of one worker between two control points
with a change of the counters. `WorkerProofs` shows once what each `record_*` call
changes (`Changes`), what each step of the lifecycle does (`LifecycleHasEffect`), how
moving one worker changes the size of a set of workers (`MoveCardinality`), and from
these that the gauge stays exact (`GaugeMove`) and the claims stay ahead of the
sends (`ClaimsMove`). Types and gauge are proved together, since the gauge is a
number only because every end of a session is that of an open one. The limit needs
`ClaimsCover`: messages sent plus workers that hold an unused claim (`delay`, `send`)
stay below the claims and below the limit; without the second term a worker
between claim and send breaks the limit.

**Reports.** The totals of a report are sums over workers, and what a sum computes is
shown in `WorkerProofs` by induction: `AllNumbers` says, from the least element of a set
of naturals, that a set with 0 and all successors is `Nat`, and `AllSubsets` lifts it to
the subsets of a finite set. From these follow what the community module's fold
computes (`SumDef`), that a step of one worker changes a sum by what it adds
(`SumMove`), and that the order of the fold does not matter (`SumAnyOrder`). The
invariant `Books` says that the live counters are the sums of the workers' (`Agree`) and,
for every slot, what its metrics say about how far it came (`SlotBooks`: handshakes
and reconnects differ by one exactly if it ever connected, and `interrupted` is set
exactly if it is over without a connection or an error). With `Joined` (a runner
that is done has joined every worker it started) no clamp and no saturating
subtraction of `finish()` takes effect, so that every slot is in its class
(`FinishExact`). The same lemmas serve every session loop, of which only the
`record_*` calls matter (`SessionRecords`).

- `EchoRunProofs`, `SafetyInv`: also `OvershootIsStopped` (the claims above the limit
  are covered by workers that can never claim again: done, or about to be because
  the token has fired) and `PendingNotFailed` (a worker awaiting a reply has one sent
  message more than failed ones).
- `GraphqlRunProofs`, `BooksInv`: a session has two messages to send; `ToSend` is how
  many are left at each control point.
- `StageRunProofs`, `StageInv`: `StackOK` (ids are given out in order, the stack has no
  worker twice, an unstarted worker's token has not fired), so that the workers
  a ramp-down pops are never among those it keeps, and `StackRuns` (a kept worker
  was stopped by the limit or not at all). That the target is a number at every tick,
  as its type `usize` says, is proved for every profile (`StageTargetNumber`): the stage
  ends are sums of durations (`EndsExist`, `EndsUnique`), and a point between two targets
  never rounds below zero.
- `ArrivalRunProofs`, `ArrivalInv`: `Schedule` (arrivals handled are those started and
  those skipped), `SessionsFit` (every session not in the `JoinSet` is over, and the
  others fit the cap), `PeaksKnown` (between two observations the load stays below the
  sessions not yet collected, which the last observation covered).
- `ScenarioRunProofs`, `ScenarioInv`: `PhaseEnds` (the workers of a phase are over when
  its outcome is taken, so replacing them keeps gauge and claims) and `OwnBurst` (the
  current action of a worker is that of the burst it is in; it outlives the burst
  only after a session that broke off, where nothing is recorded until the next
  handshake clears it). `ScenarioReported` adds that the outcome of every phase, and the
  sum of them so far, has each slot in one class at most (`OutcomeOK`), so that
  reports are linear in the totals and add up (`PhaseReportIs`, `ReportsAddUp`), and that
  the live counter of sends is the sum over the finished phases and the workers of
  the current one (`SentByPhases`).

**Control plane.** `ControlInv` says for each agent, in each state of the coordinator
and of the agent, which messages may be on the way in both directions
(`Conversation`), and that the parts of the report and `session.lost` account for every
agent (`Books`). Steps of an agent, of a following task, of the coordinator and of
the network are separate lemmas; each touches one agent and keeps the conversation
of the others (`UntouchedKeeps`). The refinement maps each step to a step of
`CoordinatedRun` or to none (`PromiseStep`). The proof showed that an exception for
cancelled runs in `RunsCurrentPhase` was not needed; the property was strengthened
accordingly and holds for cancelled runs too.

**Protocols.** `LeaseInv`: a connection holds the agent exactly from its claim to its
end, and the flag says whether one does. `TokenInv`: the credentials at an agent, on
the way to it and at the coordinator grow in that order (`Growing`), with at most one
`Prepare` and one `Start` on the way, depending on the phase (`InPhase`). `SioInv`: at
most one event is in the channel and its number is the pump's next id
(`DataInOrder`), at most one reply is on its way and answers the latest event
(`RepliesInOrder`), and a frame with an id is that of the event with this number
(`Genuine`). The specifications there are the parts of `protocols` and `pipelines`, without
fairness.

`CaptureInv` says where every record is. A record a session made is claimed, on
offer, in its process's queue or batch, written or lost there, under way to the
coordinator, or counted there as written, lost or over the limit (`CaptureBooks`: what
the sessions put into the queues is what the processes carry plus what the
coordinator has taken, and the drops they gave up are those in the shared counts).
`HostOrder` says how a process ends: sessions first, then "finish" as the last message
of the queue, then the thread, then the result as the last message to the
coordinator; from it follows that nothing is in a queue when the summary is made.
`CaptureLimit` is the other half: on a single machine every record on offer, queued or
written is backed by a claim (`Held`), and no claim is granted above the limit; in a
distributed run the coordinator alone counts against it. The sums are over sessions
and processes at once, so a step that moves a record from one to the other
changes two sums by one (`SumMove`); sums over the batches in a queue are `SeqSum`.

`MockInv` says of every connection that what it has sent, followed by what its queue
still promises, is what its whole input asks for (`Continues`). `Promised` reads a
queue up to a rule's close, `Asked` appends the answers to each frame of the input;
both are recursive functions, and that they are what their recursion says for every
sequence is shown by `RecursionExists` and `AllNumbers`. `PromisedJoin` says what is promised
by two queues one after the other, so that a frame received adds the same on
both sides, and a reply sent moves from the queue to what was sent. A session that
drains has thrown its queue away: there only the beginning remains, which is why the
property says prefix.

`ConnectInv` says that the queue of a racing connection, its attempts under way and
those that failed are together all usable addresses, and that every attempt has the
source its turn gives (`TryOK`); a connection is refused when queue and attempts are
empty, so the failed ones are all there are. It rests on what the operators on address
lists have in them, for every list: `InterleaveFacts` (interleaving the families loses
and adds no address), `AmongFacts` (filtering), `OrderFacts` (the preferred address
first, also when the preference is out of range). They are concatenations in a loop, all
covered by `ConcatsFacts`. `ConsecutiveTurns` is the arithmetic of round robin.

Only model-checked:

- all liveness properties, since the prover does not handle fairness;
- `SeriesAddsUp`, `LagVerdictExact`, `VerdictSound`, `CompareSound` and `SharesAccepted`:
  the intervals, samples, phases and metrics there are filtered, sorted, flattened or
  folded sequences (`SelectSeq`, `SortSeq`, `FlattenSeq`, `FoldSeq`), of which the provers
  know nothing; each would need what `ProtocolProofs` does for `Promised`, `Asked` and
  the address lists, for every such operator;
- `DeflateTransparent`, about a peer's and our compression context over a sequence of
  frames, and the action property `LivePictureTrue`, about sums over sets of intervals.

## 5. What is not modelled

`PROJECT.json` gives the reason for each part: rendering, export and terminal
display are I/O; TLS, templates and checks are per-message string processing;
HDR histograms are replaced by counts or samples. Within the modelled parts:

- keepalive pings, think-time lengths, the length of backoffs, and blocked writes
  (a peer that never reads can delay the end of a run without limit; a send on a
  control connection completes or fails);
- the composition of `ControlPlane` with `Token`, `Capture` and `Live`;
- scenario phases with stages or arrivals, and values captured by actions;
- in `Capture` more than one phase; in `Deflate` the size limits of messages and
  windows; in `Connect` proxies;
- in `Series` the offsets of appended phases and the live intervals of a single
  machine; in `Lag` its attachment to the points of a series;
- in `Plan` authentication headers, the texts of errors and the parsing of files.

## 6. Where code and documentation differ

With a run:

- `graphql_limit`: the two frames a graphql-ws session sends are counted as
  messages but not claimed, so `--requests` does not limit them (`METHODOLOGY.md`
  section 2.3 says it limits every send).
- `graphql_close`: a server Close frame during a subscription is recorded as an
  error (section 6.1 says it is none in any mode); a failed read is recorded
  twice.
- `stage_profile`: `run_stages` compares the target with the handles it keeps, not
  with the running workers (section 2.1.1), so workers that are over are not
  replaced.
- `series_points`: section 6.3 says the points add up to the run's totals. They do
  not in two orders of events. The sampler takes its baseline when its task is
  first polled (`timeseries.rs:423`), unordered with the workers, so replies counted
  before that are in the totals and in no point: this is the trace TLC prints. And
  if the sampler saw an uncancelled token at a boundary and stamps its sample after
  the elapsed time was read, the last sample of `finish()` has no duration and
  `build` skips it, so that messages finished during the cancellation are in no
  point (the comment above `finish` says they are counted). `SeriesAddsUp` states what
  does hold: these two groups of replies (`before` and `after` of a part) are all
  that is missing.

Met while modelling, without a run of their own:

- An arrival run reads `elapsed` after joining the open sessions (`runner.rs:503`, then
  788); section 8.1 of `METHODOLOGY.md` says as soon as the cancellation is seen.
- `docs/scenarios.md` section 7.3 counts "connections that close while it waits for
  a reply" among the errors of a named action; a server Close frame at that
  moment ends the session without an error (`worker.rs`, `Ok(Ok(None))`), only a
  connection that ends without one is recorded. Section 6.1 of `METHODOLOGY.md`
  agrees with the code.
- Series: `METHODOLOGY.md:218` says "the time series in the report has every
  sample". The latency of a folded sliver, samples in buckets after the end and
  those of a sampler late by a whole interval are not in it.
  `merge_parallel` rounds a start to the nearest index, so a tick late by half an interval shifts a point.
- Live: publishing happens before the `active_connections` of lost agents are
  cleared, so the exported gauge keeps a lost agent's connections until the next
  publication; the interval shown may go back when an agent is lost long after
  its last snapshot.
- Verdict: losing every agent in the last phase keeps the report of the earlier
  ones. `app.rs` then says of a lost agent that its "connections and messages are
  not in this report", although those of its earlier phases are. A run-level lag
  threshold fails without samples when every agent is lost in the end, although
  every phase met it. A scenario's throughput can be below that of each of its
  phases (the larger direction is chosen after sends and receipts are added
  up, so a phase that sends and one that receives do not add), so `VerdictSound` says
  nothing of exit code 2 under throughput floors; a scenario's latency threshold looks at response time alone
  as soon as one phase recorded it.
- Plan: `docs/scenarios.md:91` says a phase without a payload sends the default
  one; `config.rs:3182` writes the first phase's payload into the base
  configuration, so later phases inherit it. A literal `{{NAME}}` in the base
  payload is substituted on agents in a phase that captures `NAME`; a static
  token with `{{...}}` is literal on one machine and a template on agents. Only the
  first running phase's URL is checked against the Engine.IO version
  (`socketio.rs:212`), that of later phases is replaced silently.
- Token: a refreshed header value that is not visible ASCII is a warning during a
  phase but fails the plan of the next phase, and with it the run.
- Capture: `frames_written` counts lines that a failed flush of the buffered
  writer loses.
- Compare: `METHODOLOGY.md:233` says a gate on the series metrics never passes
  because they were left out; the window must hold one point, but a metric that
  is undefined there (throughput without a full-length point, p99 without a
  sample) is still left out, as the same section says further down.
- Mock: the replay index counts connections whose handshake fails later (the
  comment says accepted connections); after a stall the biased `select!` may close a
  Socket.IO connection whose pong is there but unread.

## 7. Plan

1. Proofs: `LivePictureTrue`, and lemmas about `Split`.
2. Composition of `ControlPlane` with `Token` and `Capture`, so that their phases and
   losses are those of the control plane.
3. Scenario phases with stages or arrivals, and captured values.
4. The offsets of a scenario's series and the live intervals of one machine.
