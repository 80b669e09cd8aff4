------------------------------- MODULE Series -------------------------------
(***************************************************************************)
(* The time series of a run (src/timeseries.rs): on every machine a task   *)
(* samples the live counters at each interval boundary, the workers hand   *)
(* their latency samples to the interval store, and TimeSeries::build      *)
(* joins the two when the run is over.  The coordinator then merges the    *)
(* series of its agents (merge_phase of src/distributed/coordinator.rs).   *)
(*                                                                         *)
(* The machines share nothing before the merge and each counts time from   *)
(* its own start, so the model runs them one after the other.  Time is in  *)
(* units; the counters are one count of replies and the gauge of open      *)
(* connections; a histogram is the number of its samples.  The sampler is  *)
(* a task of its own: nothing orders its baseline with the workers'        *)
(* replies, and its look at the token and its sample are two steps,        *)
(* between which the run may be cancelled and its elapsed time read.       *)
(***************************************************************************)
EXTENDS Integers, Sequences, FiniteSets, FiniteSetsExt, SequencesExt

CONSTANTS
  SerReplies,    \* bound: the replies of each machine; its length is theirs
  SerInterval,   \* units of an interval
  SliverPart,    \* a last point below 1/SliverPart of an interval is folded
  SerFlush,      \* FLUSH_SAMPLES
  SerBase,       \* replies that earlier phases left in the registry
  SerEnds        \* bound: the units each machine's clock runs

ASSUME SerAssumption ==
  /\ SerReplies \in Seq(Nat) /\ SerReplies # <<>>
  /\ SerEnds \in [DOMAIN SerReplies -> Nat]
  /\ {SerInterval, SliverPart, SerFlush} \subseteq Nat \ {0}
  /\ SerBase \in Nat

VARIABLES
  serRun,       \* the machine that runs; see StartMachine
  serMachine,   \* its number, counted from 1
  serParts,     \* the results of the machines that finished
  serReport     \* merge_phase's totals and series, at most one

seriesVars == <<serRun, serMachine, serParts, serReport>>

Buckets == 0 .. (Max(ToSet(SerEnds)) \div SerInterval)

\* IntervalStore::bucket_of.
BucketOf(at) == at \div SerInterval

----------------------------------------------------------------------------
\* One point: what the counters gained from sample a to sample b, with the
\* latency of the interval that a lies in.
PointOf(a, b, store) ==
  [start |-> a.at, duration |-> b.at - a.at, active |-> b.active,
   recv |-> b.recv - a.recv, latency |-> store[BucketOf(a.at)]]

\* A sample stamped like the one before it makes no point.
KeptSamples(s) ==
  SelectSeq([i \in DOMAIN s |-> i], LAMBDA i : i = 1 \/ s[i].at > s[i - 1].at)

\* A last point too short for a rate is folded into the one before it.
FoldSliver(p) ==
  LET n == Len(p)
  IN IF n >= 2 /\ p[n].duration * SliverPart < SerInterval
     THEN Append(SubSeq(p, 1, n - 2),
                 [p[n - 1] EXCEPT !.duration = @ + p[n].duration,
                                  !.active = p[n].active,
                                  !.recv = @ + p[n].recv])
     ELSE p

\* TimeSeries::build.
BuildSeries(s, store) ==
  LET kept == KeptSamples(s)
  IN FoldSliver([k \in 1 .. (Len(kept) - 1) |->
                   PointOf(s[kept[k]], s[kept[k + 1]], store)])

\* The interval index of a point: its start, rounded.
IndexOf(point) == (2 * point.start + SerInterval) \div (2 * SerInterval)

\* TimeSeries::merge_parallel: the points of an index are added up, and its
\* latency is that of the index's bucket on every machine.
MergeParallel(parts) ==
  LET all == UNION {{<<p, k>> : k \in DOMAIN parts[p].points} : p \in DOMAIN parts}
      point(pk) == parts[pk[1]].points[pk[2]]
      at(i) == {pk \in all : IndexOf(point(pk)) = i}
  IN [i \in {IndexOf(point(pk)) : pk \in all} |->
       [start    |-> Min({point(pk).start : pk \in at(i)}),
        duration |-> Max({point(pk).duration : pk \in at(i)}),
        active   |-> MapThenSumSet(LAMBDA pk : point(pk).active, at(i)),
        recv     |-> MapThenSumSet(LAMBDA pk : point(pk).recv, at(i)),
        latency  |-> IF i \in Buckets
                     THEN MapThenSumSet(LAMBDA p : parts[p].buckets[i], DOMAIN parts)
                     ELSE 0]]

----------------------------------------------------------------------------
\* Runner::drive starts the clock and the store, and spawns the sampler and
\* the worker:
\*   now      units since the start
\*   stage    "run", "cancelled", "over" (elapsed is read) or "joined"
\*   elapsed  Runner::drive's elapsed, once read
\*   working  the worker has not stopped
\*   recv     LiveMetrics: replies received, earlier phases included
\*   rec      the worker's IntervalRecorder: its bucket and what it holds
\*   store    IntervalStore: samples per bucket
\*   times    history: replies per interval in which they came
\*   samples  CounterSampler: the samples taken, none before its first poll
\*   polled   the sampler saw a tick that is due and a token not cancelled
StartMachine ==
  [now |-> 0, stage |-> "run", elapsed |-> -1, working |-> TRUE, recv |-> SerBase,
   rec |-> [bucket |-> 0, held |-> 0],
   store |-> [b \in Buckets |-> 0], times |-> [b \in Buckets |-> 0],
   samples |-> <<>>, polled |-> FALSE]

SeriesInit ==
  serRun = StartMachine /\ serMachine = 1 /\ serParts = <<>> /\ serReport = {}

MachineUp == serMachine \in DOMAIN SerReplies
SameMachine == UNCHANGED <<serMachine, serParts, serReport>>

SeriesClock ==
  /\ MachineUp /\ serRun.now < SerEnds[serMachine]
  /\ serRun' = [serRun EXCEPT !.now = @ + 1]
  /\ SameMachine

\* IntervalRecorder::flush.
FlushRecorder(store, rec) == [store EXCEPT ![rec.bucket] = @ + rec.held]

\* A reply is counted and its latency recorded (IntervalRecorder::record): a
\* change of interval hands over the samples held, and so does a full batch.
RecordReply ==
  LET bucket == BucketOf(serRun.now)
      turned == bucket # serRun.rec.bucket
      store == IF turned THEN FlushRecorder(serRun.store, serRun.rec) ELSE serRun.store
      rec == [bucket |-> bucket, held |-> 1 + IF turned THEN 0 ELSE serRun.rec.held]
      full == rec.held = SerFlush
  IN /\ MachineUp /\ serRun.working
     /\ serRun.recv - SerBase < SerReplies[serMachine]
     /\ serRun' = [serRun EXCEPT
          !.recv = @ + 1,
          !.times[bucket] = @ + 1,
          !.rec = IF full THEN [rec EXCEPT !.held = 0] ELSE rec,
          !.store = IF full THEN FlushRecorder(store, rec) ELSE store]
     /\ SameMachine

\* The run is cancelled: its duration, its limit, Ctrl+C or a Stop.
CancelRun ==
  /\ MachineUp /\ serRun.stage = "run"
  /\ serRun' = [serRun EXCEPT !.stage = "cancelled"]
  /\ SameMachine

\* The worker ends, by itself or because the run is cancelled; what it holds
\* stays with its metrics until it is joined.
WorkerStops ==
  /\ MachineUp /\ serRun.working
  /\ serRun' = [serRun EXCEPT !.working = FALSE]
  /\ SameMachine

\* wait_until_done has returned: the elapsed time is read.  The clock has
\* moved since the start and since every sample before (nanoseconds).
ReadElapsed ==
  /\ MachineUp /\ serRun.stage = "cancelled" /\ serRun.now > 0
  /\ \A i \in DOMAIN serRun.samples : serRun.samples[i].at < serRun.now
  /\ serRun' = [serRun EXCEPT !.stage = "over", !.elapsed = serRun.now]
  /\ SameMachine

\* The worker is joined; flush_interval hands over what it holds.
JoinWorker ==
  /\ MachineUp /\ serRun.stage = "over" /\ ~serRun.working
  /\ serRun' = [serRun EXCEPT !.stage = "joined",
                              !.store = FlushRecorder(@, serRun.rec),
                              !.rec.held = 0]
  /\ SameMachine

\* LiveMetrics::snapshot, stamped `at`.
SnapshotAt(at) ==
  [at |-> at, recv |-> serRun.recv, active |-> IF serRun.working THEN 1 ELSE 0]

\* The sampler's first poll, whenever it comes: the baseline of the deltas,
\* stamped with the start of the run.
SamplerStarts ==
  /\ MachineUp /\ serRun.samples = <<>>
  /\ serRun' = [serRun EXCEPT !.samples = <<SnapshotAt(0)>>]
  /\ SameMachine

\* The sampler's select: the token first, then the tick, which is due at the
\* next boundary even when the one before it came late (Burst).
SamplerPolls ==
  /\ MachineUp /\ serRun.stage = "run" /\ serRun.samples # <<>> /\ ~serRun.polled
  /\ serRun.now >= Len(serRun.samples) * SerInterval
  /\ serRun' = [serRun EXCEPT !.polled = TRUE]
  /\ SameMachine

SamplerSamples ==
  /\ MachineUp /\ serRun.polled
  /\ serRun' = [serRun EXCEPT !.polled = FALSE,
                              !.samples = Append(@, SnapshotAt(serRun.now))]
  /\ SameMachine

\* How late a boundary sample was at most.
Lateness ==
  Max({serRun.samples[i].at - (i - 1) * SerInterval : i \in DOMAIN serRun.samples})

\* CounterSampler::finish awaits the sampler and adds the last sample, the
\* series is built and the result sent with the buckets and the totals; the
\* model goes on to the next machine.  The other fields are for the properties:
\* when the replies came, how late the sampler was, how many replies came
\* before its baseline, and how many after a boundary sample that is stamped
\* after the end of the run.
FinishAt(stage) ==
  LET last == Last(serRun.samples)
      samples == Append(serRun.samples, SnapshotAt(Max({serRun.elapsed, last.at})))
  IN /\ MachineUp /\ serRun.stage = stage /\ serRun.samples # <<>> /\ ~serRun.polled
     /\ serParts' = Append(serParts,
          [points |-> BuildSeries(samples, serRun.store),
           buckets |-> serRun.store,
           total |-> serRun.recv - SerBase,
           times |-> serRun.times, late |-> Lateness,
           before |-> Head(samples).recv - SerBase,
           after |-> IF last.at >= serRun.elapsed THEN serRun.recv - last.recv ELSE 0])
     /\ serRun' = StartMachine /\ serMachine' = serMachine + 1
     /\ UNCHANGED serReport

FinishRunEarly == FinishAt("over")
FinishRun == FinishAt("joined")

\* The coordinator gives up on an agent: nothing of it is used.
LoseMachine ==
  /\ MachineUp
  /\ serRun' = StartMachine /\ serMachine' = serMachine + 1
  /\ UNCHANGED <<serParts, serReport>>

\* merge_phase adds up the results; without any there is nothing to report.
MergePhase ==
  /\ ~MachineUp /\ serReport = {} /\ serParts # <<>>
  /\ serReport' = {[total |-> MapThenSumSet(LAMBDA p : serParts[p].total, DOMAIN serParts),
                    points |-> MergeParallel(serParts)]}
  /\ UNCHANGED <<serRun, serMachine, serParts>>

SeriesEnded ==
  /\ ~MachineUp /\ (serReport # {} \/ serParts = <<>>)
  /\ UNCHANGED seriesVars

SeriesNext ==
  \/ SeriesClock \/ RecordReply \/ CancelRun \/ WorkerStops \/ ReadElapsed \/ JoinWorker
  \/ SamplerStarts \/ SamplerPolls \/ SamplerSamples \/ FinishRun \/ LoseMachine \/ MergePhase
  \/ SeriesEnded

----------------------------------------------------------------------------
Gained(points) == MapThenSumSet(LAMBDA k : points[k].recv, DOMAIN points)

\* A machine's points hold every reply its totals count, once, but for those
\* that came before the baseline or after a boundary sample that the end of the
\* run overtook.
CountersInSeries ==
  \A p \in ToSet(serParts) : p.total = p.before + Gained(p.points) + p.after

\* Every latency sample is in the bucket of the interval in which it came, and
\* a sampler that was never a whole interval late shows bucket k - 1 in point k.
LatencyInItsInterval ==
  \A p \in ToSet(serParts) :
    /\ p.buckets = p.times
    /\ p.late < SerInterval =>
         \A k \in DOMAIN p.points : p.points[k].latency = p.times[k - 1]

\* The merge loses and doubles nothing, and where no sampler was half an
\* interval late its point k is the sum of the machines' points k.
MergeAddsUp ==
  LET has(k) == {p \in DOMAIN serParts : k \in DOMAIN serParts[p].points}
  IN \A r \in serReport :
       /\ Gained(r.points) =
            MapThenSumSet(LAMBDA p : Gained(serParts[p].points), DOMAIN serParts)
       /\ (\A p \in ToSet(serParts) : 2 * p.late < SerInterval) =>
            \A i \in DOMAIN r.points :
              /\ r.points[i].recv =
                   MapThenSumSet(LAMBDA p : serParts[p].points[i + 1].recv, has(i + 1))
              /\ r.points[i].latency =
                   MapThenSumSet(LAMBDA p : serParts[p].times[i], DOMAIN serParts)

\* The series of a report accounts for what the report's totals count: of the
\* counters exactly what came between the baseline and the last sample that
\* makes a point, of the latencies every sample, in its interval; on one machine
\* and merged from several, whatever the order of cancellation, the workers'
\* replies and the sampler's steps (TimeSeries::build and merge_parallel,
\* CounterSampler and IntervalRecorder).
SeriesAddsUp == CountersInSeries /\ LatencyInItsInterval /\ MergeAddsUp

----------------------------------------------------------------------------
\* METHODOLOGY.md section 6.3: the counters of the points are differences of
\* snapshots, "so the points add up to the run's totals"; TimeSeries::build:
\* the first sample is "the baseline taken when the run started"; finish(): a
\* message sent while the run was being cancelled "is counted".  Not so when a
\* reply is counted before the sampler is first polled, or after a boundary
\* sample that is stamped after the end of the run.
PointsAddUp == \A p \in ToSet(serParts) : Gained(p.points) = p.total
=============================================================================
