------------------------------ MODULE Arrivals ------------------------------
(***************************************************************************)
(* An arrival-rate run: Runner::run_arrivals in src/runner.rs with         *)
(* ArrivalCounts of src/metrics.rs.  Session k is due at k / rate after    *)
(* the start, starts under a child of the run's token unless as many       *)
(* sessions as allowed are open, and is cancelled when its session         *)
(* duration is over.  The loop may wake up late.  Workers are the ids 0,   *)
(* 1, 2, ... in the order they are started; time is counted in ticks.      *)
(***************************************************************************)
EXTENDS Drive, Integers, Sequences

CONSTANTS
  Gap,              \* ticks between two arrivals
  End,              \* the run's duration
  SessionDuration,  \* how long a session lasts
  MaxOpen,          \* --max-connections
  Interval          \* the length of a time-series interval

ASSUME ArrivalsAssumption ==
  /\ Gap \in Nat \ {0} /\ End \in Nat \ {0} /\ SessionDuration \in Nat \ {0}
  /\ MaxOpen \in Nat \ {0} /\ Interval \in Nat \ {0}

VARIABLES
  now,        \* the clock
  sessions,   \* the JoinSet: started and not yet collected
  bornAt,     \* [w |-> when w's session was started]
  arrived,    \* arrivals handled
  counts,     \* ArrivalCounts: [skipped, peakOpen, intervalPeaks]
  elapsed     \* the elapsed time of the report, 0 until it is read

arrivalVars == <<driveVars, now, sessions, bornAt, arrived, counts, elapsed>>
loopVars == <<sessions, bornAt, arrived, counts, elapsed>>

ArrivalsInit ==
  /\ DriveInit
  /\ now = 0
  /\ sessions = {}
  /\ bornAt = [w \in Workers |-> 0]
  /\ arrived = 0
  /\ counts = [skipped |-> 0, peakOpen |-> 0, intervalPeaks |-> <<>>]
  /\ elapsed = 0

IntervalOf(t) == t \div Interval
Due(k) == k * Gap

Larger(a, b) == IF a >= b THEN a ELSE b

\* Mutant: the intervals without an observation count as idle.
ObserveGaps(c, i, n) ==
  LET grown == [j \in 1..Larger(Len(c.intervalPeaks), i + 1) |->
                  IF j <= Len(c.intervalPeaks) THEN c.intervalPeaks[j] ELSE 0]
  IN [c EXCEPT !.intervalPeaks = [grown EXCEPT ![i + 1] = Larger(@, n)],
               !.peakOpen = Larger(@, n)]

\* ArrivalCounts::observe: the intervals passed without an observation get
\* the count of this one.
Observe(c, i, n) ==
  LET grown == [j \in 1..Larger(Len(c.intervalPeaks), i + 1) |->
                  IF j <= Len(c.intervalPeaks) THEN c.intervalPeaks[j] ELSE n]
  IN [c EXCEPT !.intervalPeaks = [grown EXCEPT ![i + 1] = Larger(@, n)],
               !.peakOpen = Larger(@, n)]

\* Mutant: one arrival per wake-up, however late.
ArrivalWakeOne ==
  LET unfinished == {w \in sessions : pc[w] # "done"}
      fit == Least(1, Minus(MaxOpen, Cardinality(unfinished)))
      first == Cardinality(Started)
      new == first..(first + fit - 1)
      seen == Observe(counts, IntervalOf(now), Cardinality(sessions))
  IN /\ drv = "ramp" /\ ~runTok
     /\ Due(arrived) < End /\ Due(arrived) <= now
     /\ new \subseteq Workers
     /\ sessions' = unfinished \cup new
     /\ bornAt' = [w \in Workers |-> IF w \in new THEN now ELSE bornAt[w]]
     /\ pc' = [w \in Workers |-> IF w \in new THEN "build" ELSE pc[w]]
     /\ arrived' = arrived + 1
     /\ counts' = [Observe(seen, IntervalOf(now), Cardinality(sessions'))
                   EXCEPT !.skipped = @ + 1 - fit]
     /\ UNCHANGED <<claimed, stats, runTok, childTok, connected, drv, now, elapsed>>

\* The loop wakes for an arrival or for the end of the run: it observes,
\* collects the sessions that are over, and handles every arrival that is
\* due, in order, so the first ones get the room there is.
ArrivalWake ==
  LET unfinished == {w \in sessions : pc[w] # "done"}
      due == {k \in arrived..End : Due(k) <= now /\ Due(k) < End}
      fit == Least(Cardinality(due), Minus(MaxOpen, Cardinality(unfinished)))
      first == Cardinality(Started)
      new == first..(first + fit - 1)
      seen == Observe(counts, IntervalOf(now), Cardinality(sessions))
  IN /\ drv = "ramp"
     /\ ~runTok
     /\ Due(arrived) < End
     /\ Due(arrived) <= now
     /\ new \subseteq Workers
     /\ sessions' = unfinished \cup new
     /\ bornAt' = [w \in Workers |-> IF w \in new THEN now ELSE bornAt[w]]
     /\ pc' = [w \in Workers |-> IF w \in new THEN "build" ELSE pc[w]]
     /\ arrived' = arrived + Cardinality(due)
     /\ counts' =
          [(IF fit = 0 THEN seen
            ELSE Observe(seen, IntervalOf(now), Cardinality(sessions')))
           EXCEPT !.skipped = @ + Cardinality(due) - fit]
     /\ UNCHANGED <<claimed, stats, runTok, childTok, connected, drv, now, elapsed>>

\* No arrival is left: the loop wakes at the end of the run, observes and
\* collects, and waits for the token.
ArrivalTail ==
  /\ drv = "ramp"
  /\ ~runTok
  /\ Due(arrived) >= End
  /\ now >= End
  /\ drv' = "tail"
  /\ sessions' = {w \in sessions : pc[w] # "done"}
  /\ counts' = Observe(counts, IntervalOf(now), Cardinality(sessions))
  /\ UNCHANGED <<workerVars, now, bornAt, arrived, elapsed>>

\* A session that ends while the loop waits is joined before the next
\* observation, which collects the others.
TailCollect ==
  /\ drv = "tail"
  /\ ~runTok
  /\ \E w \in sessions : pc[w] = "done"
  /\ sessions' = {w \in sessions : pc[w] # "done"}
  /\ counts' = Observe(counts, IntervalOf(now), Cardinality(sessions) - 1)
  /\ UNCHANGED <<workerVars, drv, now, bornAt, arrived, elapsed>>

\* A session's own timer, racing the session.
SessionExpires(w) ==
  /\ pc[w] \notin {"idle", "done"}
  /\ now >= bornAt[w] + SessionDuration
  /\ ~childTok[w]
  /\ childTok' = [childTok EXCEPT ![w] = TRUE]
  /\ UNCHANGED <<claimed, stats, runTok, pc, connected, drv, now, loopVars>>

\* The token fires: the remaining sessions are joined.
ArrivalsOver ==
  /\ drv \in {"ramp", "tail"}
  /\ runTok
  /\ drv' = "join"
  /\ UNCHANGED <<workerVars, now, loopVars>>

\* Once they are, run_arrivals returns and drive() reads the elapsed time.
ArrivalsJoined ==
  /\ JoinWorkers
  /\ sessions' = {}
  /\ elapsed' = now
  /\ UNCHANGED <<now, bornAt, arrived, counts>>

\* Bounds: a late loop still wakes at End, and after End the clock only
\* serves the timers of the sessions still open.
ClockTick ==
  /\ \/ now < End
     \/ /\ Due(arrived) >= End
        /\ \E w \in Workers : /\ pc[w] \notin {"idle", "done"}
                             /\ now < bornAt[w] + SessionDuration
  /\ drv # "done"
  /\ now' = now + 1
  /\ UNCHANGED <<driveVars, loopVars>>

ArrivalsStep ==
  ArrivalWake \/ ArrivalTail \/ TailCollect \/ ArrivalsOver \/ ArrivalsJoined

ArrivalsDrive ==
  \/ ArrivalsStep \/ ClockTick
  \/ \E w \in Workers : SessionExpires(w)
  \/ (DurationOrSignal \/ RequestWatcher) /\ UNCHANGED <<now, loopVars>>

ArrivalsTerminated == drv = "done" /\ UNCHANGED arrivalVars

\* Timers and the loop go on; nothing is assumed of the end of the run.
ArrivalsFairness ==
  /\ WF_arrivalVars(ArrivalsStep)
  /\ WF_arrivalVars(ClockTick)
  /\ \A w \in Workers : WF_arrivalVars(SessionExpires(w))

----------------------------------------------------------------------------
\* drive() of an arrival run: every session started is one it tried.
ArrivalsReport == Finish(Totals(Started), Cardinality(Started))

\* The report of an arrival run classifies every session it started.
ArrivalsReportedExactly ==
  drv = "done" => ClassifiesSlots(ArrivalsReport, 0)

\* "When the generator wakes up late, every arrival that is due starts at
\* once, so a slow client does not lower the rate" (METHODOLOGY.md, section
\* 2.1.2): whenever the loop goes back to sleep it has started or skipped
\* exactly the arrivals of the schedule up to now.
NoArrivalOverdue ==
  [][ArrivalWake =>
       /\ Due(arrived') > now \/ Due(arrived') >= End
       /\ arrived' = Cardinality({w \in Workers : pc'[w] # "idle"})
                       + counts'.skipped]_arrivalVars

\* Every session is over some time after its session duration, even if the
\* run never ends, whatever it is doing: there are finitely many, so at last
\* none is left.
SessionsEnd == <>[](\A w \in Workers : pc[w] \in {"idle", "done"})
============================================================================
