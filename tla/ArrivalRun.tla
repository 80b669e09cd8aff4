----------------------------- MODULE ArrivalRun -----------------------------
(***************************************************************************)
(* An arrival-rate run of listening sessions: modules Worker, StreamLoop   *)
(* and Arrivals.  A history variable, which the code does not have, holds  *)
(* the most connections open at a moment since the last observation.       *)
(***************************************************************************)
EXTENDS StreamLoop, Arrivals

VARIABLE busiest

vars == <<arrivalVars, busiest>>

Notes ==
  /\ busiest' = Larger(busiest, stats'.live.active)
  /\ UNCHANGED <<drv, now, loopVars>>

WorkerStep(w) == (Lifecycle(w) \/ StreamSession(w)) /\ Notes

Init == ArrivalsInit /\ busiest = 0

Next ==
  \/ /\ ArrivalsDrive
     /\ busiest' = IF UNCHANGED <<sessions, counts>> THEN busiest
                   ELSE stats'.live.active
  \/ \E w \in Workers : WorkerStep(w)
  \/ ArrivalsTerminated /\ UNCHANGED busiest

Spec == Init /\ [][Next]_vars

\* As in StageRun: nothing is assumed of the server.
FairSpec ==
  /\ Spec
  /\ ArrivalsFairness
  /\ \A w \in Workers : WF_vars((Lifecycle(w) \/ StreamOwn(w)) /\ Notes)

\* peak_open, and the peaks of the intervals, which a coordinator adds up
\* over its agents, never miss a connection: an observation gives every
\* interval of the run since the last one a peak that no moment in between
\* exceeded, and the cap on open sessions is kept.
PeaksCoverLoad ==
  /\ [](busiest <= counts.peakOpen /\ counts.peakOpen <= MaxOpen)
  /\ [][\A i \in DOMAIN counts'.intervalPeaks :
          /\ counts' # counts
          /\ i \in Larger(1, Len(counts.intervalPeaks))..(IntervalOf(End) + 1)
          => busiest <= counts'.intervalPeaks[i]]_vars

\* What an arrival run records: its report classifies every session it
\* started, and its peaks miss none that was open (run_arrivals, ArrivalCounts).
ArrivalsRecorded == []ArrivalsReportedExactly /\ PeaksCoverLoad
============================================================================
