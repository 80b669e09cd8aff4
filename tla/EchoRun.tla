------------------------------- MODULE EchoRun -------------------------------
(***************************************************************************)
(* A run of constant echo load: workers of module Worker driving the       *)
(* sessions of module EchoLoop, started and stopped by module Ramp.        *)
(***************************************************************************)
EXTENDS EchoLoop, Ramp

vars == driveVars

WorkerStep(w) == (Lifecycle(w) \/ EchoSession(w)) /\ UNCHANGED drv

Init == DriveInit

Next == RampDrive \/ (\E w \in Workers : WorkerStep(w)) \/ Terminated

\* Every await of a worker races the token, a timer of the configuration or
\* both, and writes to a socket complete or fail, so a worker goes on.
Fairness == DriveFairness /\ \A w \in Workers : WF_vars(WorkerStep(w))

Spec == Init /\ [][Next]_vars

FairSpec == Spec /\ Fairness

TypeOK ==
  /\ claimed \in Nat
  /\ stats \in Stats
  /\ runTok \in BOOLEAN
  /\ childTok \in [Workers -> BOOLEAN]
  /\ pc \in [Workers -> LifecyclePC \cup EchoPC]
  /\ connected \in [Workers -> BOOLEAN]
  /\ drv \in {"ramp", "wait", "join", "done"}

\* What a run reports is exact: the live counters agree with the workers'
\* metrics at every moment, and the report classifies every slot of the ramp
\* (LiveMetrics, MetricsTotals::finish and with_not_started).
ReportExact == LiveAgreesWithTotals /\ SlotsReportedExactly
============================================================================
