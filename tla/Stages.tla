------------------------------- MODULE Stages -------------------------------
(***************************************************************************)
(* A run of load stages: Runner::run_stages in src/runner.rs.  Every tick  *)
(* of 10 ms it compares the workers it keeps open with the target of the   *)
(* profile, starts new ones, each under a child of the run's token, or     *)
(* cancels the ones started last.  Ticks missed by a late runner are       *)
(* skipped, so the clock jumps over any number of them.  Workers are the   *)
(* ids 0, 1, 2, ... in the order they are started.                         *)
(***************************************************************************)
EXTENDS Drive, Shares

CONSTANTS
  Profile,      \* the stages: a sequence of [duration, target], in ticks
  ShareIndex,   \* this agent's place among the agents that share the run
  ShareAgents   \* how many they are; 1 in a run on one machine

ASSUME StagesAssumption ==
  /\ Profile \in Seq([duration: Nat \ {0}, target: Nat])
  /\ Profile # <<>>
  /\ ShareAgents \in Nat \ {0}
  /\ ShareIndex \in 0..(ShareAgents - 1)

VARIABLES
  elapsed,   \* ticks since the run started, when the runner last looked
  open       \* the workers it keeps, as a stack: a sequence of ids

stageVars == <<driveVars, elapsed, open>>

\* The ids started so far are 0 .. NextId - 1.
NextId == Cardinality(Started)

StagesInit == DriveInit /\ elapsed = -1 /\ open = <<>>

\* The run lasts the sum of its stages.
Horizon == StageEnd(Profile, Len(Profile))

\* LoadTestConfig::stage_target at every tick.
StageTarget ==
  [t \in 0..Horizon |-> Split(TargetAt(Profile, t), ShareIndex, ShareAgents)]

\* Mutant: ramping down stops the oldest workers and forgets the newest.
StageTickOldest ==
  /\ drv = "ramp"
  /\ ~runTok
  /\ \E t \in (elapsed + 1)..Horizon :
       LET wanted == StageTarget[t]
           new == NextId..(NextId + wanted - Len(open) - 1)
           dropped == {open[i] : i \in 1..(Len(open) - wanted)}
       IN /\ elapsed' = t
          /\ new \subseteq Workers
          /\ pc' = [w \in Workers |-> IF w \in new THEN "build" ELSE pc[w]]
          /\ childTok' = [w \in Workers |-> childTok[w] \/ w \in dropped]
          /\ open' = IF wanted <= Len(open) THEN SubSeq(open, 1, wanted)
                     ELSE open \o [i \in 1..(wanted - Len(open)) |-> NextId + i - 1]
  /\ UNCHANGED <<claimed, stats, runTok, connected, drv>>

\* One round of the loop, at the first tick after the last one or a later
\* one.  A worker that is over stays in open and keeps its place.
StageTick ==
  /\ drv = "ramp"
  /\ ~runTok
  /\ \E t \in (elapsed + 1)..Horizon :
       LET wanted == StageTarget[t]
           new == NextId..(NextId + wanted - Len(open) - 1)
           dropped == {open[i] : i \in (wanted + 1)..Len(open)}
       IN /\ elapsed' = t
          /\ new \subseteq Workers
          /\ pc' = [w \in Workers |-> IF w \in new THEN "build" ELSE pc[w]]
          /\ childTok' = [w \in Workers |-> childTok[w] \/ w \in dropped]
          /\ open' = IF wanted <= Len(open) THEN SubSeq(open, 1, wanted)
                     ELSE open \o [i \in 1..(wanted - Len(open)) |-> NextId + i - 1]
  /\ UNCHANGED <<claimed, stats, runTok, connected, drv>>

\* The token fires: run_stages hands over every worker it started, and
\* wait_until_done, joined with it, returns too.
StagesOver ==
  /\ drv = "ramp"
  /\ runTok
  /\ drv' = "wait"
  /\ UNCHANGED <<workerVars, elapsed, open>>

StagesStep == StagesOver \/ ((WaitUntilDone \/ JoinWorkers) /\ UNCHANGED <<elapsed, open>>)

StagesDrive == StageTick \/ StagesStep
               \/ ((DurationOrSignal \/ RequestWatcher) /\ UNCHANGED <<elapsed, open>>)

StagesTerminated == drv = "done" /\ UNCHANGED stageVars

\* As for a ramp; no property needs the ticks to go on.
StagesFairness ==
  /\ WF_stageVars(StagesStep)
  /\ WF_stageVars(RequestWatcher /\ UNCHANGED <<elapsed, open>>)

----------------------------------------------------------------------------
\* Mutant: the attempts are the workers still open at the end.
StagesReportOpen == Finish(Totals(Started), Len(open))

\* drive() of a staged run: every worker started is one it tried.
StagesReport == Finish(Totals(Started), Cardinality(Started))

\* The report of a staged run classifies every worker it started, the ones
\* ramped down during their first handshake included; none is not started.
StagesReportedExactly == drv = "done" => ClassifiesSlots(StagesReport, 0)

\* A worker the profile still wants is stopped only by the end of the run or
\* by the request limit, never by a ramp-down meant for another.
KeptWorkersRun ==
  \A i \in DOMAIN open : childTok[open[i]] => MaxRequestsReached

\* A worker that was ramped down, or stopped by the limit, ends, whatever it
\* was doing, even if the run goes on for ever.  (Neither is ever undone, so
\* this is childTok[w] ~> pc[w] = "done" for every w.)
StoppedWorkersEnd == <>[](\A w \in Workers : childTok[w] => pc[w] = "done")

\* "Every 10 ms the runner compares the number of running workers with the
\* target rounded to the nearest connection, starts new workers when it is
\* below" (METHODOLOGY.md, section 2.1.1).
RunningWorkersFollowProfile ==
  [][StageTick =>
       Cardinality({w \in Workers : pc'[w] \notin {"idle", "done"}})
         >= StageTarget[elapsed']]_stageVars
============================================================================
