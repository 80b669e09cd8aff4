---------------------------- MODULE ScenarioRun ----------------------------
(***************************************************************************)
(* A scenario on one machine: ScenarioExecutor::run in src/runner.rs.  Its *)
(* phases run one after the other, each as a run of constant load (module  *)
(* Ramp) whose workers follow the phase's action script.  Each phase has a *)
(* child of the scenario's token and workers of its own; all of them share *)
(* the LiveMetrics registry and with it the count of claimed requests.     *)
(* Every phase has the same slots; SLOs, time series, capture and progress *)
(* are left out.                                                           *)
(***************************************************************************)
EXTENDS ActionLoop, Ramp, SequencesExt

CONSTANT Scripts    \* the action script of every phase

ASSUME ScriptsAssumption ==
  /\ Scripts \in Seq(Seq(Action) \ {<<>>})
  /\ Scripts # <<>>

VARIABLES
  scTok,      \* the scenario's token is cancelled; runTok is the phase's
  at_phase,   \* "running", "between" two phases or "over"
  outcomes    \* the PhaseOutcome of every phase that ran

scenarioVars == <<scTok, at_phase, outcomes>>
vars == <<driveVars, actionVars, scenarioVars>>

Script == Scripts[Len(outcomes) + 1]

Init ==
  /\ DriveInit /\ ActionInit
  /\ scTok = FALSE /\ at_phase = "running" /\ outcomes = <<>>

\* run_and_collect of the current phase has returned.  It fails only when a
\* histogram or a file cannot be created, which is left out.
Outcome ==
  [totals |-> Totals(Started), connections |-> Cardinality(Workers),
   notStarted |-> Cardinality(Workers \ Started)]

\* A runner with workers of its own and a child of the scenario's token.
FreshRunner ==
  /\ runTok' = scTok
  /\ childTok' = [w \in Workers |-> FALSE]
  /\ pc' = [w \in Workers |-> "idle"]
  /\ connected' = [w \in Workers |-> FALSE]
  /\ drv' = "ramp"
  /\ at' = [w \in Workers |-> 1]
  /\ left' = [w \in Workers |-> 0]
  /\ current' = [w \in Workers |-> NoAction]
  /\ act' = [w \in Workers |-> NoCounts]

\* The phase's outcome is added up.  The workers, their metrics and the token
\* are those of the next phase from here on; the LiveMetrics stay.
PhaseOver ==
  /\ at_phase = "running" /\ drv = "done"
  /\ outcomes' = Append(outcomes, Outcome)
  /\ at_phase' = IF Len(outcomes) + 1 < Len(Scripts) THEN "between" ELSE "over"
  /\ stats' = [stats EXCEPT !.of = NoStats.of]
  /\ FreshRunner
  /\ UNCHANGED <<claimed, scTok>>

\* The pause of 500 ms is over or cut short and the scenario not cancelled:
\* the next phase starts, even when the request limit is used up.
NextPhase ==
  /\ at_phase = "between"
  /\ ~scTok
  /\ at_phase' = "running"
  /\ UNCHANGED <<driveVars, actionVars, scTok, outcomes>>

PhasesSkipped ==
  /\ at_phase = "between"
  /\ scTok
  /\ at_phase' = "over"
  /\ UNCHANGED <<driveVars, actionVars, scTok, outcomes>>

\* Ctrl+C and SIGTERM cancel the scenario's token and the phase's with it.
Signal ==
  /\ at_phase # "over" /\ ~scTok
  /\ scTok' = TRUE /\ runTok' = TRUE
  /\ UNCHANGED <<claimed, stats, childTok, pc, connected, drv, actionVars,
                 at_phase, outcomes>>

WorkerStep(w) ==
  /\ at_phase = "running"
  /\ LifecycleStep(w) \/ ActionSession(w, Script)
  /\ UNCHANGED <<drv, scenarioVars>>

\* The phase's runner: Ramp, without a signal listener of its own.
PhaseDrive ==
  /\ at_phase = "running"
  /\ RampDrive
  /\ UNCHANGED <<actionVars, scenarioVars>>

Executor == PhaseOver \/ NextPhase \/ PhasesSkipped

ScenarioTerminated == at_phase = "over" /\ UNCHANGED vars

Next ==
  \/ PhaseDrive \/ (\E w \in Workers : WorkerStep(w))
  \/ Executor \/ Signal \/ ScenarioTerminated

\* The fairness of a constant run for every phase; the executor goes on.
Running(A) == A /\ at_phase = "running" /\ UNCHANGED <<actionVars, scenarioVars>>

Fairness ==
  /\ WF_vars(Running(\E w \in Workers : Spawn(w)))
  /\ WF_vars(Running(DriveStep))
  /\ WF_vars(Running(RequestWatcher))
  /\ WF_vars(Executor)
  /\ \A w \in Workers : WF_vars(WorkerStep(w))

Spec == Init /\ [][Next]_vars

FairSpec == Spec /\ Fairness

----------------------------------------------------------------------------
(* The report: MetricsTotals::add over the phases.                         *)

\* The sum of one value per phase.
SumOver(s) == FoldSeq(LAMBDA x, y : x + y, 0, s)

\* totals.add, total_connections and total_not_started after the phases.
Added ==
  LET Phase == DOMAIN outcomes
  IN [totals |-> [c \in DOMAIN Totals({}) |->
                    SumOver([p \in Phase |-> outcomes[p].totals[c]])],
      connections |-> SumOver([p \in Phase |-> outcomes[p].connections]),
      notStarted |-> SumOver([p \in Phase |-> outcomes[p].notStarted])]

PhaseReport(o) == WithNotStarted(Finish(o.totals, o.connections), o.notStarted)

\* Mutant: the slots the phases did not start are forgotten.
MergedReportUnstarted == Finish(Added.totals, Added.connections)

MergedReport ==
  WithNotStarted(Finish(Added.totals, Added.connections), Added.notStarted)

----------------------------------------------------------------------------
(* Properties.                                                             *)

\* METHODOLOGY.md, section 9.1: the merged metrics are what merging every
\* worker of every phase at once would give, so every count of the merged
\* report, with its clamps and saturating subtractions, is the sum of the
\* phase reports.
PhasesAddUp ==
  \A c \in DOMAIN MergedReport :
    MergedReport[c] = SumOver([p \in DOMAIN outcomes |-> PhaseReport(outcomes[p])[c]])

\* --requests is one cap for the whole scenario: the phases together never
\* send more, although each has its own token, watcher and workers.
CapCoversScenario ==
  Capped => Added.totals.sent + Totals(Workers).sent <= MaxRequests

\* METHODOLOGY.md, section 9.1: an error or a message counts for an action
\* only while that action's burst runs; handshakes, reconnects, Wait, Ping
\* and Close count for the run only, also when the session before them broke
\* off inside a burst.
ActionCountsOwnBurst ==
  [][\A w \in Workers :
       act'[w] # act[w] /\ at_phase' = at_phase
         => /\ pc[w] \in EchoPC
            /\ Script[at[w]].type = "Send"
            /\ \A n \in ActionNames \ {Script[at[w]].name} : act'[w][n] = act[w][n]]_vars

\* docs/scenarios.md: once the cap is reached the remaining phases are
\* cancelled as soon as they start, so the scenario comes to its end.
LimitEndsScenario == MaxRequestsReached ~> at_phase = "over"

\* The books of a scenario: the merged report adds up the phases' and no more
\* than --requests is sent by all of them (ScenarioExecutor::run).
ScenarioBooks == PhasesAddUp /\ CapCoversScenario
============================================================================
