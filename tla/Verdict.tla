------------------------------ MODULE Verdict -------------------------------
(***************************************************************************)
(* The verdict of a distributed scenario: the phases the coordinator runs  *)
(* (Coordinator::run_scenario), the merge of the agents' results           *)
(* (merge_phase, merge_scenario), the SLO checks on the merged numbers     *)
(* (src/report.rs) and the process's exit code (run_distributed of         *)
(* src/app.rs).                                                            *)
(*                                                                         *)
(* A result is what one agent reports for one phase.  Latencies and lags   *)
(* are sequences of samples; a histogram merge is a concatenation.  The    *)
(* four latency thresholds are checked alike, so the model has one         *)
(* latency percentile, and it judges the lag at the same one.  Rates and   *)
(* fractions are percentages.                                              *)
(***************************************************************************)
EXTENDS Integers, Sequences, FiniteSets, FiniteSetsExt

CONSTANTS
  VerAgents,     \* the agents of the run
  VerPhases,     \* bound: phases of the scenario
  VerResults,    \* bound: what an agent may report for a phase
  VerSlos,       \* bound: the settings [flags, scenario, phase, action]
  VerPercent     \* the percentile that latency and lag are judged at

ASSUME VerdictAssumption ==
  /\ IsFiniteSet(VerAgents) /\ VerAgents # {}
  /\ VerPhases \in Nat \ {0} /\ VerPercent \in 1 .. 100

VARIABLES
  verSlo,      \* the thresholds: each is {} or the set of its value
  verIndex,    \* phases begun
  verCancel,   \* the run was interrupted
  verRuns,     \* runs: the parts of every phase with a finished one
  verLost,     \* session.lost
  verExit      \* the exit code, or -1 while the run lasts

verdictVars == <<verSlo, verIndex, verCancel, verRuns, verLost, verExit>>

----------------------------------------------------------------------------
(* Merging. *)

Total(field(_), parts) == MapThenSumSet(field, parts)
Joined(samples(_), parts) ==
  FoldSet(LAMBDA p, all : all \o samples(p), <<>>, parts)

\* MetricsTotals::add over parts, of the whole run ("all") or of the named
\* action ("act").
MergeCounts(of, parts) ==
  [sent     |-> Total(LAMBDA p : p[of].sent, parts),
   recv     |-> Total(LAMBDA p : p[of].recv, parts),
   errs     |-> Total(LAMBDA p : p[of].errs, parts),
   sentErrs |-> Total(LAMBDA p : p[of].sentErrs, parts),
   rtt      |-> Joined(LAMBDA p : p[of].rtt, parts),
   response |-> Joined(LAMBDA p : p[of].response, parts)]

\* MetricsTotals::finish and ActionMetrics::of: failed operations over
\* attempted ones, where an error of a message already sent is no attempt.
Attempted(counts) ==
  counts.sent + Max({0, counts.errs - counts.sentErrs})
ErrorRateWithin(counts, max) ==
  LET attempted == Attempted(counts)
  IN attempted > 0 => Min({counts.errs, attempted}) * 100 <= max * attempted

\* MetricsTotals::finish: `open` is the handshakes that were not reconnects.
Established(parts) ==
  Min({Total(LAMBDA p : p.open, parts), Total(LAMBDA p : p.conns, parts)})

\* Each agent's own lag over its parts, the agents without a sample left out
\* (LagTotals::add and summary).
AgentLags(parts) ==
  {Joined(LAMBDA p : p.lag, {q \in parts : q.agent = a}) : a \in VerAgents} \ {<<>>}

----------------------------------------------------------------------------
(* The checks. *)

\* LatencyStats: is the percentile of the samples at most `target`?
Rank(n) == Max({1, (n * VerPercent + 99) \div 100})
PercentileWithin(samples, target) ==
  Cardinality({i \in DOMAIN samples : samples[i] <= target}) >= Rank(Len(samples))

\* Mutant: a latency budget that an empty histogram's zero would meet.
LatencyMetEmpty(samples, target) ==
  samples = <<>> \/ PercentileWithin(samples, target)

\* latency_check: a latency budget cannot pass without evidence.
LatencyMet(samples, target) ==
  samples # <<>> /\ PercentileWithin(samples, target)

\* Response time when any was recorded, RTT otherwise.
Basis(counts) == IF counts.response # <<>> THEN counts.response ELSE counts.rtt

\* The run's generator lag is its worst agent's (GeneratorHealth).
LagMet(lags, target) ==
  lags # {} /\ \A lag \in lags : PercentileWithin(lag, target)

ThroughputMet(counts, elapsed, floor) ==
  Max({counts.sent, counts.recv}) >= floor * elapsed

\* SloThresholds::or_from: threshold by threshold.
OrFrom(slo, fallback) ==
  [t \in DOMAIN slo |-> IF slo[t] # {} THEN slo[t] ELSE fallback[t]]

\* evaluate_slos, on merged counts, the agents' lags and the elapsed time.
EvaluateSlos(slo, counts, lags, elapsed) ==
  /\ \A target \in slo.latency : LatencyMet(Basis(counts), target)
  /\ \A max \in slo.errors : ErrorRateWithin(counts, max)
  /\ \A target \in slo.lag : LagMet(lags, target)
  /\ \A floor \in slo.throughput : ThroughputMet(counts, elapsed, floor)

\* with_action_slos: an action that sent nothing fails its checks.
ActionPasses(slo, counts) ==
  /\ \A target \in slo.latency : LatencyMet(Basis(counts), target)
  /\ \A max \in slo.errors :
       /\ counts.sent > 0 \/ counts.errs > 0
       /\ ErrorRateWithin(counts, max)

AllParts == UNION {verRuns[i].parts : i \in DOMAIN verRuns}

\* scenario_slo_evaluation: it passes only when every check of the whole
\* scenario and every check of every phase that ran did.
ScenarioPasses(overall, phases) == overall /\ \A i \in DOMAIN phases : phases[i]

\* merge_scenario: every phase that ran is checked on its own parts; the
\* whole run on all of them, but on the lag of the agents that were never
\* lost only.  A phase lasts one unit of time.
Passed ==
  LET overall ==
        EvaluateSlos(OrFrom(verSlo.flags, verSlo.scenario), MergeCounts("all", AllParts),
                     AgentLags({p \in AllParts : p.agent \notin verLost}), Len(verRuns))
      phases == [i \in DOMAIN verRuns |->
        EvaluateSlos(verSlo.phase[verRuns[i].index], MergeCounts("all", verRuns[i].parts),
                     AgentLags(verRuns[i].parts), 1)]
  IN ScenarioPasses(overall, phases) /\ ActionPasses(verSlo.action, MergeCounts("act", AllParts))

\* exit_if_nothing_connected.
NothingConnected ==
  Total(LAMBDA p : p.conns, AllParts) > 0 /\ Established(AllParts) = 0

----------------------------------------------------------------------------
(* The run. *)

VerdictInit ==
  /\ verSlo \in VerSlos
  /\ verIndex = 0 /\ verCancel = FALSE
  /\ verRuns = <<>> /\ verLost = {} /\ verExit = -1

Links == VerAgents \ verLost

\* The scenario's loop goes on to another phase.
MorePhases ==
  verExit = -1 /\ ~verCancel /\ Links # {} /\ verIndex < VerPhases

\* run_phase: every agent of the run returns a result or is lost, at the
\* barrier or while it runs.  A phase nobody finished is left out of `runs`.
RunPhase ==
  \E finished \in SUBSET Links :
    \E result \in [finished -> VerResults] :
      LET parts == {[result[a] EXCEPT !.agent = a, !.phase = verIndex + 1] : a \in finished}
      IN /\ MorePhases
         /\ verIndex' = verIndex + 1
         /\ verLost' = verLost \cup (Links \ finished)
         /\ verRuns' = IF finished = {} THEN verRuns
                       ELSE Append(verRuns, [index |-> verIndex + 1, parts |-> parts])
         /\ UNCHANGED <<verSlo, verCancel, verExit>>

\* The barrier of the first phase: one agent that refuses it, or an interrupt,
\* ends the run with an error.
FirstBarrierFails ==
  /\ MorePhases /\ verIndex = 0
  /\ verExit' = 1
  /\ UNCHANGED <<verSlo, verIndex, verCancel, verRuns, verLost>>

\* Between phases, or at the barrier of a later one.
InterruptRun ==
  /\ MorePhases /\ verIndex > 0
  /\ verCancel' = TRUE
  /\ UNCHANGED <<verSlo, verIndex, verRuns, verLost, verExit>>

\* run_distributed: an SLO breach before a lost agent, and that before a run
\* in which nothing connected; an error when there is nothing to merge.
ExitCode ==
  IF verRuns = <<>> THEN 1
  ELSE IF ~Passed THEN 2
  ELSE IF verLost # {} \/ NothingConnected THEN 1 ELSE 0

DecideExit ==
  /\ verExit = -1 /\ ~MorePhases
  /\ verExit' = ExitCode
  /\ UNCHANGED <<verSlo, verIndex, verCancel, verRuns, verLost>>

VerdictEnded == verExit # -1 /\ UNCHANGED verdictVars

VerdictNext == RunPhase \/ FirstBarrierFails \/ InterruptRun \/ DecideExit \/ VerdictEnded

----------------------------------------------------------------------------
(* What the exit code says, in terms of the single parts. *)

\* The thresholds in effect, each with the parts it is about.
Gates ==
  LET run == OrFrom(verSlo.flags, verSlo.scenario)
      gates(kind, of, slo, parts) ==
        {[kind |-> kind, of |-> of, bound |-> b, parts |-> parts] : b \in slo[kind]}
  IN gates("latency", "all", run, AllParts)
     \cup gates("errors", "all", run, AllParts)
     \cup gates("lag", "all", run, {p \in AllParts : p.agent \notin verLost})
     \cup gates("latency", "act", verSlo.action, AllParts)
     \cup gates("errors", "act", verSlo.action, AllParts)
     \cup UNION {gates(kind, "all", verSlo.phase[verRuns[i].index], verRuns[i].parts) :
                   kind \in {"latency", "errors", "lag"}, i \in DOMAIN verRuns}

\* The parts that have something to say about a gate: once any part of it
\* recorded response times, only those with one do.
Evidence(g) ==
  LET paced == \E p \in g.parts : p[g.of].response # <<>>
  IN CASE g.kind = "latency" ->
            {p \in g.parts : IF paced THEN p[g.of].response # <<>> ELSE p[g.of].rtt # <<>>}
       [] g.kind = "errors" -> {p \in g.parts : p[g.of].sent > 0 \/ p[g.of].errs > 0}
       [] g.kind = "lag" -> {p \in g.parts : p.lag # <<>>}

\* Would this part alone pass the gate?
Meets(p, g) ==
  CASE g.kind = "latency" -> PercentileWithin(Basis(p[g.of]), g.bound)
    [] g.kind = "errors" -> p[g.of].errs * 100 <= g.bound * Attempted(p[g.of])
    [] g.kind = "lag" -> PercentileWithin(p.lag, g.bound)

\* Some throughput floor is set: a floor is about a sum, no part decides it.
Floors ==
  \/ OrFrom(verSlo.flags, verSlo.scenario).throughput # {}
  \/ \E i \in DOMAIN verRuns : verSlo.phase[verRuns[i].index].throughput # {}

\* Nothing shows that the gate is missed: some part with evidence meets it; an
\* error rate of the run needs none.
Upheld(g) ==
  \/ \E p \in Evidence(g) : Meets(p, g)
  \/ g.kind = "errors" /\ g.of = "all" /\ Evidence(g) = {}

NobodyConnected ==
  (\E p \in AllParts : p.conns > 0) /\ \A p \in AllParts : p.open = 0

\* The exit code of a distributed scenario means what the documentation of
\* run_cli and run_distributed says, whichever agents are lost and wherever
\* the run stops.  0: no agent was lost and something connected.  1: there is
\* no result, an agent was lost or nothing connected.  With either code no
\* threshold in effect is one that every part with evidence misses, nor a
\* latency, lag or action threshold without any evidence: a breach comes before
\* lost agents and failed connections (docs/ci.md, section 1).  2: some part by
\* itself misses a threshold in effect, or a threshold has no evidence at all
\* (as the lag of a run that every agent left in the end).
VerdictSound ==
  /\ verExit = 0 => verRuns # <<>> /\ verLost = {} /\ ~NobodyConnected
  /\ verExit = 1 => verRuns = <<>> \/ verLost # {} \/ NobodyConnected
  /\ verExit \in {0, 1} /\ verRuns # <<>> => \A g \in Gates : Upheld(g)
  /\ verExit = 2 /\ ~Floors =>
       \E g \in Gates :
         \/ \E p \in Evidence(g) : ~Meets(p, g)
         \/ Evidence(g) = {} /\ ~(g.kind = "errors" /\ g.of = "all")
=============================================================================
