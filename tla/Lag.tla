-------------------------------- MODULE Lag ---------------------------------
(***************************************************************************)
(* The generator's saturation probe (src/lag.rs): a task that sleeps one   *)
(* period at a time and records how late it wakes, in total and for every  *)
(* time-series interval; the totals of an agent's phases are added, and    *)
(* the coordinator reports the health of its worst agent (GeneratorHealth  *)
(* of src/distributed/coordinator.rs).                                     *)
(*                                                                         *)
(* Probes share nothing before they are merged, so the model runs the      *)
(* machines, and each one's phases, one after the other.  Time is in       *)
(* units of the probe's period.  Histograms keep values exactly; the       *)
(* code's are within 1%.                                                   *)
(***************************************************************************)
EXTENDS Integers, Sequences, FiniteSets, FiniteSetsExt, SequencesExt

CONSTANTS
  LagWakes,        \* bound: wake-ups of each phase of each machine
  LagMax,          \* bound: how late a wake-up is
  LagThreshold,    \* each machine's DEFAULT_THRESHOLD
  LagInterval,     \* periods of an interval
  LateInRun,       \* MIN_LATE_IN_RUN
  LateInInterval,  \* MIN_LATE_IN_INTERVAL
  LagShare         \* INTERVAL_SHARE_PERCENT

ASSUME LagAssumption ==
  /\ LagWakes \in Seq(Seq(Nat)) /\ LagWakes # <<>>
  /\ LagThreshold \in [DOMAIN LagWakes -> Nat]
  /\ LagMax \in Nat
  /\ {LagInterval, LateInRun, LateInInterval, LagShare} \subseteq Nat \ {0}

VARIABLES
  lagAt,         \* [machine, phase] whose probe runs
  lagProbe,      \* the probe's deadline and LagRecord; see SpawnProbe
  lagTotals,     \* LagTotals of the machine's phases so far
  lagAgents,     \* what each finished machine reports
  lagHealth,     \* GeneratorHealth's lag, at most one
  lagSeen        \* history: every wake-up [machine, phase, due, lag]

lagVars == <<lagAt, lagProbe, lagTotals, lagAgents, lagHealth, lagSeen>>

\* The value at quantile 0.99 of a sequence of samples, which is one of the
\* last few when there are few: the sample of rank ceil(0.99 n), at least 1.
P99(samples) ==
  SortSeq(samples, <)[Max({1, (Len(samples) * 99 + 99) \div 100})]
LateOnes(samples, threshold) == SelectSeq(samples, LAMBDA us : us > threshold)
Largest(samples) == Max(ToSet(samples))

----------------------------------------------------------------------------
\* LagProbe::spawn: the first sleep is due after one period.
SpawnProbe ==
  [deadline |-> 1, hist |-> <<>>, intervals |-> {}, over |-> 0,
   current |-> <<>>, index |-> 0]

\* LagTotals::default.
NoTotals == [hist |-> <<>>, intervals |-> 0, over |-> 0]

LagInit ==
  /\ lagAt = [machine |-> 1, phase |-> 1]
  /\ lagProbe = SpawnProbe
  /\ lagTotals = NoTotals
  /\ lagAgents = <<>> /\ lagHealth = {} /\ lagSeen = <<>>

Probing == lagAt.machine \in DOMAIN LagWakes

\* LagRecord::close_interval: the interval's p99 and maximum replace whatever
\* the map holds for its index.
CloseInterval(probe, threshold) ==
  LET p99 == P99(probe.current)
      over == p99 > threshold /\ Len(LateOnes(probe.current, threshold)) >= LateInInterval
  IN IF probe.current = <<>> THEN probe
     ELSE [probe EXCEPT
             !.over = IF over THEN @ + 1 ELSE @,
             !.intervals = {i \in @ : i.index # probe.index} \cup
                 {[index |-> probe.index, samples |-> Len(probe.current),
                   p99 |-> p99, max |-> Largest(probe.current)]},
             !.current = <<>>]

\* The probe wakes `late` units after its deadline and records it in the
\* interval in which the sleep was due (LagRecord::record).  A wake-up on time
\* counts as the smallest lag; the next sleep starts when it woke.
Wakes(late) ==
  LET index == lagProbe.deadline \div LagInterval
      micros == Max({1, late})
      closed == IF index # lagProbe.index
                THEN CloseInterval(lagProbe, LagThreshold[lagAt.machine])
                ELSE lagProbe
  IN /\ Probing /\ Len(lagProbe.hist) < LagWakes[lagAt.machine][lagAt.phase]
     /\ lagProbe' = [closed EXCEPT !.hist = Append(@, micros),
                                   !.index = index,
                                   !.current = Append(@, micros),
                                   !.deadline = @ + late + 1]
     /\ lagSeen' = Append(lagSeen, [machine |-> lagAt.machine, phase |-> lagAt.phase,
                                    due |-> lagProbe.deadline, lag |-> micros])
     /\ UNCHANGED <<lagAt, lagTotals, lagAgents, lagHealth>>

\* LagTotals::add, over the wire form of an agent's record (WireLag).
AddTotals(totals, probe) ==
  [hist |-> totals.hist \o probe.hist,
   intervals |-> totals.intervals + Cardinality(probe.intervals),
   over |-> totals.over + probe.over]

\* LagTotals::summary; without a sample there is none.
Summary(totals, threshold) ==
  LET p99 == P99(totals.hist)
      late == Len(LateOnes(totals.hist, threshold))
  IN IF totals.hist = <<>> THEN {}
     ELSE {[samples |-> Len(totals.hist), p99 |-> p99, max |-> Largest(totals.hist),
            saturated |-> \/ p99 > threshold /\ late >= LateInRun
                          \/ /\ totals.over > 0
                             /\ totals.over * 100 >= totals.intervals * LagShare]}

\* LagProbe::finish at the end of a phase; after the machine's last phase its
\* summary is ready.
StopWith(probe) ==
  LET totals == AddTotals(lagTotals, probe)
      m == lagAt.machine
      last == lagAt.phase = Len(LagWakes[m])
  IN /\ lagProbe' = SpawnProbe
     /\ lagAt' = IF last THEN [machine |-> m + 1, phase |-> 1]
                 ELSE [lagAt EXCEPT !.phase = @ + 1]
     /\ lagTotals' = IF last THEN NoTotals ELSE totals
     /\ lagAgents' = IF last THEN Append(lagAgents, Summary(totals, LagThreshold[m]))
                     ELSE lagAgents
     /\ UNCHANGED <<lagHealth, lagSeen>>

StopProbeOpen == Probing /\ StopWith(lagProbe)
StopProbe == Probing /\ StopWith(CloseInterval(lagProbe, LagThreshold[lagAt.machine]))

\* GeneratorHealth::of: the first of the agents with the highest p99, then
\* maximum, flagged when any agent is.
Worse(a, b) == a.p99 > b.p99 \/ (a.p99 = b.p99 /\ a.max > b.max)
JudgeHealth ==
  LET measured == {m \in DOMAIN lagAgents : lagAgents[m] # {}}
      lag == [m \in measured |-> CHOOSE s \in lagAgents[m] : TRUE]
      worst == {m \in measured : \A o \in measured \ {m} :
                  Worse(lag[m], lag[o]) \/ (m < o /\ ~Worse(lag[o], lag[m]))}
  IN /\ ~Probing /\ lagHealth = {}
     /\ lagHealth' = {[agent |-> m, p99 |-> lag[m].p99, max |-> lag[m].max,
                       saturated |-> \E o \in measured : lag[o].saturated] : m \in worst}
     /\ UNCHANGED <<lagAt, lagProbe, lagTotals, lagAgents, lagSeen>>

LagEnded == ~Probing /\ lagHealth # {} /\ UNCHANGED lagVars

LagNext ==
  (\E late \in 0 .. LagMax : Wakes(late)) \/ StopProbe \/ JudgeHealth \/ LagEnded

----------------------------------------------------------------------------
\* The wake-ups of machine m in interval i of phase p, straight from the
\* history; and the verdict METHODOLOGY.md section 14 gives on them.
LagsOf(test(_)) ==
  LET of == SelectSeq(lagSeen, test)
  IN [i \in DOMAIN of |-> of[i].lag]
Overloaded(samples, threshold, least) ==
  samples # <<>> /\ P99(samples) > threshold /\
    Cardinality({i \in DOMAIN samples : samples[i] > threshold}) >= least
Saturated(m) ==
  LET slots == {<<w.phase, w.due \div LagInterval>> :
                  w \in {w \in ToSet(lagSeen) : w.machine = m}}
      over == {s \in slots :
                 Overloaded(LagsOf(LAMBDA w : /\ w.machine = m /\ w.phase = s[1]
                                              /\ w.due \div LagInterval = s[2]),
                            LagThreshold[m], LateInInterval)}
  IN \/ Overloaded(LagsOf(LAMBDA w : w.machine = m), LagThreshold[m], LateInRun)
     \/ /\ over # {}
        /\ Cardinality(over) * 100 >= Cardinality(slots) * LagShare

\* The run is flagged as saturated exactly when some machine's wake-ups, taken
\* together or by interval over all its phases, are too late for its own
\* threshold, and the lag reported is no machine's p99 or more below it: no
\* interval is forgotten, judged twice or split when the probe stops or a
\* phase ends (LagRecord, LagTotals and GeneratorHealth::of).
LagVerdictExact ==
  \A h \in lagHealth :
    /\ h.saturated = \E m \in DOMAIN LagWakes : Saturated(m)
    /\ \A m \in DOMAIN LagWakes :
         LET all == LagsOf(LAMBDA w : w.machine = m)
         IN all # <<>> => P99(all) <= h.p99
    /\ h.p99 = P99(LagsOf(LAMBDA w : w.machine = h.agent))
=============================================================================
