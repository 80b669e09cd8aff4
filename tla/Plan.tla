-------------------------------- MODULE Plan ---------------------------------
(***************************************************************************)
(* How options become the configurations that run: the builder's checks    *)
(* (src/config.rs), the phases of a scenario compiled and laid over the    *)
(* base configuration, the split into one share per agent (plan of         *)
(* src/distributed/protocol.rs), and the configuration an agent builds     *)
(* from its share with the same checks.  A check that fails ends the way   *)
(* of the options; only whether all of them pass is modelled.              *)
(*                                                                         *)
(* An Option is a set of at most one element, and so is a Result: the      *)
(* empty set is None or Err.  A text is the set of names it has between    *)
(* double braces, so parsing it as a template depends on the names that    *)
(* are known.                                                              *)
(***************************************************************************)
EXTENDS Shares, FiniteSets, FiniteSetsExt, SequencesExt

CONSTANTS
  PlanInputs,    \* families of command lines, with a scenario or not: a sequence
                 \*   of sets of [opts, agents, phases, selected, url, target, slo]
  MaxRate        \* MAX_ARRIVAL_RATE

VARIABLES
  planIn,        \* the command line, a member of one of the families
  planAt,        \* "options", "config", "planned" or "rejected"
  planConfigs,   \* the configurations to run: one, or one per phase
  planShares,    \* per configuration, the shares of the agents
  planAgents     \* per configuration and agent: Option of its configuration

planVars == <<planIn, planAt, planConfigs, planShares, planAgents>>

Ok(good, value) == IF good THEN {value} ELSE {}
The(option) == CHOOSE v \in option : TRUE
Default(option, value) == IF option = {} THEN value ELSE The(option)
MapOption(option, Op(_)) == {Op(v) : v \in option}

Modes == {"echo", "stream", "listen", "graphql-ws", "socketio"}
AwaitsReplies(mode) == mode \in {"echo", "socketio"}

----------------------------------------------------------------------------
(* Texts.                                                                  *)

DataNames == {"data.user", "data.other"}
Columns == {"data.user"}        \* of the data file

\* Template::parse_with_vars: the placeholders among a text's names.
Parts(source, vars) ==
  source \cap ({"seq", "worker_id"} \cup vars \cup DataNames)

\* PayloadConfig::from_text_with_vars.
FromText(source, vars) ==
  [kind |-> IF Parts(source, vars) = {} THEN "static" ELSE "dynamic",
   source |-> source, parts |-> Parts(source, vars)]
BinaryPayload == [kind |-> "binary", source |-> {}, parts |-> {}]

\* Template::check_data: every column a template reads is one of the file's.
CheckData(parts, data) == parts \cap DataNames \subseteq IF data = {} THEN {} ELSE Columns

\* split_header_templates: a value with placeholders must fill in, and give a
\* header value with every row; "breaks" is a file with a line break in a row.
HeaderOk(value, data) ==
  LET parts == Parts(value, {})
  IN CheckData(parts, data) /\ (parts \cap DataNames # {} => "breaks" \notin data)

\* Check::parse_flag and flag_value; a value that is not JSON is a string,
\* and is spelled as a JSON string afterwards.
ParseFlag(flag) ==
  Ok(flag \in {"contains:x", "json:/p", "json:/p=ok", "json:/p=\"ok\""},
     IF flag = "json:/p=ok" THEN "json:/p=\"ok\"" ELSE flag)

----------------------------------------------------------------------------
(* LoadTestConfigBuilder::build.                                           *)

Targets(stages) == {stages[i].target : i \in DOMAIN stages}
StagesValid(stages, ramp) == ramp = 0 /\ \A i \in DOMAIN stages : stages[i].duration > 0

ExpectedConnections(a) ==
  LET open == Max({1, (a.rate * a.session + a.div - 1) \div a.div})
  IN Max({1, Min({open} \cup a.max)})

\* The rate is the fraction rate / div.
ArrivalValues(a) == a.rate \in 1 .. MaxRate /\ a.session > 0 /\ 0 \notin a.max
ArrivalsValid(o) ==
  \A a \in o.arrivals : ArrivalValues(a) /\ o.stages = <<>> /\ o.ramp_rate = 0

\* connections as build computes them.
Sized(o) ==
  [o EXCEPT !.connections =
     IF o.stages # <<>> THEN Max(Targets(o.stages))
     ELSE IF o.arrivals # {} THEN ExpectedConnections(The(o.arrivals)) ELSE @]

\* validate_graphql: options only in their mode, a query in it.
GraphqlValid(o) ==
  IF o.mode = "graphql-ws" THEN o.graphql = {"query"} ELSE o.graphql = {}

\* SocketIoOptions::compile, check_url and socketio_url.
Engine(version) == IF version = 2 THEN "3" ELSE "4"
SocketIoValid(o) ==
  IF o.mode = "socketio"
  THEN /\ \A v \in o.socketio : v \in {2, 3, 4}
       /\ o.eio \in {"none", Engine(Default(o.socketio, 4))}
  ELSE o.socketio = {}
SetEio(c) == [c EXCEPT !.eio = IF c.mode = "socketio" THEN Engine(The(c.socketio)) ELSE @]

\* validate_reply_match over the payloads a worker may send.
ReplyMatchValid(match, mode, payloads) ==
  /\ match # "first" => mode = "echo"
  /\ match = "json:/p" => \A p \in payloads : p.kind = "dynamic" /\ "seq" \in p.parts

\* validate_slo and validate_latency_mode; error rates in percent.
SloValid(slo, mode) ==
  /\ slo.error_rate \subseteq 0 .. 100
  /\ slo.latency => AwaitsReplies(mode)

\* ChaosConfig::validate, is_active and acts_on_sends; validate_chaos_mode.
ChaosPercents(ch) == ch.drop \in 0 .. 100 /\ ch.corrupt \in 0 .. 100 /\ ch.drop + ch.corrupt <= 100
ActsOnSends(ch) == ch.drop > 0 \/ ch.corrupt > 0
ChaosActive(ch) == ActsOnSends(ch) \/ ch.pause
ChaosMode(ch, mode, scripted) ==
  ActsOnSends(ch) => scripted \/ AwaitsReplies(mode) \/ mode = "stream"

Build(o) ==
  LET c == Sized(o)
      expect == UNION {ParseFlag(flag) : flag \in o.expect}
  IN Ok(/\ ArrivalsValid(o)
        /\ o.stages # <<>> => StagesValid(o.stages, o.ramp_rate)
        /\ c.connections > 0
        /\ 0 \notin o.max_requests
        /\ o.match \in {"first", "exact", "json:/p"}
        /\ GraphqlValid(o) /\ SocketIoValid(o)
        /\ ReplyMatchValid(o.match, o.mode, {o.payload})
        /\ SloValid(o.slo, o.mode)
        /\ CheckData(o.payload.parts, o.data)
        /\ HeaderOk(o.header, o.data)
        /\ Cardinality(expect) = Cardinality(o.expect)
        /\ o.expect # {} => AwaitsReplies(o.mode)
        /\ \A ch \in o.chaos :
             ChaosPercents(ch) /\ (ChaosActive(ch) => ChaosMode(ch, o.mode, FALSE)),
        SetEio([c EXCEPT !.expect = expect, !.chaos = {ch \in o.chaos : ChaosActive(ch)},
                         !.socketio = IF o.mode = "socketio" THEN {Default(@, 4)} ELSE @]))

----------------------------------------------------------------------------
(* Scenario phases.                                                        *)

\* ScenarioPhase::compile_arrivals: None without the keys, else the model.
CompileArrivals(ph) ==
  IF ph.arrival_rate = {}
  THEN Ok(ph.session = {} /\ ph.max = {}, {})
  ELSE IF ph.session = {} THEN {}
  ELSE LET a == [rate |-> The(ph.arrival_rate), div |-> 1, session |-> The(ph.session), max |-> ph.max]
       IN Ok(ph.connections = {} /\ ph.ramp_rate = {} /\ ph.stages = {} /\ ArrivalValues(a), {a})

\* The load of a phase: arrivals, stages, or connections with a duration.
CompileLoad(ph, arrivals) ==
  LET d == Default(ph.duration, 0)
  IN IF arrivals # {}
     THEN Ok(d > 0, [connections |-> ExpectedConnections(The(arrivals)), ramp_rate |-> 0, stages |-> <<>>])
     ELSE IF ph.stages # {}
     THEN LET st == The(ph.stages)
          IN Ok(/\ ph.connections = {} /\ ph.duration = {} /\ ph.ramp_rate = {}
                /\ st # <<>> /\ StagesValid(st, 0) /\ Targets(st) # {0},
                [connections |-> Max({0} \cup Targets(st)), ramp_rate |-> 0, stages |-> st])
     ELSE Ok(Default(ph.connections, 0) > 0 /\ d > 0,
             [connections |-> Default(ph.connections, 0), ramp_rate |-> Default(ph.ramp_rate, 0),
              stages |-> <<>>])

\* phase_vars, phase_action_names and the SLOs of actions.
VarsOf(ph) == UNION {ph.actions[i].capture : i \in DOMAIN ph.actions}
VarNameOk(name) == name \notin {"seq", "worker_id", "data"}
NamesOf(ph) == UNION {ph.actions[i].name : i \in DOMAIN ph.actions}

\* ScenarioAction::compile.
ActionOk(act) ==
  CASE act.do = "send" -> /\ act.count > 0 /\ \A e \in act.expect : ParseFlag(e) # {}
                          /\ act.slo => act.name # {}
    [] act.do \in {"wait", "ping"} -> act.duration > 0
    [] act.do = "close" -> act.code \in {1000, 4000}
CompileAction(act, vars) ==
  [act EXCEPT !.payload = MapOption(@, LAMBDA text : FromText(text, vars))]

CompilePhase(ph) ==
  LET arrivals == CompileArrivals(ph)
      load == UNION {CompileLoad(ph, a) : a \in arrivals}
      vars == VarsOf(ph)
  IN Ok(/\ load # {}
        /\ \A v \in vars : VarNameOk(v)
        /\ \A i \in DOMAIN ph.actions : ActionOk(ph.actions[i])
        /\ ph.slo.error_rate \subseteq 0 .. 100
        /\ \A ch \in ph.chaos : ChaosPercents(ch),
        [load |-> The(load), arrivals |-> The(arrivals),
         payload |-> MapOption(ph.payload, LAMBDA text : FromText(text, vars)),
         actions |-> [i \in DOMAIN ph.actions |-> CompileAction(ph.actions[i], vars)],
         vars |-> vars, names |-> NamesOf(ph), slo |-> ph.slo, chaos |-> ph.chaos])

\* The phases that run, and selected_phase's unknown name.
Running(s) == IF s.selected = {} THEN s.phases
              ELSE SelectSeq(s.phases, LAMBDA ph : ph.title \in s.selected)

\* resolve_phase_targets: the command line, the phase, then the scenario.
TargetOf(s, ph) == IF s.url # {} THEN s.url ELSE IF ph.target # {} THEN ph.target ELSE s.target

\* phase_config and set_target: the phase laid over the base configuration;
\* chaos of its own replaces the base's and may turn it off.
PhaseConfig(c, p, eio) ==
  SetEio([c EXCEPT !.connections = p.load.connections, !.ramp_rate = p.load.ramp_rate,
            !.stages = p.load.stages, !.arrivals = p.arrivals,
            !.payload = Default(p.payload, @), !.eio = eio,
            !.chaos = IF p.chaos = {} THEN @ ELSE {ch \in p.chaos : ChaosActive(ch)}])

\* validate_slo_mode and validate_phases.
PayloadsOf(p, c) ==
  LET own == Default(p.payload, c.payload)
  IN {own} \cup {Default(p.actions[i].payload, own) :
                   i \in {j \in DOMAIN p.actions : p.actions[j].do = "send"}}
PhaseFits(p, c) ==
  /\ SloValid(p.slo, c.mode)
  /\ \A ch \in p.chaos : ChaosActive(ch) => ChaosMode(ch, c.mode, p.actions # <<>>)
  /\ \A i \in DOMAIN p.actions :
       LET act == p.actions[i]
       IN act.expect # {} \/ act.capture # {} => AwaitsReplies(c.mode)
  /\ \A text \in PayloadsOf(p, c) : CheckData(text.parts, c.data)
  /\ ReplyMatchValid(c.match, c.mode, PayloadsOf(p, c))

\* ScenarioConfig::validate, slo and action_slos: every phase is compiled,
\* also one that does not run; titles are unique, and an action has one SLO,
\* which counts when a phase that runs has an action of that name.
ActionSlos(s) ==
  {ij \in (DOMAIN s.phases) \X (1 .. 2) :
     ij[2] \in DOMAIN s.phases[ij[1]].actions /\ s.phases[ij[1]].actions[ij[2]].slo}
NameAt(s, ij) == s.phases[ij[1]].actions[ij[2]].name
ScenarioValid(s, mode) ==
  /\ SloValid(s.slo, mode)
  /\ \A i, j \in DOMAIN s.phases : s.phases[i].title = s.phases[j].title => i = j
  /\ \A i \in DOMAIN s.phases : CompilePhase(s.phases[i]) # {}
  /\ \A x, y \in ActionSlos(s) : NameAt(s, x) = NameAt(s, y) => x = y
  /\ \A x \in ActionSlos(s), ph \in ToSet(Running(s)) :
       NameAt(s, x) \subseteq NamesOf(ph) => AwaitsReplies(mode)
  /\ \A ph \in ToSet(Running(s)) : TargetOf(s, ph) # {}

\* from_scenario_config: the command line with the target of the first phase
\* that runs, and then that phase's payload, which a later phase without a
\* payload of its own inherits.
ScenarioBase(s) ==
  LET run == Running(s)
      target == IF run = <<>> THEN {} ELSE TargetOf(s, Head(run))
      first == IF run = <<>> THEN {} ELSE CompilePhase(Head(run))
      base == Build([s.opts EXCEPT !.eio = Default(target, "none")])
  IN IF s.opts.stages # <<>> \/ target = {} \/ first = {} THEN {}
     ELSE MapOption(base, LAMBDA c : [c EXCEPT !.payload = Default(The(first).payload, @)])

Rejected == planAt' = "rejected" /\ UNCHANGED <<planConfigs, planShares, planAgents>>
Accepted(configs) ==
  planAt' = "config" /\ planConfigs' = configs /\ UNCHANGED <<planShares, planAgents>>

\* from_cli without a scenario.
BuildConfig ==
  /\ planAt = "options" /\ planIn.phases = <<>>
  /\ LET base == Build(planIn.opts)
     IN IF base = {} THEN Rejected ELSE Accepted(<<The(base)>>)
  /\ UNCHANGED planIn

\* The phases that run, laid over the base configuration.
BuildPhases ==
  /\ planAt = "options" /\ planIn.phases # <<>>
  /\ LET base == ScenarioBase(planIn)
         run == Running(planIn)
         Compiled(i) == The(CompilePhase(run[i]))
     IN IF base = {} THEN Rejected
        ELSE IF /\ ScenarioValid(planIn, The(base).mode)
                /\ \A i \in DOMAIN run : PhaseFits(Compiled(i), The(base))
        THEN Accepted([i \in DOMAIN run |->
               PhaseConfig(The(base), Compiled(i), The(TargetOf(planIn, run[i])))])
        ELSE Rejected
  /\ UNCHANGED planIn

----------------------------------------------------------------------------
(* The coordinator's split.                                                *)

\* from_config: what a share carries as text, and whether it can be sent.
WirePayload(p) == IF p.kind = "binary" THEN [kind |-> "binary", source |-> {}]
                  ELSE [kind |-> "text", source |-> p.source]
CanBeSent(c) == c.header # {"opaque"}
WireVersion(c) == MapOption(c.socketio, LAMBDA v : IF Engine(v) = "3" THEN 2 ELSE 4)

\* Mutant: requests are split without asking for one per agent.
CanSplitRequests(c, agents) ==
  /\ agents > 0
  /\ c.source_ips = 0
  /\ \A a \in c.arrivals : \A max \in a.max : max >= agents
  /\ c.arrivals = {} => c.connections >= agents
  /\ c.ramp_rate > 0 => c.ramp_rate >= agents

\* plan: a share that would be zero, or a setting of this machine.
CanSplit(c, agents) ==
  /\ agents > 0
  /\ c.source_ips = 0
  /\ \A a \in c.arrivals : \A max \in a.max : max >= agents
  /\ c.arrivals = {} => c.connections >= agents
  /\ \A n \in c.max_requests : n >= agents
  /\ c.ramp_rate > 0 => c.ramp_rate >= agents

\* The share of an agent.
ShareOf(c, index, agents) ==
  [c EXCEPT !.connections = Split(@, index, agents),
            !.ramp_rate = Split(@, index, agents),
            !.max_requests = MapOption(@, LAMBDA n : Split(n, index, agents)),
            !.arrivals = MapOption(@, LAMBDA a :
               [a EXCEPT !.div = @ * agents, !.max = MapOption(@, LAMBDA max : Split(max, index, agents))]),
            !.payload = WirePayload(@),
            !.socketio = WireVersion(c)]

AllShares == [i \in DOMAIN planConfigs |->
             [a \in 0 .. planIn.agents - 1 |-> ShareOf(planConfigs[i], a, planIn.agents)]]

\* Coordinator::new and scenario: every phase must split before any runs.
PlanShares ==
  /\ planAt = "config"
  /\ IF \A i \in DOMAIN planConfigs :
          CanSplit(planConfigs[i], planIn.agents) /\ CanBeSent(planConfigs[i])
     THEN /\ planAt' = "planned" /\ planShares' = AllShares
          /\ planAgents' = [i \in DOMAIN planConfigs |-> [a \in 0 .. planIn.agents - 1 |-> "waiting"]]
          /\ UNCHANGED planConfigs
     ELSE Rejected
  /\ UNCHANGED planIn

----------------------------------------------------------------------------
(* An agent.                                                               *)

\* from_phase and into_phase: the script of the phase that goes with a share.
Script(i) == IF planIn.phases = <<>> THEN {} ELSE CompilePhase(Running(planIn)[i])
IntoPhase(p) ==
  /\ \A v \in p.vars : VarNameOk(v)
  /\ \A i \in DOMAIN p.actions : ActionOk(p.actions[i]) /\ p.actions[i].name \subseteq p.names
                                 /\ p.actions[i].capture \subseteq p.vars

\* into_config: the builder again; chaos is checked with the script at hand,
\* and a stage share takes its part of the highest target.
IntoConfig(wire, i, index, agents) ==
  LET plain == Build([wire EXCEPT !.payload = IF @.kind = "binary" THEN BinaryPayload ELSE FromText(@.source, {}),
                        !.chaos = {}, !.slo = [latency |-> FALSE, error_rate |-> {}]])
      scripted == \E p \in Script(i) : p.actions # <<>>
      share == IF wire.stages = <<>> THEN The(plain).connections
               ELSE Split(The(plain).connections, index, agents)
  IN IF plain = {} THEN {}
     ELSE Ok(/\ \A ch \in wire.chaos : ChaosPercents(ch) /\ ChaosMode(ch, wire.mode, scripted)
             /\ share > 0
             /\ \A p \in Script(i) : IntoPhase(p),
             [The(plain) EXCEPT !.connections = share, !.chaos = wire.chaos])

AgentBuilds(i, a) ==
  /\ planAt = "planned" /\ planAgents[i][a] = "waiting"
  /\ planAgents' = [planAgents EXCEPT ![i][a] =
       IF IntoConfig(planShares[i][a], i, a, planIn.agents) # {} THEN "ready" ELSE "refused"]
  /\ UNCHANGED <<planIn, planAt, planConfigs, planShares>>

PlanInit ==
  /\ \E family \in DOMAIN PlanInputs : planIn \in PlanInputs[family]
  /\ planAt = "options"
  /\ planConfigs = <<>> /\ planShares = <<>> /\ planAgents = <<>>

PlanTerminated ==
  /\ \/ planAt = "rejected"
     \/ /\ planAt = "planned"
        /\ \A i \in DOMAIN planAgents : \A a \in DOMAIN planAgents[i] : planAgents[i][a] # "waiting"
  /\ UNCHANGED planVars

PlanNext ==
  \/ BuildConfig \/ BuildPhases \/ PlanShares
  \/ \E i \in DOMAIN planAgents : \E a \in DOMAIN planAgents[i] : AgentBuilds(i, a)
  \/ PlanTerminated

----------------------------------------------------------------------------
Sums(i, Field(_)) ==
  MapThenSumSet(LAMBDA a : Field(planShares[i][a]), DOMAIN planShares[i])

\* The rows of the data file that connections use: DataSet::row_for.
RowsOf(i, connections, agents) ==
  {w * agents + a : <<a, w>> \in
     {aw \in (0 .. agents - 1) \X (0 .. connections) : aw[2] < Split(connections, aw[1], agents)}}

\* What the coordinator has accepted and split, every agent accepts: no run
\* fails at the start barrier over its options.  The shares add up to the
\* run: its connections (at every stage target), its ramp, its requests and
\* its cap on sessions; and the agents' connections use the rows of the data
\* file that a single machine's would (src/distributed/protocol.rs:485,
\* src/data.rs:96).
SharesAccepted ==
  planAt = "planned" =>
    \A i \in DOMAIN planShares :
      LET c == planConfigs[i]
          n == planIn.agents
      IN /\ \A a \in DOMAIN planAgents[i] : planAgents[i][a] # "refused"
         /\ Sums(i, LAMBDA s : s.connections) = c.connections
         /\ Sums(i, LAMBDA s : s.ramp_rate) = c.ramp_rate
         /\ \A total \in c.max_requests : Sums(i, LAMBDA s : The(s.max_requests)) = total
         /\ \A a \in c.arrivals : \A max \in a.max :
              Sums(i, LAMBDA s : The(The(s.arrivals).max)) = max
         /\ \A target \in Targets(c.stages) \cup {c.connections} :
              RowsOf(i, target, n) = 0 .. target - 1
============================================================================
