---------------------------- MODULE MCPipelines -----------------------------
(***************************************************************************)
(* Parts of the system that share no state, checked in one run: the        *)
(* initial state chooses one of them, and only its variables change.  The  *)
(* state space is the sum of theirs.                                       *)
(***************************************************************************)
EXTENDS Connect, Deflate, MockServer, Plan, Series, Lag, Live, Verdict, Compare, TLC

\* A second frame "a" is answered twice; a second frame of either kind ends the
\* connection, unless the first rule takes it.
MCRules == << [matcher |-> "a", after |-> 2, replies |-> 2, close |-> FALSE],
              [matcher |-> "any", after |-> 2, replies |-> 1, close |-> TRUE] >>
\* Two machines.
MCReplies == <<2, 1>>
MCEnds == <<7, 4>>
\* A machine with two phases and one with one.
MCWakes == << <<3, 2>>, <<3>> >>
MCThresholds == <<1, 2>>

----------------------------------------------------------------------------
(* Plan: command lines and scenarios, in families in which related options *)
(* vary together.                                                          *)

Options(S) == {{}} \cup {{v} : v \in S}
NoPhaseSlo == [latency |-> FALSE, error_rate |-> {}]
Still == [drop |-> 0, corrupt |-> 0, pause |-> FALSE]
ChaosSettings == {Still, [Still EXCEPT !.pause = TRUE], [Still EXCEPT !.drop = 60],
                  [Still EXCEPT !.drop = 60, !.corrupt = 60]}
Slos == {NoPhaseSlo, [NoPhaseSlo EXCEPT !.latency = TRUE], [NoPhaseSlo EXCEPT !.error_rate = {101}]}

PlainOptions ==
  [connections |-> 3, ramp_rate |-> 0, stages |-> <<>>, arrivals |-> {}, max_requests |-> {},
   mode |-> "echo", match |-> "first", payload |-> FromText({}, {}), header |-> {}, data |-> {},
   source_ips |-> 0, expect |-> {}, chaos |-> {}, graphql |-> {}, socketio |-> {}, eio |-> "none",
   slo |-> NoPhaseSlo]

Single(o, n) == [opts |-> o, agents |-> n, phases |-> <<>>, selected |-> {}, url |-> {},
                 target |-> {}, slo |-> NoPhaseSlo]

Stage1(d, t) == [duration |-> d, target |-> t]
Profiles == {<<>>, <<Stage1(1, 0)>>, <<Stage1(0, 3)>>, <<Stage1(1, 4), Stage1(2, 1)>>}

\* The load model varies: every combination of its options.
LoadInputs ==
  {Single([PlainOptions EXCEPT !.connections = c, !.ramp_rate = r, !.stages = st,
             !.arrivals = a, !.max_requests = n], agents) :
     c \in {0, 1, 3, 4}, r \in {0, 1, 4}, st \in Profiles,
     a \in Options([rate : {0, 1, 5}, div : {1}, session : {0, 2}, max : Options({0, 1, 3})]),
     n \in Options({0, 2, 5}), agents \in 0 .. 3}

Payloads == {FromText(t, {}) : t \in {{}, {"seq"}, {"seq", "data.user"}, {"data.other"}}} \cup {BinaryPayload}

\* What is sent and expected varies.
MessageInputs ==
  {Single([PlainOptions EXCEPT !.mode = m, !.match = rm, !.payload = p, !.data = d, !.header = h,
             !.expect = e, !.graphql = IF m = "graphql-ws" THEN {"query"} ELSE {}], 2) :
     m \in Modes, rm \in {"first", "exact", "json:/p", "json:p"}, p \in Payloads,
     d \in Options({"rows", "breaks"}), h \in {{}, {"seq"}, {"data.user"}, {"opaque"}},
     e \in Options({"json:/p=ok", "contains:x", "json:p"})}

\* The protocol options vary.
ProtocolInputs ==
  {Single([PlainOptions EXCEPT !.mode = m, !.graphql = g, !.socketio = v, !.eio = eio,
             !.chaos = ch, !.slo = slo, !.source_ips = ips], 2) :
     m \in Modes, g \in Options({"query", "blank"}), v \in Options({2, 4, 9}),
     eio \in {"none", "3", "4"}, ch \in Options(ChaosSettings), slo \in Slos, ips \in {0, 1}}

PlainPhase ==
  [title |-> "one", target |-> {"none"}, connections |-> {3}, duration |-> {5}, ramp_rate |-> {},
   stages |-> {}, arrival_rate |-> {}, session |-> {}, max |-> {}, payload |-> {}, actions |-> <<>>,
   slo |-> NoPhaseSlo, chaos |-> {}]

\* A scenario sends the default payload unless its phases set one.
Scenario1(o, phases, n) ==
  [Single([o EXCEPT !.payload = FromText({"seq"}, {})], n) EXCEPT !.phases = phases]

\* The load of a phase varies.
PhaseLoadInputs ==
  {Scenario1(PlainOptions, <<[PlainPhase EXCEPT !.connections = c, !.duration = d, !.ramp_rate = r,
               !.stages = st, !.arrival_rate = a, !.session = s, !.max = max]>>, n) :
     c \in Options({0, 3}), d \in Options({0, 5}), r \in Options({2}),
     st \in Options(Profiles), a \in Options({1}), s \in Options({2}), max \in Options({1}), n \in {1, 3}}

Send == [do |-> "send", count |-> 1, payload |-> {}, expect |-> {}, capture |-> {}, name |-> {},
         slo |-> FALSE, duration |-> 0, code |-> 0]
Steps == {Send, [Send EXCEPT !.count = 0], [Send EXCEPT !.expect = {"json:/p"}],
          [Send EXCEPT !.capture = {"token"}], [Send EXCEPT !.capture = {"seq"}],
          [Send EXCEPT !.payload = {{"seq", "token"}}], [Send EXCEPT !.name = {"login"}, !.slo = TRUE],
          [Send EXCEPT !.slo = TRUE], [Send EXCEPT !.do = "wait", !.duration = 1],
          [Send EXCEPT !.do = "ping"], [Send EXCEPT !.do = "close", !.code = 1000],
          [Send EXCEPT !.do = "close", !.code = 1005]}

\* The script, the payload and the chaos of a phase vary.
ScriptInputs ==
  {Scenario1([PlainOptions EXCEPT !.mode = m, !.match = rm, !.chaos = base,
                !.graphql = IF m = "graphql-ws" THEN {"query"} ELSE {}],
             <<[PlainPhase EXCEPT !.actions = acts, !.payload = p, !.chaos = ch, !.slo = slo]>>, 2) :
     m \in Modes, rm \in {"first", "json:/p"}, base \in {{}, {[Still EXCEPT !.drop = 5]}},
     acts \in {<<>>} \cup {<<x>> : x \in Steps} \cup {<<[Send EXCEPT !.capture = {"token"}], x>> : x \in Steps},
     p \in Options({{}, {"token", "seq"}}), ch \in Options({Still, [Still EXCEPT !.drop = 60]}),
     slo \in {NoPhaseSlo, [NoPhaseSlo EXCEPT !.latency = TRUE]}}

\* Two phases: which run, and where.
PhasesInputs ==
  {[Scenario1([PlainOptions EXCEPT !.mode = "socketio", !.socketio = {2}],
      <<[PlainPhase EXCEPT !.title = "one", !.target = t1, !.actions = <<[Send EXCEPT !.name = {"login"}, !.slo = TRUE]>>],
        [PlainPhase EXCEPT !.title = t, !.target = {}, !.connections = {c}, !.actions = acts]>>, n)
      EXCEPT !.selected = sel, !.url = url, !.target = top] :
     t1 \in {{}, {"4"}}, t \in {"one", "two"}, c \in {0, 1, 3}, n \in {1, 2}, sel \in Options({"one", "two", "three"}),
     url \in Options({"none"}), top \in Options({"3"}),
     acts \in {<<>>, <<[Send EXCEPT !.name = {"login"}, !.slo = TRUE]>>, <<[Send EXCEPT !.name = {"poll"}, !.slo = TRUE]>>}}

MCInputs == <<LoadInputs, MessageInputs, ProtocolInputs, PhaseLoadInputs, ScriptInputs, PhasesInputs>>

----------------------------------------------------------------------------
(* Verdict: results and thresholds.  A latency or a lag is 1, 2 or 3.      *)

NoMessages ==
  [sent |-> 0, recv |-> 0, errs |-> 0, sentErrs |-> 0, rtt |-> <<>>, response |-> <<>>]
Messages(sent, errs, sentErrs, rtt, response) ==
  [sent |-> sent, recv |-> Len(rtt), errs |-> errs, sentErrs |-> sentErrs,
   rtt |-> rtt, response |-> response]
Reported(open, all, act, lag) ==
  [agent |-> 0, phase |-> 0, conns |-> 1, open |-> open, all |-> all, act |-> act, lag |-> lag]

\* A fast unpaced phase; a slow paced one with the action; one that could not
\* connect; one whose only message, the action's, got no reply.
MCResults ==
  {Reported(1, Messages(2, 0, 0, <<1, 1>>, <<>>), NoMessages, <<1>>),
   Reported(1, Messages(3, 1, 1, <<1, 3>>, <<1, 2, 3>>), Messages(1, 0, 0, <<2>>, <<3>>), <<3>>),
   Reported(0, Messages(0, 1, 0, <<>>, <<>>), NoMessages, <<2>>),
   Reported(1, Messages(1, 1, 1, <<>>, <<>>), Messages(1, 1, 1, <<>>, <<>>), <<>>)}

NoThreshold == [latency |-> {}, errors |-> {}, lag |-> {}, throughput |-> {}]
MCSlos ==
  LET some(t, b) == [NoThreshold EXCEPT ![t] = {b}]
  IN [flags    : {NoThreshold, some("latency", 2), some("lag", 2), some("errors", 40)},
      scenario : {NoThreshold, some("latency", 1), some("lag", 1), some("throughput", 2)},
      phase    : {<<NoThreshold, NoThreshold>>, <<some("errors", 50), NoThreshold>>,
                  <<some("lag", 2), some("latency", 1)>>},
      action   : {NoThreshold, some("latency", 2), some("errors", 60)}]

----------------------------------------------------------------------------
(* Compare: reports without a series that differ in their metrics, and     *)
(* reports that differ in their series.  An interval is four units and the *)
(* slack one.                                                              *)

Saved(recv, rtt, response, errors, points) ==
  [attempted |-> recv + 1, recv |-> recv, rtt |-> rtt, response |-> response,
   errors |-> errors, interval |-> 4, points |-> points]
Point(start, end, rate, p99, errors) ==
  [start |-> start, len |-> end - start, rate |-> rate, p99 |-> p99, errors |-> errors]

ErrorCounts ==
  {<<>>, "errors.timeout" :> 1, "errors.timeout" :> 2,
   "errors.timeout" :> 1 @@ "errors.other" :> 1}
WholeRuns ==
  {Saved(recv, rtt, response, errors, <<>>) :
     recv \in {0, 2, 3}, rtt \in {0, 2}, response \in {{}, {3}}, errors \in ErrorCounts}

\* Boundaries on time and late, with a short last interval or none; then rate,
\* p99 and errors of the intervals.
Clocks == {<<0, 4, 8, 12>>, <<0, 5, 8, 13, 15>>, <<0, 4, 9>>, <<0, 2>>}
Contents ==
  {<< <<2, {1}, 0>>, <<2, {1}, 0>>, <<2, {1}, 0>>, <<2, {1}, 0>> >>,
   << <<3, {2}, 0>>, <<0, {}, 2>>, <<1, {4}, 1>>, <<1, {}, 0>> >>,
   << <<0, {}, 1>>, <<0, {}, 1>>, <<0, {}, 0>>, <<2, {3}, 0>> >>}
PointsAt(clock, content) ==
  [i \in 1 .. Len(clock) - 1 |->
     Point(clock[i], clock[i + 1], content[i][1], content[i][2], content[i][3])]
SeriesRuns ==
  {Saved(2, 1, {}, <<>>, PointsAt(clock, content)) : clock \in Clocks, content \in Contents}
    \cup {Saved(2, 1, {}, <<>>, <<>>)}

CmpWindows ==
  {{}} \cup {{[start |-> s, end |-> e]} : s \in {{}, {4}, {7}}, e \in {{}, {4}, {8}, {12}}}

Lines(reports, thresholds, windows) ==
  [baseline : {{r} : r \in reports}, current : {{r} : r \in reports},
   threshold : thresholds, window : windows, fail : {TRUE}]

\* Reports that cannot be parsed, a negative threshold, no gate.
OtherLines ==
  LET plain == Saved(2, 1, {}, <<>>, <<>>)
  IN [baseline : {{}, {plain}}, current : {{}, {[plain EXCEPT !.recv = 1]}},
      threshold : {-1, 1}, window : {{}}, fail : {FALSE}]

MCCmpInputs ==
  Lines(WholeRuns, {0, 5, 10}, {{}}) \cup Lines(SeriesRuns, {0, 2}, CmpWindows)
    \cup OtherLines

----------------------------------------------------------------------------
(* The run.                                                                *)

VARIABLE part

PipelinesInit ==
  /\ part \in {"connect", "deflate", "mock", "plan", "series", "lag", "live", "verdict", "compare"}
  /\ ConnectInit
  /\ part # "connect" => conFound = <<>> /\ conSources = [f \in Families |-> 0]
  /\ DeflateInit /\ (part # "deflate" => defRole = "client")
  /\ MockInit /\ (part # "mock" => mockMode = "echo")
  /\ IF part = "plan" THEN PlanInit
     ELSE /\ planIn = Single(PlainOptions, 1) /\ planAt = "options"
          /\ planConfigs = <<>> /\ planShares = <<>> /\ planAgents = <<>>
  /\ SeriesInit /\ LagInit /\ LiveInit
  /\ VerdictInit
  /\ part # "verdict" => verSlo = [flags |-> NoThreshold, scenario |-> NoThreshold,
       phase |-> <<NoThreshold, NoThreshold>>, action |-> NoThreshold]
  /\ IF part = "compare" THEN CompareInit
     ELSE /\ cmpIn = [baseline |-> {}, current |-> {}, threshold |-> 0, window |-> {}, fail |-> FALSE]
          /\ cmpAt = "options" /\ cmpSeen = {} /\ cmpExit = -1

PipelinesNext ==
  /\ UNCHANGED part
  /\ \/ /\ part = "connect" /\ ConnectNext
        /\ UNCHANGED <<deflateVars, mockVars, planVars, seriesVars, lagVars, liveVars, verdictVars, compareVars>>
     \/ /\ part = "deflate" /\ DeflateNext
        /\ UNCHANGED <<connectVars, mockVars, planVars, seriesVars, lagVars, liveVars, verdictVars, compareVars>>
     \/ /\ part = "mock" /\ MockNext
        /\ UNCHANGED <<connectVars, deflateVars, planVars, seriesVars, lagVars, liveVars, verdictVars, compareVars>>
     \/ /\ part = "plan" /\ PlanNext
        /\ UNCHANGED <<connectVars, deflateVars, mockVars, seriesVars, lagVars, liveVars, verdictVars, compareVars>>
     \/ /\ part = "series" /\ SeriesNext
        /\ UNCHANGED <<connectVars, deflateVars, mockVars, planVars, lagVars, liveVars, verdictVars, compareVars>>
     \/ /\ part = "lag" /\ LagNext
        /\ UNCHANGED <<connectVars, deflateVars, mockVars, planVars, seriesVars, liveVars, verdictVars, compareVars>>
     \/ /\ part = "live" /\ LiveNext
        /\ UNCHANGED <<connectVars, deflateVars, mockVars, planVars, seriesVars, lagVars, verdictVars, compareVars>>
     \/ /\ part = "verdict" /\ VerdictNext
        /\ UNCHANGED <<connectVars, deflateVars, mockVars, planVars, seriesVars, lagVars, liveVars, compareVars>>
     \/ /\ part = "compare" /\ CompareNext
        /\ UNCHANGED <<connectVars, deflateVars, mockVars, planVars, seriesVars, lagVars, liveVars, verdictVars>>

Spec ==
  /\ PipelinesInit
  /\ [][PipelinesNext]_<<part, connectVars, deflateVars, mockVars, planVars, seriesVars, lagVars, liveVars, verdictVars, compareVars>>

\* The time series alone.
SeriesSpec == part = "series" /\ Spec
============================================================================
