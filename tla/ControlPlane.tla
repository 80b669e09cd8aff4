---------------------------- MODULE ControlPlane ----------------------------
(***************************************************************************)
(* The control protocol of a distributed run: Coordinator::run and         *)
(* run_scenario (src/distributed/coordinator.rs) and run_test and          *)
(* run_phase of the agent (src/distributed/agent.rs), with the messages of *)
(* src/distributed/protocol.rs over one connection per agent.  A run       *)
(* without a scenario is a scenario of one phase.                          *)
(*                                                                         *)
(* A connection is two FIFO queues.  Either end may close it, or it breaks *)
(* and loses what is in flight; an end learns of it when it has read what  *)
(* arrived before.  Agents may hang, crash or report errors at any time.   *)
(* Timeouts are steps that may happen whenever the code waits with one.    *)
(* The messages that change no control state (snapshots, capture records,  *)
(* refreshed tokens) are left out.                                         *)
(***************************************************************************)
EXTENDS Naturals, Sequences, FiniteSets

CONSTANTS
  Agents,    \* the agents of --agents
  Phases     \* how many phases the scenario has

ASSUME ControlAssumption ==
  IsFiniteSet(Agents) /\ Agents # {} /\ Phases \in Nat \ {0}

VARIABLES
  co,        \* where the coordinator is
  phase,     \* the phase it is in
  answer,    \* [a |-> what it knows of a in this step: see Answers]
  link,      \* [a |-> it holds a connection to a]
  lost,      \* [a |-> session.lost is set]
  runs,      \* the finished parts of the phases that ran: <<set of agents>>
  cancel,    \* its cancellation token: Ctrl+C, SIGTERM
  stopped,   \* [a |-> the task following a has sent Stop]
  ag,        \* [a |-> where the agent is]
  agPhase,   \* [a |-> the phase it was last given]
  open,      \* [a |-> [co, ag |-> that end of the connection is open]]
  toAg,      \* [a |-> messages on their way to a]
  toCo       \* [a |-> messages on their way to the coordinator]

coVars == <<co, phase, answer, link, lost, runs, cancel, stopped>>
agVars == <<ag, agPhase>>
netVars == <<open, toAg, toCo>>
vars == <<coVars, agVars, netVars>>

\* "opening" connects; "barrier" waits for Ready; "following" waits for
\* results; "pause" lies between phases; the others are ends of the process:
\* nothing was run, every agent was lost, a report was made, or it died.
CoStates == {"opening", "barrier", "following", "pause",
             "nothing", "allLost", "reported", "died"}
CoOver == {"nothing", "allLost", "reported", "died"}

\* Of an agent in the current step: not known yet, positive (connected,
\* ready, finished), negative, or the agent takes no part.
Answers == {"none", "yes", "no", "out"}

\* "idle" means not held by this coordinator.
AgStates == {"idle", "wait", "ready", "running", "stopping", "gone", "hung",
             "dead"}

Message(kind, n) == [kind |-> kind, phase |-> n]
Kinds == {"Prepare", "Start", "Stop", "Ready", "Result", "Error"}

Init ==
  /\ co = "opening" /\ phase = 1 /\ runs = <<>> /\ cancel = FALSE
  /\ answer = [a \in Agents |-> "none"]
  /\ link = [a \in Agents |-> FALSE]
  /\ lost = [a \in Agents |-> FALSE]
  /\ stopped = [a \in Agents |-> FALSE]
  /\ ag = [a \in Agents |-> "idle"]
  /\ agPhase = [a \in Agents |-> 0]
  /\ open = [a \in Agents |-> [co |-> FALSE, ag |-> FALSE]]
  /\ toAg = [a \in Agents |-> <<>>]
  /\ toCo = [a \in Agents |-> <<>>]

----------------------------------------------------------------------------
(* Connections.                                                            *)

\* What the coordinator sends to the agents of S, and which ends it closes.
SendAll(S, kind) ==
  toAg' = [a \in Agents |-> IF a \in S /\ open[a].ag
                            THEN Append(toAg[a], Message(kind, phase))
                            ELSE toAg[a]]
CloseCo(S) == open' = [a \in Agents |-> IF a \in S THEN [open[a] EXCEPT !.co = FALSE]
                                        ELSE open[a]]

Linked == {a \in Agents : link[a]}

----------------------------------------------------------------------------
(* The coordinator.                                                        *)

\* The answers of the agents are in, for those that take part.
AllAnswered == \A a \in Agents : answer[a] # "none"
Yes == {a \in Agents : answer[a] = "yes"}
No == {a \in Agents : answer[a] = "no"}

\* connect() to an agent and the exchange of hellos succeed: the agent is
\* held by this coordinator and waits for prepare.
Connect(a) ==
  /\ co = "opening" /\ answer[a] = "none" /\ ag[a] = "idle"
  /\ answer' = [answer EXCEPT ![a] = "yes"]
  /\ link' = [link EXCEPT ![a] = TRUE]
  /\ ag' = [ag EXCEPT ![a] = "wait"]
  /\ open' = [open EXCEPT ![a] = [co |-> TRUE, ag |-> TRUE]]
  /\ UNCHANGED <<co, phase, lost, runs, cancel, stopped, agPhase, toAg, toCo>>

\* It fails: unreachable, 401, 409, another protocol, or the deadline, which
\* may pass when the agent already holds the dropped connection.
ConnectFails(a) ==
  /\ co = "opening" /\ answer[a] = "none"
  /\ answer' = [answer EXCEPT ![a] = "no"]
  /\ \/ UNCHANGED <<ag, open>>
     \/ /\ ag[a] = "idle"
        /\ ag' = [ag EXCEPT ![a] = "wait"]
        /\ open' = [open EXCEPT ![a] = [co |-> FALSE, ag |-> TRUE]]
  /\ UNCHANGED <<co, phase, link, lost, runs, cancel, stopped, agPhase, toAg, toCo>>

\* The next phase: prepare is sent to every agent still in the run.
SendPrepare(n) ==
  /\ co' = "barrier"
  /\ phase' = n
  /\ answer' = [a \in Agents |-> IF link[a] THEN "none" ELSE "out"]
  /\ toAg' = [a \in Agents |-> IF link[a] /\ open[a].ag
                               THEN Append(toAg[a], Message("Prepare", n))
                               ELSE toAg[a]]

Opened ==
  /\ co = "opening" /\ AllAnswered /\ No = {}
  /\ SendPrepare(1)
  /\ UNCHANGED <<link, lost, runs, cancel, stopped, agVars, open, toCo>>

\* Ends the process: every connection it holds is closed.
EndWith(outcome) ==
  /\ co' = outcome
  /\ link' = [a \in Agents |-> FALSE]
  /\ CloseCo(Agents)

\* One agent failed, or the run was cancelled: release(), or the drop of the
\* connections.
OpenFails ==
  /\ co = "opening"
  /\ cancel \/ (AllAnswered /\ No # {})
  /\ EndWith("nothing")
  /\ UNCHANGED <<phase, answer, lost, runs, cancel, stopped, agVars, toAg, toCo>>

\* prepare(): the answer to Prepare, which any message but Ready fails.
PrepareAnswered(a) ==
  /\ co = "barrier" /\ answer[a] = "none" /\ toCo[a] # <<>>
  /\ answer' = [answer EXCEPT
                  ![a] = IF Head(toCo[a]).kind = "Ready" THEN "yes" ELSE "no"]
  /\ toCo' = [toCo EXCEPT ![a] = Tail(@)]
  /\ UNCHANGED <<co, phase, link, lost, runs, cancel, stopped, agVars, open, toAg>>

\* The connection is closed, or the deadline of the barrier passes.
PrepareFails(a) ==
  /\ co = "barrier" /\ answer[a] = "none"
  /\ answer' = [answer EXCEPT ![a] = "no"]
  /\ UNCHANGED <<co, phase, link, lost, runs, cancel, stopped, agVars, netVars>>

\* The first barrier failed: stop_all, then the session is closed.
BarrierFails ==
  /\ co = "barrier" /\ phase = 1 /\ AllAnswered /\ No # {}
  /\ SendAll(Linked, "Stop")
  /\ EndWith("nothing")
  /\ UNCHANGED <<phase, answer, lost, runs, cancel, stopped, agVars, toCo>>

\* Cancelled at the barrier: stop_all; a first phase fails the run, later
\* ones end it with the phases that ran.
BarrierCancelled ==
  /\ co = "barrier" /\ cancel
  /\ SendAll(Linked, "Stop")
  /\ EndWith(IF phase = 1 THEN "nothing" ELSE "reported")
  /\ UNCHANGED <<phase, answer, lost, runs, cancel, stopped, agVars, toCo>>

\* Mutants: agents that failed a later barrier are only forgotten, or are
\* started with the others.
StartPhaseForgetful ==
  /\ co = "barrier" /\ AllAnswered /\ Yes # {}
  /\ phase = 1 => No = {}
  /\ co' = "following"
  /\ link' = [a \in Agents |-> link[a] /\ a \notin No]
  /\ CloseCo(No)
  /\ SendAll(Yes, "Start")
  /\ answer' = [a \in Agents |-> IF a \in Yes THEN "none" ELSE "out"]
  /\ stopped' = [a \in Agents |-> FALSE]
  /\ UNCHANGED <<phase, lost, runs, cancel, agVars, toCo>>
StartPhaseAll ==
  /\ co = "barrier" /\ AllAnswered /\ Yes # {}
  /\ phase = 1 => No = {}
  /\ co' = "following"
  /\ SendAll(Linked, "Start")
  /\ answer' = [a \in Agents |-> IF link[a] THEN "none" ELSE "out"]
  /\ stopped' = [a \in Agents |-> FALSE]
  /\ UNCHANGED <<phase, link, lost, runs, cancel, agVars, open, toCo>>

\* The agents that failed a later barrier are lost; Start goes to the others.
StartPhase ==
  /\ co = "barrier" /\ AllAnswered /\ Yes # {}
  /\ phase = 1 => No = {}
  /\ co' = "following"
  /\ lost' = [a \in Agents |-> lost[a] \/ a \in No]
  /\ link' = [a \in Agents |-> link[a] /\ a \notin No]
  /\ CloseCo(No)
  /\ SendAll(Yes, "Start")
  /\ answer' = [a \in Agents |-> IF a \in Yes THEN "none" ELSE "out"]
  /\ stopped' = [a \in Agents |-> FALSE]
  /\ UNCHANGED <<phase, runs, cancel, agVars, toCo>>

\* Every agent failed a later barrier: no phase follows.
BarrierLosesAll ==
  /\ co = "barrier" /\ AllAnswered /\ Yes = {} /\ phase > 1
  /\ lost' = [a \in Agents |-> lost[a] \/ a \in No]
  /\ EndWith("reported")
  /\ UNCHANGED <<phase, answer, runs, cancel, stopped, agVars, toAg, toCo>>

\* follow_agent reads a message: a Result ends it well, anything else not.
FollowReads(a) ==
  /\ co = "following" /\ answer[a] = "none" /\ toCo[a] # <<>>
  /\ LET ok == Head(toCo[a]).kind = "Result"
     IN /\ answer' = [answer EXCEPT ![a] = IF ok THEN "yes" ELSE "no"]
        /\ open' = IF ok THEN open ELSE [open EXCEPT ![a].co = FALSE]
  /\ toCo' = [toCo EXCEPT ![a] = Tail(@)]
  /\ UNCHANGED <<co, phase, link, lost, runs, cancel, stopped, agVars, toAg>>

\* Mutant: an agent that timed out stays connected.
FollowFailsOpen(a) ==
  /\ co = "following" /\ answer[a] = "none"
  /\ answer' = [answer EXCEPT ![a] = "no"]
  /\ UNCHANGED <<co, phase, link, lost, runs, cancel, stopped, agVars, netVars>>

\* The connection is closed, the Start could not be sent, or no result came
\* by the deadline; the connection is dropped.
FollowFails(a) ==
  /\ co = "following" /\ answer[a] = "none"
  /\ answer' = [answer EXCEPT ![a] = "no"]
  /\ open' = [open EXCEPT ![a].co = FALSE]
  /\ UNCHANGED <<co, phase, link, lost, runs, cancel, stopped, agVars, toAg, toCo>>

\* The run is cancelled: each following task sends Stop once and goes on.
FollowStops(a) ==
  /\ co = "following" /\ answer[a] = "none" /\ cancel /\ ~stopped[a]
  /\ stopped' = [stopped EXCEPT ![a] = TRUE]
  /\ SendAll({a}, "Stop")
  /\ UNCHANGED <<co, phase, answer, link, lost, runs, cancel, agVars, open, toCo>>

\* Mutant: the agents without a result stay in the run.
PhaseOverKeepsAll ==
  /\ co = "following" /\ AllAnswered
  /\ lost' = [a \in Agents |-> lost[a] \/ a \in No]
  /\ runs' = IF Yes = {} THEN runs ELSE Append(runs, Yes)
  /\ IF Yes = {} \/ phase = Phases
     THEN EndWith(IF runs' = <<>> THEN "allLost" ELSE "reported")
     ELSE co' = "pause" /\ UNCHANGED <<link, open>>
  /\ UNCHANGED <<phase, answer, cancel, stopped, agVars, toAg, toCo>>

\* Every task is joined: agents without a result are lost.  The run goes on
\* after a pause unless this was the last phase or nobody is left.
PhaseOver ==
  /\ co = "following" /\ AllAnswered
  /\ lost' = [a \in Agents |-> lost[a] \/ a \in No]
  /\ runs' = IF Yes = {} THEN runs ELSE Append(runs, Yes)
  /\ IF Yes = {} \/ phase = Phases
     THEN EndWith(IF runs' = <<>> THEN "allLost" ELSE "reported")
     ELSE /\ co' = "pause"
          /\ link' = [a \in Agents |-> a \in Yes]
          /\ UNCHANGED open
  /\ UNCHANGED <<phase, answer, cancel, stopped, agVars, toAg, toCo>>

\* The pause is over, or cancelled: the loop checks the token.
NextPhase ==
  /\ co = "pause" /\ ~cancel
  /\ SendPrepare(phase + 1)
  /\ UNCHANGED <<link, lost, runs, cancel, stopped, agVars, open, toCo>>

PauseCancelled ==
  /\ co = "pause" /\ cancel
  /\ EndWith("reported")
  /\ UNCHANGED <<phase, answer, lost, runs, cancel, stopped, agVars, toAg, toCo>>

Interrupt ==
  /\ co \notin CoOver /\ ~cancel
  /\ cancel' = TRUE
  /\ UNCHANGED <<co, phase, answer, link, lost, runs, stopped, agVars, netVars>>

\* The process dies and its sockets are closed for it.
CoordinatorDies ==
  /\ co \notin CoOver
  /\ EndWith("died")
  /\ UNCHANGED <<phase, answer, lost, runs, cancel, stopped, agVars, toAg, toCo>>

\* Its host vanishes: no agent is told that the connection is gone.
CoordinatorVanishes ==
  /\ co \notin CoOver
  /\ co' = "died"
  /\ link' = [a \in Agents |-> FALSE]
  /\ UNCHANGED <<phase, answer, lost, runs, cancel, stopped, agVars, netVars>>

----------------------------------------------------------------------------
(* An agent.                                                               *)

\* control() returns: the connection is closed and the BusyGuard dropped.
Leave(a) ==
  /\ ag' = [ag EXCEPT ![a] = "idle"]
  /\ open' = [open EXCEPT ![a].ag = FALSE]

Reply(a, kind) ==
  toCo' = [toCo EXCEPT ![a] = IF open[a].co
                              THEN Append(@, Message(kind, agPhase'[a])) ELSE @]

Receives(a, state, kind) ==
  /\ ag[a] = state
  /\ toAg[a] # <<>>
  /\ Head(toAg[a]).kind = kind
  /\ toAg' = [toAg EXCEPT ![a] = Tail(@)]

\* prepare: the share is valid and the target resolved, or it is rejected.
AgentPrepares(a) ==
  /\ Receives(a, "wait", "Prepare")
  /\ agPhase' = [agPhase EXCEPT ![a] = Head(toAg[a]).phase]
  /\ \/ ag' = [ag EXCEPT ![a] = "ready"] /\ UNCHANGED open /\ Reply(a, "Ready")
     \/ Leave(a) /\ Reply(a, "Error")
  /\ UNCHANGED coVars

AgentStarts(a) ==
  /\ Receives(a, "ready", "Start")
  /\ ag' = [ag EXCEPT ![a] = "running"]
  /\ UNCHANGED <<coVars, agPhase, open, toCo>>

\* A Stop before the start, or between phases, ends the test.
AgentStopped(a) ==
  /\ \E s \in {"wait", "ready"} : Receives(a, s, "Stop")
  /\ Leave(a)
  /\ UNCHANGED <<coVars, agPhase, toCo>>

\* A Stop during the run cancels it; its result is still sent.  Any other
\* message is ignored.
AgentCancels(a) ==
  /\ ag[a] \in {"running", "stopping"}
  /\ toAg[a] # <<>>
  /\ toAg' = [toAg EXCEPT ![a] = Tail(@)]
  /\ ag' = [ag EXCEPT ![a] = IF Head(toAg[a]).kind = "Stop" THEN "stopping" ELSE @]
  /\ UNCHANGED <<coVars, agPhase, open, toCo>>

\* Mutant: the waits of an agent have no timeout.
AgentWaitsForever(a) ==
  /\ ag[a] \in {"wait", "ready"}
  /\ toAg[a] = <<>> /\ ~open[a].co
  /\ Leave(a)
  /\ UNCHANGED <<coVars, agPhase, toAg, toCo>>

\* Waiting, the agent finds the connection closed, or nothing arrives within
\* its timeout, or it is told to shut down.  (It also leaves on a message it
\* does not expect, which MessagesExpected shows never arrives.)
AgentGivesUp(a) ==
  /\ ag[a] \in {"wait", "ready"}
  /\ Leave(a)
  /\ UNCHANGED <<coVars, agPhase, toAg, toCo>>

\* During the run a read finds the connection closed, or the send of a
\* snapshot fails: the run is cancelled and its result will go nowhere.
AgentAbandoned(a) ==
  /\ ag[a] \in {"running", "stopping"}
  /\ ~open[a].co \/ co = "died"
  /\ ag' = [ag EXCEPT ![a] = "gone"]
  /\ UNCHANGED <<coVars, agPhase, netVars>>

\* The run ends, by its duration, its limit or its cancellation: the result
\* is sent and the agent waits for another phase; or it failed.
AgentFinishes(a) ==
  /\ ag[a] \in {"running", "stopping"}
  /\ \/ ag' = [ag EXCEPT ![a] = "wait"] /\ UNCHANGED <<open, agPhase>> /\ Reply(a, "Result")
     \/ Leave(a) /\ UNCHANGED agPhase /\ Reply(a, "Error")
  /\ UNCHANGED <<coVars, toAg>>

AgentGone(a) ==
  /\ ag[a] = "gone"
  /\ Leave(a)
  /\ UNCHANGED <<coVars, agPhase, toAg, toCo>>

AgentDies(a) ==
  /\ ag[a] # "dead"
  /\ ag' = [ag EXCEPT ![a] = "dead"]
  /\ open' = [open EXCEPT ![a].ag = FALSE]
  /\ UNCHANGED <<coVars, agPhase, toAg, toCo>>

\* It hangs for ever, its connection open.
AgentHangs(a) ==
  /\ ag[a] \notin {"idle", "hung", "dead"}
  /\ ag' = [ag EXCEPT ![a] = "hung"]
  /\ UNCHANGED <<coVars, agPhase, netVars>>

\* The network drops the connection with whatever is in flight.
LinkBreaks(a) ==
  /\ open[a].co /\ open[a].ag
  /\ open' = [open EXCEPT ![a] = [co |-> FALSE, ag |-> FALSE]]
  /\ toAg' = [toAg EXCEPT ![a] = <<>>]
  /\ toCo' = [toCo EXCEPT ![a] = <<>>]
  /\ UNCHANGED <<coVars, agVars>>

----------------------------------------------------------------------------
CoStep ==
  \/ Opened \/ OpenFails \/ BarrierFails \/ BarrierCancelled \/ StartPhase
  \/ BarrierLosesAll \/ PhaseOver \/ NextPhase \/ PauseCancelled

CoStepFor(a) ==
  \/ Connect(a) \/ ConnectFails(a) \/ PrepareAnswered(a) \/ PrepareFails(a)
  \/ FollowReads(a) \/ FollowFails(a) \/ FollowStops(a)

AgStep(a) ==
  \/ AgentPrepares(a) \/ AgentStarts(a) \/ AgentStopped(a) \/ AgentCancels(a)
  \/ AgentGivesUp(a) \/ AgentAbandoned(a)
  \/ AgentFinishes(a) \/ AgentGone(a)

Fault == Interrupt \/ CoordinatorDies \/ CoordinatorVanishes
         \/ \E a \in Agents : AgentDies(a) \/ AgentHangs(a) \/ LinkBreaks(a)

Over ==
  /\ co \in CoOver
  /\ \A a \in Agents : ag[a] \in {"idle", "hung", "dead"}
  /\ UNCHANGED vars

Next == CoStep \/ (\E a \in Agents : CoStepFor(a) \/ AgStep(a)) \/ Fault \/ Over

Spec == Init /\ [][Next]_vars

\* The coordinator and its following tasks go on, timeouts included, and so
\* does an agent that does not hang: its waits have timeouts and its runs a
\* duration.
FairSpec ==
  /\ Spec
  /\ WF_vars(CoStep)
  /\ \A a \in Agents : WF_vars(CoStepFor(a)) /\ WF_vars(AgStep(a))

----------------------------------------------------------------------------
TypeOK ==
  /\ co \in CoStates /\ phase \in 1..Phases
  /\ answer \in [Agents -> Answers]
  /\ link \in [Agents -> BOOLEAN] /\ lost \in [Agents -> BOOLEAN]
  /\ stopped \in [Agents -> BOOLEAN] /\ cancel \in BOOLEAN
  /\ runs \in Seq(SUBSET Agents)
  /\ ag \in [Agents -> AgStates] /\ agPhase \in [Agents -> 0..Phases]
  /\ open \in [Agents -> [co: BOOLEAN, ag: BOOLEAN]]
  /\ toAg \in [Agents -> Seq([kind: Kinds, phase: 1..Phases])]
  /\ toCo \in [Agents -> Seq([kind: Kinds, phase: 0..Phases])]

\* "Nothing was run": before the first start, and after an end that says so,
\* no agent runs anything, although some were ready and others failed, and
\* Stop, Start and the closing of connections race.
NothingRunsEarly ==
  phase = 1 /\ co \in {"opening", "barrier", "nothing"} =>
    \A a \in Agents : ag[a] \notin {"running", "stopping", "gone"}

\* Phases do not overlap: an agent that runs something on a connection the
\* coordinator still holds runs the phase the coordinator is following.
RunsCurrentPhase ==
  \A a \in Agents :
    open[a].co /\ co # "died" /\ ag[a] \in {"running", "stopping"} =>
      agPhase[a] = phase /\ co = "following"

\* Neither side ever receives a message it does not expect, and a result is
\* always that of the phase being followed: a late answer is never taken for
\* the answer to a later question.
MessagesExpected ==
  \A a \in Agents :
    /\ toAg[a] # <<>> =>
         /\ ag[a] = "wait" => Head(toAg[a]).kind \in {"Prepare", "Stop"}
         /\ ag[a] = "ready" => Head(toAg[a]).kind \in {"Start", "Stop"}
    /\ toCo[a] # <<>> /\ answer[a] = "none" =>
         /\ Head(toCo[a]).phase = phase
         /\ co = "barrier" => Head(toCo[a]).kind \in {"Ready", "Error"}
         /\ co = "following" => Head(toCo[a]).kind \in {"Result", "Error"}

\* A report leaves no gap unexplained: an agent missing from a phase that
\* was reported is named among the lost agents.
MissingAgentsAreLost ==
  co \in {"pause", "reported"} =>
    \A i \in DOMAIN runs : \A a \in Agents : a \in runs[i] \/ lost[a]

----------------------------------------------------------------------------
(* The promise of module CoordinatedRun is kept.                           *)

Members ==
  CASE co \in CoOver -> {}
    [] co = "following" -> {a \in Agents : answer[a] # "out"}
    [] phase = 1 /\ co \in {"opening", "barrier"} -> Agents
    [] OTHER -> Linked

Stage == IF co \in CoOver THEN "over"
         ELSE IF co = "following" THEN "running" ELSE "gathering"

Promise == INSTANCE CoordinatedRun
             WITH members <- Members, stage <- Stage, report <- runs

\* Messages, crashes, losses and timeouts included, the control plane runs
\* phases as docs/distributed.md describes them.
KeepsPromise == Promise!GroupSpec

\* The coordinator always ends, even when agents hang in any state.
CoordinatorEnds == <>(co \in CoOver)

\* Once the coordinator is over, dead or alive, every agent that does not
\* hang stops what it runs and is free for the next one, even when nothing
\* tells it that the coordinator is gone.
AgentsFreed ==
  \A a \in Agents : co \in CoOver ~> ag[a] \in {"idle", "hung", "dead"}

\* Nothing runs before the first start or after an end that says so, and
\* phases do not overlap (Coordinator::run_phase against the agents').
PhasesSeparated == NothingRunsEarly /\ RunsCurrentPhase

\* The coordinator ends, and then the agents do.
EverybodyEnds == CoordinatorEnds /\ AgentsFreed
============================================================================
