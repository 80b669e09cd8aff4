------------------------- MODULE ControlPlaneProofs -------------------------
(***************************************************************************)
(* Proofs about ControlPlane, for every set of agents and number of        *)
(* phases: what coordinator and agents may find on a connection, that      *)
(* phases do not overlap, and that the promise of CoordinatedRun is kept.  *)
(***************************************************************************)
EXTENDS ControlPlane, SequenceTheorems, TLAPS

----------------------------------------------------------------------------
(* The inductive invariant.                                                *)

\* The contents of a queue, by the kinds of its messages.
One(q, k) == Len(q) = 1 /\ q[1].kind = k
Two(q, k, l) == Len(q) = 2 /\ q[1].kind = k /\ q[2].kind = l

\* An agent that takes part in nothing, or will not answer.
Away == {"idle", "hung", "dead"}
Running == {"running", "stopping"}

\* What may be on its way to an agent, by what the agent is doing.
Words(a) ==
  /\ ag[a] = "wait" => \/ toAg[a] = <<>>
                       \/ One(toAg[a], "Prepare")
                       \/ Two(toAg[a], "Prepare", "Stop")
                       \/ One(toAg[a], "Stop")
  /\ ag[a] = "ready" => \/ toAg[a] = <<>>
                        \/ One(toAg[a], "Start")
                        \/ Two(toAg[a], "Start", "Stop")
                        \/ One(toAg[a], "Stop")
  /\ ag[a] \in Running => toAg[a] = <<>> \/ One(toAg[a], "Stop")

\* An agent whose answer is awaited was asked about the current phase, and
\* its answer is about it too.
SamePhase(a) ==
  answer[a] = "none" =>
    /\ toCo[a] # <<>> => toCo[a][1].phase = phase
    /\ ag[a] \in {"ready"} \cup Running => agPhase[a] = phase
    /\ ag[a] = "wait" /\ toAg[a] # <<>> /\ toAg[a][1].kind = "Prepare" =>
         toAg[a][1].phase = phase

\* The coordinator holds a connection only to agents in the run.
Held(a) ==
  /\ co # "died" /\ open[a].co => link[a]
  /\ co \in CoOver => ~link[a]

WhileOpening(a) ==
  co = "opening" =>
    /\ answer[a] # "out"
    /\ link[a] <=> answer[a] = "yes"
    /\ ag[a] \in Away \cup {"wait"}
    /\ toAg[a] = <<>> /\ toCo[a] = <<>>

WhileBarrier(a) ==
  co = "barrier" =>
    /\ link[a] <=> answer[a] # "out"
    /\ phase = 1 => link[a]
    /\ link[a] => /\ ag[a] \in Away \cup {"wait", "ready"}
                  /\ ag[a] = "wait" => toAg[a] = <<>> \/ One(toAg[a], "Prepare")
                  /\ ag[a] = "ready" => toAg[a] = <<>>
    /\ answer[a] = "none" =>
         /\ toCo[a] = <<>> \/ One(toCo[a], "Ready") \/ One(toCo[a], "Error")
         /\ ag[a] = "wait" => toCo[a] = <<>>
    /\ answer[a] = "yes" =>
         /\ toCo[a] = <<>> /\ ag[a] # "wait"
         /\ ag[a] = "ready" => agPhase[a] = phase

WhileFollowing(a) ==
  co = "following" =>
    /\ link[a] <=> answer[a] # "out"
    /\ answer[a] = "no" => ~open[a].co
    /\ stopped[a] => cancel
    /\ answer[a] = "none" =>
         /\ toCo[a] = <<>> \/ One(toCo[a], "Result") \/ One(toCo[a], "Error")
         /\ ag[a] \in {"ready", "gone"} \cup Running => toCo[a] = <<>>
         /\ ag[a] \in {"wait"} \cup Running =>
              toAg[a] = <<>> \/ (stopped[a] /\ One(toAg[a], "Stop"))
         /\ ag[a] = "ready" => \/ toAg[a] = <<>>
                               \/ One(toAg[a], "Start")
                               \/ stopped[a] /\ One(toAg[a], "Stop")
                               \/ stopped[a] /\ Two(toAg[a], "Start", "Stop")
    /\ answer[a] = "yes" =>
         /\ toCo[a] = <<>> /\ ag[a] \in Away \cup {"wait"}
         /\ ag[a] = "wait" => toAg[a] = <<>> \/ (cancel /\ One(toAg[a], "Stop"))

WhilePause(a) ==
  co = "pause" /\ link[a] =>
    /\ toCo[a] = <<>> /\ ag[a] \in Away \cup {"wait"}
    /\ ag[a] = "wait" => toAg[a] = <<>> \/ (cancel /\ One(toAg[a], "Stop"))

\* Before the first start, and after an end without one, no Start is sent.
Unstarted(a) ==
  phase = 1 /\ co \in {"opening", "barrier", "nothing"} =>
    /\ ag[a] \notin Running \cup {"gone"}
    /\ ag[a] = "ready" => toAg[a] = <<>> \/ One(toAg[a], "Stop")

Conversation(a) ==
  /\ Words(a) /\ SamePhase(a) /\ Held(a) /\ WhileOpening(a) /\ WhileBarrier(a)
  /\ WhileFollowing(a) /\ WhilePause(a) /\ Unstarted(a)

\* The books of the coordinator: one part per phase that ran, and an agent
\* that is out of the run is lost.
Books ==
  /\ co = "opening" => phase = 1
  /\ co \in {"opening", "barrier", "following"} => Len(runs) = phase - 1
  /\ co = "pause" => Len(runs) = phase /\ phase < Phases
  /\ co \in {"barrier", "following", "pause"} =>
       \A a \in Agents : ~link[a] => lost[a]
  /\ \A i \in DOMAIN runs : \A a \in Agents : a \in runs[i] \/ lost[a]

ControlInv ==
  /\ TypeOK
  /\ \A a \in Agents : Conversation(a)
  /\ Books

----------------------------------------------------------------------------
(* Queues and messages.                                                    *)

\* Head, Tail and Append on the short queues of this protocol.
LEMMA QueueFacts ==
  ASSUME NEW M, NEW q \in Seq(M), NEW m \in M
  PROVE  /\ Append(q, m) \in Seq(M) /\ Append(q, m) # <<>>
         /\ q = <<>> => Append(q, m)[1] = m /\ Len(Append(q, m)) = 1
         /\ q # <<>> => /\ Append(q, m)[1] = q[1]
                        /\ Head(q) = q[1] /\ q[1] \in M /\ Tail(q) \in Seq(M)
         /\ Len(q) = 1 => /\ Len(Append(q, m)) = 2 /\ Append(q, m)[2] = m
                          /\ Tail(q) = <<>> /\ q # <<>>
         /\ Len(q) = 2 => /\ q # <<>> /\ Len(Tail(q)) = 1
                          /\ Tail(q) # <<>> /\ Tail(q)[1] = q[2]
<1>1. /\ Append(q, m) \in Seq(M) /\ Append(q, m) # <<>>
      /\ Len(Append(q, m)) = Len(q) + 1
      /\ \A i \in 1..Len(q) : Append(q, m)[i] = q[i]
      /\ Append(q, m)[Len(q) + 1] = m
  BY AppendProperties
<1>2. Len(q) \in Nat /\ (Len(q) = 0 <=> q = <<>>)
  BY EmptySeq
<1>3. q # <<>> => /\ Head(q) = q[1] /\ q[1] \in M /\ Tail(q) \in Seq(M)
                  /\ Len(Tail(q)) = Len(q) - 1
                  /\ \A i \in 1..Len(Tail(q)) : Tail(q)[i] = q[i + 1]
  BY <1>2, HeadTailProperties, ElementOfSeq
<1>4. Tail(q) \in Seq(M) => (Len(Tail(q)) = 0 <=> Tail(q) = <<>>)
  BY EmptySeq
<1>5. q = <<>> => Append(q, m)[1] = m /\ Len(Append(q, m)) = 1
  BY <1>1, <1>2
<1>6. q # <<>> => Append(q, m)[1] = q[1]
  BY <1>1, <1>2
<1>7. Len(q) = 1 => /\ Len(Append(q, m)) = 2 /\ Append(q, m)[2] = m
                    /\ Tail(q) = <<>> /\ q # <<>>
  BY <1>1, <1>2, <1>3, <1>4
<1>8. Len(q) = 2 => /\ q # <<>> /\ Len(Tail(q)) = 1
                    /\ Tail(q) # <<>> /\ Tail(q)[1] = q[2]
  BY <1>2, <1>3, <1>4
<1> QED BY <1>1, <1>3, <1>5, <1>6, <1>7, <1>8

\* What a peer reads from a queue of messages, and what is left in it.
LEMMA ReadFacts ==
  ASSUME NEW M, NEW q \in Seq(M)
  PROVE  /\ q = <<>> <=> Len(q) = 0
         /\ q # <<>> => Head(q) = q[1] /\ q[1] \in M /\ Tail(q) \in Seq(M)
         /\ Len(q) = 1 => Tail(q) = <<>>
         /\ Len(q) = 2 => Len(Tail(q)) = 1 /\ Tail(q) # <<>> /\ Tail(q)[1] = q[2]
<1>1. q = <<>> <=> Len(q) = 0
  BY EmptySeq
<1>2. q # <<>> => q[1] \in M
  BY <1>1, QueueFacts, ElementOfSeq
<1> QED BY <1>1, <1>2, QueueFacts, HeadTailProperties

DownMsg == [kind: Kinds, phase: 1..Phases]
UpMsg == [kind: Kinds, phase: 0..Phases]

\* Messages have the types of the queues they are put into.
LEMMA MessageFacts ==
  ASSUME NEW k \in Kinds
  PROVE  /\ \A n \in 1..Phases : Message(k, n) \in DownMsg
         /\ \A n \in 0..Phases : Message(k, n) \in UpMsg
         /\ \A n : Message(k, n).kind = k /\ Message(k, n).phase = n
BY DEF Message, DownMsg, UpMsg

----------------------------------------------------------------------------
(* Types.                                                                  *)

\* The types, by who keeps the state.
CoTypes ==
  /\ co \in CoStates /\ phase \in 1..Phases
  /\ answer \in [Agents -> Answers]
  /\ link \in [Agents -> BOOLEAN] /\ lost \in [Agents -> BOOLEAN]
  /\ stopped \in [Agents -> BOOLEAN] /\ cancel \in BOOLEAN
  /\ runs \in Seq(SUBSET Agents)
AgTypes ==
  /\ ag \in [Agents -> AgStates] /\ agPhase \in [Agents -> 0..Phases]
  /\ open \in [Agents -> [co: BOOLEAN, ag: BOOLEAN]]
NetTypes ==
  toAg \in [Agents -> Seq(DownMsg)] /\ toCo \in [Agents -> Seq(UpMsg)]

\* The type invariant in the parts the steps change separately.
LEMMA TypeParts == TypeOK <=> CoTypes /\ AgTypes /\ NetTypes
BY DEF TypeOK, CoTypes, AgTypes, NetTypes, DownMsg, UpMsg

\* Reading and sending keep the types of the queues.
LEMMA QueueTypes ==
  ASSUME NetTypes
  PROVE  /\ \A q \in Seq(DownMsg), k \in Kinds, n \in 1..Phases :
              Append(q, Message(k, n)) \in Seq(DownMsg)
         /\ \A q \in Seq(UpMsg), k \in Kinds, n \in 0..Phases :
              Append(q, Message(k, n)) \in Seq(UpMsg)
         /\ \A a \in Agents : toAg[a] # <<>> =>
              /\ Head(toAg[a]) \in DownMsg /\ Head(toAg[a]).phase \in 1..Phases
              /\ Tail(toAg[a]) \in Seq(DownMsg)
         /\ \A a \in Agents : toCo[a] # <<>> => Tail(toCo[a]) \in Seq(UpMsg)
<1>1. \A m \in DownMsg : m.phase \in 1..Phases
  BY DEF DownMsg
<1> QED BY <1>1, MessageFacts, QueueFacts DEF NetTypes

\* Every step keeps the types of the coordinator's state.
LEMMA CoTypeStep ==
  ASSUME CoTypes, co = "pause" => phase < Phases, [Next]_vars
  PROVE  CoTypes'
<1> USE ControlAssumption DEF CoTypes, CoStates, CoOver, Answers
<1>1. CASE Opened
  BY <1>1 DEF Opened, SendPrepare, agVars
<1>2. CASE OpenFails
  BY <1>2 DEF OpenFails, EndWith, agVars
<1>3. CASE BarrierFails
  BY <1>3 DEF BarrierFails, EndWith, agVars
<1>4. CASE BarrierCancelled
  BY <1>4 DEF BarrierCancelled, EndWith, agVars
<1>5. CASE StartPhase
  BY <1>5 DEF StartPhase, agVars, Yes, No
<1>6. CASE BarrierLosesAll
  BY <1>6 DEF BarrierLosesAll, EndWith, agVars, Yes, No
<1>7. CASE PhaseOver
  <2>1. Yes \in SUBSET Agents
    BY DEF Yes
  <2>2. runs' \in Seq(SUBSET Agents)
    BY <1>7, <2>1 DEF PhaseOver
  <2>3. co' \in CoStates
    BY <1>7 DEF PhaseOver, EndWith
  <2>4. link' \in [Agents -> BOOLEAN]
    <3>1. \/ link' = [a \in Agents |-> FALSE]
          \/ link' = [a \in Agents |-> a \in Yes]
      BY <1>7 DEF PhaseOver, EndWith
    <3>2. [a \in Agents |-> a \in Yes] \in [Agents -> BOOLEAN]
      OBVIOUS
    <3> QED BY <3>1, <3>2
  <2>5. lost' \in [Agents -> BOOLEAN]
    BY <1>7 DEF PhaseOver
  <2> QED BY <1>7, <2>2, <2>3, <2>4, <2>5 DEF PhaseOver
<1>8. CASE NextPhase
  BY <1>8 DEF NextPhase, SendPrepare, agVars
<1>9. CASE PauseCancelled
  BY <1>9 DEF PauseCancelled, EndWith, agVars
<1>10. CASE Interrupt
  BY <1>10 DEF Interrupt, agVars, netVars
<1>11. CASE CoordinatorDies
  BY <1>11 DEF CoordinatorDies, EndWith, agVars
<1>12. CASE CoordinatorVanishes
  BY <1>12 DEF CoordinatorVanishes, agVars, netVars
<1>13. ASSUME NEW a \in Agents, Connect(a) PROVE CoTypes'
  BY <1>13 DEF Connect
<1>14. ASSUME NEW a \in Agents, ConnectFails(a) PROVE CoTypes'
  BY <1>14 DEF ConnectFails
<1>15. ASSUME NEW a \in Agents, PrepareAnswered(a) PROVE CoTypes'
  BY <1>15 DEF PrepareAnswered, agVars
<1>16. ASSUME NEW a \in Agents, PrepareFails(a) PROVE CoTypes'
  BY <1>16 DEF PrepareFails, agVars, netVars
<1>17. ASSUME NEW a \in Agents, FollowReads(a) PROVE CoTypes'
  BY <1>17 DEF FollowReads, agVars
<1>18. ASSUME NEW a \in Agents, FollowFails(a) PROVE CoTypes'
  BY <1>18 DEF FollowFails, agVars
<1>19. ASSUME NEW a \in Agents, FollowStops(a) PROVE CoTypes'
  BY <1>19 DEF FollowStops, agVars
<1>20. ASSUME NEW a \in Agents, AgentPrepares(a) PROVE CoTypes'
  BY <1>20 DEF AgentPrepares, coVars
<1>21. ASSUME NEW a \in Agents, AgentStarts(a) PROVE CoTypes'
  BY <1>21 DEF AgentStarts, coVars
<1>22. ASSUME NEW a \in Agents, AgentStopped(a) PROVE CoTypes'
  BY <1>22 DEF AgentStopped, coVars
<1>23. ASSUME NEW a \in Agents, AgentCancels(a) PROVE CoTypes'
  BY <1>23 DEF AgentCancels, coVars
<1>24. ASSUME NEW a \in Agents, AgentGivesUp(a) PROVE CoTypes'
  BY <1>24 DEF AgentGivesUp, coVars
<1>25. ASSUME NEW a \in Agents, AgentAbandoned(a) PROVE CoTypes'
  BY <1>25 DEF AgentAbandoned, coVars, netVars
<1>26. ASSUME NEW a \in Agents, AgentFinishes(a) PROVE CoTypes'
  BY <1>26 DEF AgentFinishes, coVars
<1>27. ASSUME NEW a \in Agents, AgentGone(a) PROVE CoTypes'
  BY <1>27 DEF AgentGone, coVars
<1>28. ASSUME NEW a \in Agents, AgentDies(a) PROVE CoTypes'
  BY <1>28 DEF AgentDies, coVars, agVars
<1>29. ASSUME NEW a \in Agents, AgentHangs(a) PROVE CoTypes'
  BY <1>29 DEF AgentHangs, coVars, agVars, netVars
<1>30. ASSUME NEW a \in Agents, LinkBreaks(a) PROVE CoTypes'
  BY <1>30 DEF LinkBreaks, coVars, agVars
<1>31. CASE UNCHANGED vars
  BY <1>31 DEF vars, coVars, agVars, netVars
<1> QED
  BY <1>1, <1>2, <1>3, <1>4, <1>5, <1>6, <1>7, <1>8, <1>9, <1>10,
     <1>11, <1>12, <1>13, <1>14, <1>15, <1>16, <1>17, <1>18, <1>19, <1>20,
     <1>21, <1>22, <1>23, <1>24, <1>25, <1>26, <1>27, <1>28, <1>29, <1>30,
     <1>31
  DEF Next, CoStep, CoStepFor, AgStep, Fault, Over

\* Every step keeps the types of the agents and of the connections.
LEMMA AgTypeStep ==
  ASSUME AgTypes, NetTypes, [Next]_vars
  PROVE  AgTypes'
<1> USE DEF AgTypes, AgStates
<1>1. CASE Opened
  BY <1>1 DEF Opened, SendPrepare, agVars
<1>2. CASE OpenFails
  BY <1>2 DEF OpenFails, EndWith, CloseCo, agVars
<1>3. CASE BarrierFails
  BY <1>3 DEF BarrierFails, EndWith, CloseCo, agVars
<1>4. CASE BarrierCancelled
  BY <1>4 DEF BarrierCancelled, EndWith, CloseCo, agVars
<1>5. CASE StartPhase
  BY <1>5 DEF StartPhase, CloseCo, agVars
<1>6. CASE BarrierLosesAll
  BY <1>6 DEF BarrierLosesAll, EndWith, CloseCo, agVars
<1>7. CASE PhaseOver
  BY <1>7, ZenonT(60) DEF PhaseOver, EndWith, CloseCo, agVars
<1>8. CASE NextPhase
  BY <1>8 DEF NextPhase, SendPrepare, agVars
<1>9. CASE PauseCancelled
  BY <1>9 DEF PauseCancelled, EndWith, CloseCo, agVars
<1>10. CASE Interrupt
  BY <1>10 DEF Interrupt, agVars, netVars
<1>11. CASE CoordinatorDies
  BY <1>11 DEF CoordinatorDies, EndWith, CloseCo, agVars
<1>12. CASE CoordinatorVanishes
  BY <1>12 DEF CoordinatorVanishes, agVars, netVars
<1>13. ASSUME NEW a \in Agents, Connect(a) PROVE AgTypes'
  BY <1>13 DEF Connect
<1>14. ASSUME NEW a \in Agents, ConnectFails(a) PROVE AgTypes'
  <2>1. UNCHANGED agPhase
    BY <1>14 DEF ConnectFails
  <2>2. CASE UNCHANGED <<ag, open>>
    BY <2>1, <2>2
  <2>3. CASE /\ ag' = [ag EXCEPT ![a] = "wait"]
             /\ open' = [open EXCEPT ![a] = [co |-> FALSE, ag |-> TRUE]]
    BY <2>1, <2>3
  <2> QED BY <1>14, <2>2, <2>3 DEF ConnectFails
<1>15. ASSUME NEW a \in Agents, PrepareAnswered(a) PROVE AgTypes'
  BY <1>15 DEF PrepareAnswered, agVars
<1>16. ASSUME NEW a \in Agents, PrepareFails(a) PROVE AgTypes'
  BY <1>16 DEF PrepareFails, agVars, netVars
<1>17. ASSUME NEW a \in Agents, FollowReads(a) PROVE AgTypes'
  BY <1>17 DEF FollowReads, agVars
<1>18. ASSUME NEW a \in Agents, FollowFails(a) PROVE AgTypes'
  BY <1>18 DEF FollowFails, agVars
<1>19. ASSUME NEW a \in Agents, FollowStops(a) PROVE AgTypes'
  BY <1>19 DEF FollowStops, agVars
<1>20. ASSUME NEW a \in Agents, AgentPrepares(a) PROVE AgTypes'
  <2>1. Head(toAg[a]).phase \in 0..Phases
    BY <1>20, QueueTypes, ControlAssumption DEF AgentPrepares, Receives
  <2>2. agPhase' \in [Agents -> 0..Phases]
    BY <1>20, <2>1 DEF AgentPrepares
  <2>3. CASE ag' = [ag EXCEPT ![a] = "ready"] /\ UNCHANGED open
    BY <2>2, <2>3
  <2>4. CASE Leave(a)
    BY <2>2, <2>4 DEF Leave
  <2> QED BY <1>20, <2>3, <2>4 DEF AgentPrepares
<1>21. ASSUME NEW a \in Agents, AgentStarts(a) PROVE AgTypes'
  BY <1>21 DEF AgentStarts, coVars
<1>22. ASSUME NEW a \in Agents, AgentStopped(a) PROVE AgTypes'
  BY <1>22 DEF AgentStopped, Leave, coVars
<1>23. ASSUME NEW a \in Agents, AgentCancels(a) PROVE AgTypes'
  BY <1>23 DEF AgentCancels, coVars
<1>24. ASSUME NEW a \in Agents, AgentGivesUp(a) PROVE AgTypes'
  BY <1>24 DEF AgentGivesUp, Leave, coVars
<1>25. ASSUME NEW a \in Agents, AgentAbandoned(a) PROVE AgTypes'
  BY <1>25 DEF AgentAbandoned, coVars, netVars
<1>26. ASSUME NEW a \in Agents, AgentFinishes(a) PROVE AgTypes'
  <2>1. CASE ag' = [ag EXCEPT ![a] = "wait"] /\ UNCHANGED <<open, agPhase>>
    BY <2>1
  <2>2. CASE Leave(a) /\ UNCHANGED agPhase
    BY <2>2 DEF Leave
  <2> QED BY <1>26, <2>1, <2>2 DEF AgentFinishes
<1>27. ASSUME NEW a \in Agents, AgentGone(a) PROVE AgTypes'
  BY <1>27 DEF AgentGone, Leave, coVars
<1>28. ASSUME NEW a \in Agents, AgentDies(a) PROVE AgTypes'
  BY <1>28 DEF AgentDies, coVars, agVars
<1>29. ASSUME NEW a \in Agents, AgentHangs(a) PROVE AgTypes'
  BY <1>29 DEF AgentHangs, coVars, agVars, netVars
<1>30. ASSUME NEW a \in Agents, LinkBreaks(a) PROVE AgTypes'
  BY <1>30 DEF LinkBreaks, coVars, agVars
<1>31. CASE UNCHANGED vars
  BY <1>31 DEF vars, coVars, agVars, netVars
<1> QED
  BY <1>1, <1>2, <1>3, <1>4, <1>5, <1>6, <1>7, <1>8, <1>9, <1>10,
     <1>11, <1>12, <1>13, <1>14, <1>15, <1>16, <1>17, <1>18, <1>19, <1>20,
     <1>21, <1>22, <1>23, <1>24, <1>25, <1>26, <1>27, <1>28, <1>29, <1>30,
     <1>31
  DEF Next, CoStep, CoStepFor, AgStep, Fault, Over

\* Every step keeps the types of the queues.
LEMMA NetTypeStep ==
  ASSUME CoTypes, AgTypes, NetTypes, CoTypes', AgTypes', [Next]_vars
  PROVE  NetTypes'
<1> USE DEF NetTypes
<1>1. CASE Opened
  <2>1. 1 \in 1..Phases
    BY <1>1, ControlAssumption DEF CoTypes, Opened, SendPrepare
  <2>2. \A q \in Seq(DownMsg) : Append(q, Message("Prepare", 1)) \in Seq(DownMsg)
    BY <2>1, QueueTypes DEF Kinds
  <2> QED BY <1>1, <2>2 DEF Opened, SendPrepare
<1>2. CASE OpenFails
  BY <1>2 DEF OpenFails, EndWith, agVars
<1>3. CASE BarrierFails
  <2>1. \A q \in Seq(DownMsg) : /\ Append(q, Message("Start", phase)) \in Seq(DownMsg)
                                 /\ Append(q, Message("Stop", phase)) \in Seq(DownMsg)
    BY QueueTypes DEF CoTypes, Kinds
  <2> QED BY <1>3, <2>1 DEF BarrierFails, SendAll
<1>4. CASE BarrierCancelled
  <2>1. \A q \in Seq(DownMsg) : /\ Append(q, Message("Start", phase)) \in Seq(DownMsg)
                                 /\ Append(q, Message("Stop", phase)) \in Seq(DownMsg)
    BY QueueTypes DEF CoTypes, Kinds
  <2> QED BY <1>4, <2>1 DEF BarrierCancelled, SendAll
<1>5. CASE StartPhase
  <2>1. \A q \in Seq(DownMsg) : /\ Append(q, Message("Start", phase)) \in Seq(DownMsg)
                                 /\ Append(q, Message("Stop", phase)) \in Seq(DownMsg)
    BY QueueTypes DEF CoTypes, Kinds
  <2> QED BY <1>5, <2>1 DEF StartPhase, SendAll
<1>6. CASE BarrierLosesAll
  BY <1>6 DEF BarrierLosesAll, EndWith, agVars
<1>7. CASE PhaseOver
  BY <1>7 DEF PhaseOver, EndWith, agVars
<1>8. CASE NextPhase
  <2>1. (phase + 1) \in 1..Phases
    BY <1>8, ControlAssumption DEF CoTypes, NextPhase, SendPrepare
  <2>2. \A q \in Seq(DownMsg) : Append(q, Message("Prepare", (phase + 1))) \in Seq(DownMsg)
    BY <2>1, QueueTypes DEF Kinds
  <2> QED BY <1>8, <2>2 DEF NextPhase, SendPrepare
<1>9. CASE PauseCancelled
  BY <1>9 DEF PauseCancelled, EndWith, agVars
<1>10. CASE Interrupt
  BY <1>10 DEF Interrupt, agVars, netVars
<1>11. CASE CoordinatorDies
  BY <1>11 DEF CoordinatorDies, EndWith, agVars
<1>12. CASE CoordinatorVanishes
  BY <1>12 DEF CoordinatorVanishes, agVars, netVars
<1>13. ASSUME NEW a \in Agents, Connect(a) PROVE NetTypes'
  BY <1>13 DEF Connect
<1>14. ASSUME NEW a \in Agents, ConnectFails(a) PROVE NetTypes'
  BY <1>14 DEF ConnectFails
<1>15. ASSUME NEW a \in Agents, PrepareAnswered(a) PROVE NetTypes'
  BY <1>15, QueueTypes DEF PrepareAnswered, agVars
<1>16. ASSUME NEW a \in Agents, PrepareFails(a) PROVE NetTypes'
  BY <1>16 DEF PrepareFails, agVars, netVars
<1>17. ASSUME NEW a \in Agents, FollowReads(a) PROVE NetTypes'
  BY <1>17, QueueTypes DEF FollowReads, agVars
<1>18. ASSUME NEW a \in Agents, FollowFails(a) PROVE NetTypes'
  BY <1>18 DEF FollowFails, agVars
<1>19. ASSUME NEW a \in Agents, FollowStops(a) PROVE NetTypes'
  <2>1. \A q \in Seq(DownMsg) : /\ Append(q, Message("Start", phase)) \in Seq(DownMsg)
                                 /\ Append(q, Message("Stop", phase)) \in Seq(DownMsg)
    BY QueueTypes DEF CoTypes, Kinds
  <2> QED BY <1>19, <2>1 DEF FollowStops, SendAll
<1>20. ASSUME NEW a \in Agents, AgentPrepares(a) PROVE NetTypes'
  <2>1. agPhase'[a] \in 0..Phases
    BY DEF AgTypes
  <2>2. \A q \in Seq(UpMsg) : /\ Append(q, Message("Ready", agPhase'[a])) \in Seq(UpMsg)
                               /\ Append(q, Message("Error", agPhase'[a])) \in Seq(UpMsg)
    BY <2>1, QueueTypes DEF Kinds
  <2>3. toCo' \in [Agents -> Seq(UpMsg)]
    <3>1. Reply(a, "Ready") \/ Reply(a, "Error")
      BY <1>20 DEF AgentPrepares
    <3> QED BY <2>2, <3>1 DEF Reply
  <2> QED BY <1>20, <2>3, QueueTypes DEF AgentPrepares, Receives
<1>21. ASSUME NEW a \in Agents, AgentStarts(a) PROVE NetTypes'
  BY <1>21, QueueTypes DEF AgentStarts, Receives, coVars
<1>22. ASSUME NEW a \in Agents, AgentStopped(a) PROVE NetTypes'
  BY <1>22, QueueTypes DEF AgentStopped, Receives, coVars
<1>23. ASSUME NEW a \in Agents, AgentCancels(a) PROVE NetTypes'
  BY <1>23, QueueTypes DEF AgentCancels, coVars
<1>24. ASSUME NEW a \in Agents, AgentGivesUp(a) PROVE NetTypes'
  BY <1>24 DEF AgentGivesUp, coVars
<1>25. ASSUME NEW a \in Agents, AgentAbandoned(a) PROVE NetTypes'
  BY <1>25 DEF AgentAbandoned, coVars, netVars
<1>26. ASSUME NEW a \in Agents, AgentFinishes(a) PROVE NetTypes'
  <2>1. agPhase'[a] \in 0..Phases
    BY DEF AgTypes
  <2>2. \A q \in Seq(UpMsg) : /\ Append(q, Message("Result", agPhase'[a])) \in Seq(UpMsg)
                               /\ Append(q, Message("Error", agPhase'[a])) \in Seq(UpMsg)
    BY <2>1, QueueTypes DEF Kinds
  <2>3. toCo' \in [Agents -> Seq(UpMsg)]
    BY <1>26, <2>2, ZenonT(60) DEF AgentFinishes, Reply
  <2> QED BY <1>26, <2>3 DEF AgentFinishes
<1>27. ASSUME NEW a \in Agents, AgentGone(a) PROVE NetTypes'
  BY <1>27 DEF AgentGone, coVars
<1>28. ASSUME NEW a \in Agents, AgentDies(a) PROVE NetTypes'
  BY <1>28 DEF AgentDies, coVars, agVars
<1>29. ASSUME NEW a \in Agents, AgentHangs(a) PROVE NetTypes'
  BY <1>29 DEF AgentHangs, coVars, agVars, netVars
<1>30. ASSUME NEW a \in Agents, LinkBreaks(a) PROVE NetTypes'
  BY <1>30 DEF LinkBreaks, coVars, agVars
<1>31. CASE UNCHANGED vars
  BY <1>31 DEF vars, coVars, agVars, netVars
<1> QED
  BY <1>1, <1>2, <1>3, <1>4, <1>5, <1>6, <1>7, <1>8, <1>9, <1>10,
     <1>11, <1>12, <1>13, <1>14, <1>15, <1>16, <1>17, <1>18, <1>19, <1>20,
     <1>21, <1>22, <1>23, <1>24, <1>25, <1>26, <1>27, <1>28, <1>29, <1>30,
     <1>31
  DEF Next, CoStep, CoStepFor, AgStep, Fault, Over

----------------------------------------------------------------------------
(* Every step keeps the shape of every conversation.                       *)

\* A step that leaves an agent, its connection and what the coordinator
\* knows of it alone keeps its conversation.
Untouched(a) ==
  /\ UNCHANGED <<co, phase, cancel>>
  /\ answer'[a] = answer[a] /\ link'[a] = link[a] /\ stopped'[a] = stopped[a]
  /\ ag'[a] = ag[a] /\ agPhase'[a] = agPhase[a] /\ open'[a] = open[a]
  /\ toAg'[a] = toAg[a] /\ toCo'[a] = toCo[a]

\* A step that leaves an agent and its queues alone keeps its conversation.
LEMMA UntouchedKeeps ==
  ASSUME NEW a \in Agents, Conversation(a), Untouched(a)
  PROVE  Conversation(a)'
BY DEF Untouched, Conversation, Words, SamePhase, Held, WhileOpening, WhileBarrier,
       WhileFollowing, WhilePause, Unstarted, One, Two

\* What an agent does keeps its own conversation, and that of the others.
LEMMA AgentStepKeeps ==
  ASSUME ControlInv, NEW b \in Agents, AgStep(b), NEW a \in Agents
  PROVE  Conversation(a)'
<1>1. /\ ag \in [Agents -> AgStates] /\ agPhase \in [Agents -> 0..Phases]
      /\ open \in [Agents -> [co: BOOLEAN, ag: BOOLEAN]]
      /\ toAg \in [Agents -> Seq(DownMsg)] /\ toCo \in [Agents -> Seq(UpMsg)]
      /\ Conversation(a)
  BY TypeParts DEF ControlInv, AgTypes, NetTypes
<1>2. /\ toAg[a] # <<>> => Head(toAg[a]) = toAg[a][1]
      /\ Len(toAg[a]) = 1 => Tail(toAg[a]) = <<>>
      /\ Len(toAg[a]) = 2 => /\ Len(Tail(toAg[a])) = 1 /\ Tail(toAg[a]) # <<>>
                             /\ Tail(toAg[a])[1] = toAg[a][2]
  BY <1>1, ReadFacts
<1>3. \A k \in Kinds, n \in 0..Phases :
        /\ Append(toCo[a], Message(k, n)) # <<>>
        /\ toCo[a] = <<>> => /\ Append(toCo[a], Message(k, n))[1] = Message(k, n)
                            /\ Len(Append(toCo[a], Message(k, n))) = 1
        /\ toCo[a] # <<>> => Append(toCo[a], Message(k, n))[1] = toCo[a][1]
        /\ Message(k, n).kind = k /\ Message(k, n).phase = n
  <2> TAKE k \in Kinds, n \in 0..Phases
  <2>1. /\ Message(k, n) \in UpMsg
        /\ Message(k, n).kind = k /\ Message(k, n).phase = n
    BY MessageFacts
  <2>2. toCo[a] \in Seq(UpMsg)
    BY <1>1
  <2> QED BY <2>1, <2>2, QueueFacts
<1>4. CASE a # b
  BY <1>1, <1>4, UntouchedKeeps
  DEF AgStep, AgentPrepares, AgentStarts, AgentStopped, AgentCancels, AgentGivesUp,
      AgentAbandoned, AgentFinishes, AgentGone, Receives, Leave, Reply, Untouched,
      coVars, netVars
<1>5. CASE AgentStarts(a)
  BY <1>1, <1>2, <1>5
  DEF AgentStarts, Receives, coVars, Conversation, Words, SamePhase, Held,
      WhileOpening, WhileBarrier, WhileFollowing, WhilePause, Unstarted, One, Two,
      Away, Running, CoOver
<1>6. CASE AgentStopped(a)
  BY <1>1, <1>2, <1>6
  DEF AgentStopped, Receives, Leave, coVars, Conversation, Words, SamePhase, Held,
      WhileOpening, WhileBarrier, WhileFollowing, WhilePause, Unstarted, One, Two,
      Away, Running, CoOver
<1>7. CASE AgentCancels(a)
  BY <1>1, <1>2, <1>7
  DEF AgentCancels, coVars, Conversation, Words, SamePhase, Held,
      WhileOpening, WhileBarrier, WhileFollowing, WhilePause, Unstarted, One, Two,
      Away, Running, CoOver
<1>8. CASE AgentGivesUp(a)
  BY <1>1, <1>2, <1>8
  DEF AgentGivesUp, Leave, coVars, Conversation, Words, SamePhase, Held,
      WhileOpening, WhileBarrier, WhileFollowing, WhilePause, Unstarted, One, Two,
      Away, Running, CoOver
<1>9. CASE AgentAbandoned(a)
  BY <1>1, <1>2, <1>9
  DEF AgentAbandoned, coVars, netVars, Conversation, Words, SamePhase, Held,
      WhileOpening, WhileBarrier, WhileFollowing, WhilePause, Unstarted, One, Two,
      Away, Running, CoOver
<1>10. CASE AgentGone(a)
  BY <1>1, <1>2, <1>10
  DEF AgentGone, Leave, coVars, Conversation, Words, SamePhase, Held,
      WhileOpening, WhileBarrier, WhileFollowing, WhilePause, Unstarted, One, Two,
      Away, Running, CoOver
<1>11. CASE AgentPrepares(a)
  <2>1. Head(toAg[a]).phase \in 0..Phases
    BY <1>1, <1>11, QueueTypes DEF AgentPrepares, Receives, NetTypes
  <2>2. agPhase'[a] = toAg[a][1].phase /\ agPhase'[a] \in 0..Phases
    BY <1>1, <1>2, <1>11, <2>1 DEF AgentPrepares, Receives
  <2>3. CASE ag'[a] = "ready" /\ UNCHANGED open /\ Reply(a, "Ready")
    <3>1. toCo'[a] = IF open[a].co THEN Append(toCo[a], Message("Ready", agPhase'[a]))
                     ELSE toCo[a]
      BY <1>1, <2>3 DEF Reply
    <3> QED BY <1>1, <1>2, <1>3, <1>11, <2>2, <2>3, <3>1, SMTT(30)
        DEF AgentPrepares, Receives, coVars, Kinds, Conversation, Words, SamePhase, Held,
      WhileOpening, WhileBarrier, WhileFollowing, WhilePause, Unstarted, One, Two,
      Away, Running, CoOver
  <2>4. CASE Leave(a) /\ Reply(a, "Error")
    <3>1. toCo'[a] = IF open[a].co THEN Append(toCo[a], Message("Error", agPhase'[a]))
                     ELSE toCo[a]
      BY <1>1, <2>4 DEF Reply
    <3> QED BY <1>1, <1>2, <1>3, <1>11, <2>2, <2>4, <3>1
        DEF AgentPrepares, Receives, Leave, coVars, Kinds, Conversation, Words, SamePhase, Held,
      WhileOpening, WhileBarrier, WhileFollowing, WhilePause, Unstarted, One, Two,
      Away, Running, CoOver
  <2> QED BY <1>1, <1>11, <2>3, <2>4 DEF AgentPrepares
<1>12. CASE AgentFinishes(a)
  <2>1. agPhase' = agPhase /\ agPhase'[a] \in 0..Phases
    BY <1>1, <1>12 DEF AgentFinishes
  <2>2. CASE ag'[a] = "wait" /\ UNCHANGED open /\ Reply(a, "Result")
    <3>1. toCo'[a] = IF open[a].co THEN Append(toCo[a], Message("Result", agPhase'[a]))
                     ELSE toCo[a]
      BY <1>1, <2>2 DEF Reply
    <3> QED BY <1>1, <1>2, <1>3, <1>12, <2>1, <2>2, <3>1
        DEF AgentFinishes, coVars, Kinds, Conversation, Words, SamePhase, Held,
      WhileOpening, WhileBarrier, WhileFollowing, WhilePause, Unstarted, One, Two,
      Away, Running, CoOver
  <2>3. CASE Leave(a) /\ Reply(a, "Error")
    <3>1. toCo'[a] = IF open[a].co THEN Append(toCo[a], Message("Error", agPhase'[a]))
                     ELSE toCo[a]
      BY <1>1, <2>3 DEF Reply
    <3> QED BY <1>1, <1>2, <1>3, <1>12, <2>1, <2>3, <3>1
        DEF AgentFinishes, Leave, coVars, Kinds, Conversation, Words, SamePhase, Held,
      WhileOpening, WhileBarrier, WhileFollowing, WhilePause, Unstarted, One, Two,
      Away, Running, CoOver
  <2> QED BY <1>1, <1>12, <2>2, <2>3 DEF AgentFinishes
<1> QED BY <1>4, <1>5, <1>6, <1>7, <1>8, <1>9, <1>10, <1>11, <1>12 DEF AgStep

\* What the coordinator's task for one agent does keeps its conversation,
\* and that of the others.
LEMMA TaskStepKeeps ==
  ASSUME ControlInv, NEW b \in Agents, CoStepFor(b), NEW a \in Agents
  PROVE  Conversation(a)'
<1>1. /\ answer \in [Agents -> Answers] /\ link \in [Agents -> BOOLEAN]
      /\ stopped \in [Agents -> BOOLEAN]
      /\ phase \in 1..Phases /\ ag \in [Agents -> AgStates]
      /\ open \in [Agents -> [co: BOOLEAN, ag: BOOLEAN]]
      /\ toAg \in [Agents -> Seq(DownMsg)] /\ toCo \in [Agents -> Seq(UpMsg)]
      /\ Conversation(a)
  BY TypeParts DEF ControlInv, CoTypes, AgTypes, NetTypes
<1>2. /\ toCo[a] # <<>> => Head(toCo[a]) = toCo[a][1]
      /\ Len(toCo[a]) = 1 => Tail(toCo[a]) = <<>>
  BY <1>1, ReadFacts
<1>3. CASE a # b
  BY <1>1, <1>3, UntouchedKeeps
  DEF CoStepFor, Connect, ConnectFails, PrepareAnswered, PrepareFails, FollowReads,
      FollowFails, FollowStops, SendAll, Untouched, agVars, netVars
<1>4. CASE Connect(a)
  BY <1>1, <1>2, <1>4
  DEF Connect, Conversation, Words, SamePhase, Held, WhileOpening, WhileBarrier,
      WhileFollowing, WhilePause, Unstarted, One, Two, Away, Running, CoOver
<1>5. CASE ConnectFails(a)
  BY <1>1, <1>2, <1>5
  DEF ConnectFails, Conversation, Words, SamePhase, Held, WhileOpening, WhileBarrier,
      WhileFollowing, WhilePause, Unstarted, One, Two, Away, Running, CoOver
<1>6. CASE PrepareAnswered(a)
  BY <1>1, <1>2, <1>6
  DEF PrepareAnswered, agVars, Conversation, Words, SamePhase, Held, WhileOpening, WhileBarrier,
      WhileFollowing, WhilePause, Unstarted, One, Two, Away, Running, CoOver
<1>7. CASE PrepareFails(a)
  BY <1>1, <1>2, <1>7
  DEF PrepareFails, agVars, netVars, Conversation, Words, SamePhase, Held, WhileOpening, WhileBarrier,
      WhileFollowing, WhilePause, Unstarted, One, Two, Away, Running, CoOver
<1>8. CASE FollowReads(a)
  BY <1>1, <1>2, <1>8
  DEF FollowReads, agVars, AgStates, Conversation, Words, SamePhase, Held, WhileOpening, WhileBarrier,
      WhileFollowing, WhilePause, Unstarted, One, Two, Away, Running, CoOver
<1>9. CASE FollowFails(a)
  BY <1>1, <1>2, <1>9
  DEF FollowFails, agVars, Conversation, Words, SamePhase, Held, WhileOpening, WhileBarrier,
      WhileFollowing, WhilePause, Unstarted, One, Two, Away, Running, CoOver
<1>10. CASE FollowStops(a)
  <2>1. /\ Append(toAg[a], Message("Stop", phase)) # <<>>
        /\ toAg[a] = <<>> => One(Append(toAg[a], Message("Stop", phase)), "Stop")
        /\ One(toAg[a], "Start") => Two(Append(toAg[a], Message("Stop", phase)), "Start", "Stop")
    <3>1. toAg[a] \in Seq(DownMsg) /\ Message("Stop", phase) \in DownMsg
          /\ Message("Stop", phase).kind = "Stop"
      BY <1>1, MessageFacts DEF Kinds
    <3> QED BY <3>1, QueueFacts DEF One, Two
  <2>2. toAg'[a] = IF open[a].ag THEN Append(toAg[a], Message("Stop", phase)) ELSE toAg[a]
    BY <1>10 DEF FollowStops, SendAll
  <2> QED BY <1>1, <1>10, <2>1, <2>2 DEF FollowStops, agVars,
      Conversation, Words, SamePhase, Held, WhileOpening, WhileBarrier,
      WhileFollowing, WhilePause, Unstarted, One, Two, Away, Running, CoOver
<1> QED BY <1>3, <1>4, <1>5, <1>6, <1>7, <1>8, <1>9, <1>10 DEF CoStepFor

\* What the coordinator does with all agents keeps every conversation.
LEMMA CoordinatorStepKeeps ==
  ASSUME ControlInv, CoStep, NEW a \in Agents
  PROVE  Conversation(a)'
<1>1. /\ answer \in [Agents -> Answers] /\ link \in [Agents -> BOOLEAN]
      /\ stopped \in [Agents -> BOOLEAN] /\ cancel \in BOOLEAN
      /\ phase \in 1..Phases /\ ag \in [Agents -> AgStates]
      /\ open \in [Agents -> [co: BOOLEAN, ag: BOOLEAN]]
      /\ toAg \in [Agents -> Seq(DownMsg)] /\ toCo \in [Agents -> Seq(UpMsg)]
      /\ Conversation(a)
      /\ co = "opening" => phase = 1
      /\ co = "pause" => phase < Phases
      /\ Phases \in Nat
  BY TypeParts, ControlAssumption DEF ControlInv, CoTypes, AgTypes, NetTypes, Books
<1>2. \A k \in Kinds, n \in 1..Phases :
        /\ Append(toAg[a], Message(k, n)) # <<>>
        /\ toAg[a] = <<>> => /\ Append(toAg[a], Message(k, n))[1] = Message(k, n)
                            /\ Len(Append(toAg[a], Message(k, n))) = 1
        /\ Len(toAg[a]) = 1 => /\ Append(toAg[a], Message(k, n))[1] = toAg[a][1]
                               /\ Append(toAg[a], Message(k, n))[2] = Message(k, n)
                               /\ Len(Append(toAg[a], Message(k, n))) = 2
        /\ Message(k, n).kind = k /\ Message(k, n).phase = n
  <2> TAKE k \in Kinds, n \in 1..Phases
  <2>1. /\ Message(k, n) \in DownMsg
        /\ Message(k, n).kind = k /\ Message(k, n).phase = n
    BY MessageFacts
  <2>2. toAg[a] \in Seq(DownMsg)
    BY <1>1
  <2> QED BY <2>1, <2>2, QueueFacts
<1> USE DEF Kinds, agVars, AllAnswered, Yes, No, Linked
<1>3. CASE Opened
  <2>1. link[a] /\ phase' = 1 /\ phase = 1 /\ co' = "barrier" /\ answer'[a] = "none"
    BY <1>1, <1>3 DEF Opened, SendPrepare, Conversation, WhileOpening, Answers
  <2>2. toAg'[a] = IF open[a].ag THEN Append(toAg[a], Message("Prepare", 1)) ELSE toAg[a]
    BY <2>1, <1>3 DEF Opened, SendPrepare
  <2>3. 1 \in 1..Phases
    BY <1>1
  <2> QED BY <1>1, <1>2, <1>3, <2>1, <2>2, <2>3 DEF Opened,
      Conversation, Words, SamePhase, Held, WhileOpening, WhileBarrier,
      WhileFollowing, WhilePause, Unstarted, One, Two, Away, Running, CoOver
<1>4. CASE OpenFails
  BY <1>1, <1>2, <1>4
  DEF OpenFails, EndWith, CloseCo, Conversation, Words, SamePhase, Held, WhileOpening, WhileBarrier,
      WhileFollowing, WhilePause, Unstarted, One, Two, Away, Running, CoOver
<1>5. CASE BarrierFails
  BY <1>1, <1>2, <1>5
  DEF BarrierFails, SendAll, EndWith, CloseCo, Conversation, Words, SamePhase, Held, WhileOpening, WhileBarrier,
      WhileFollowing, WhilePause, Unstarted, One, Two, Away, Running, CoOver
<1>6. CASE BarrierCancelled
  BY <1>1, <1>2, <1>6
  DEF BarrierCancelled, SendAll, EndWith, CloseCo, Conversation, Words, SamePhase, Held, WhileOpening, WhileBarrier,
      WhileFollowing, WhilePause, Unstarted, One, Two, Away, Running, CoOver
<1>7. CASE StartPhase
  <2>1. CASE answer[a] = "yes"
    <3>1. /\ answer'[a] = "none" /\ link'[a] = link[a] /\ open'[a] = open[a]
          /\ toAg'[a] = IF open[a].ag THEN Append(toAg[a], Message("Start", phase))
                        ELSE toAg[a]
      BY <1>1, <1>7, <2>1 DEF StartPhase, CloseCo, SendAll
    <3> QED BY <1>1, <1>2, <1>7, <2>1, <3>1 DEF StartPhase, AgStates,
        Conversation, Words, SamePhase, Held, WhileOpening, WhileBarrier,
      WhileFollowing, WhilePause, Unstarted, One, Two, Away, Running, CoOver
  <2>2. CASE answer[a] # "yes"
    <3>1. /\ answer'[a] = "out" /\ ~link'[a] /\ ~open'[a].co /\ toAg'[a] = toAg[a]
      BY <1>1, <1>7, <2>2
      DEF StartPhase, CloseCo, SendAll, Answers, Conversation, WhileBarrier, Held
    <3> QED BY <1>1, <1>7, <2>2, <3>1 DEF StartPhase,
        Conversation, Words, SamePhase, Held, WhileOpening, WhileBarrier,
      WhileFollowing, WhilePause, Unstarted, One, Two, Away, Running, CoOver
  <2> QED BY <2>1, <2>2
<1>8. CASE BarrierLosesAll
  BY <1>1, <1>2, <1>8
  DEF BarrierLosesAll, EndWith, CloseCo, Conversation, Words, SamePhase, Held, WhileOpening, WhileBarrier,
      WhileFollowing, WhilePause, Unstarted, One, Two, Away, Running, CoOver
<1>9. CASE PhaseOver
  <2>1. CASE co' = "pause"
    <3>1. link'[a] = (answer[a] = "yes") /\ open' = open
      BY <1>9, <2>1 DEF PhaseOver, EndWith
    <3>2. answer[a] \in {"yes", "no", "out"}
      BY <1>1, <1>9 DEF PhaseOver, Answers
    <3> QED BY <1>1, <1>9, <2>1, <3>1, <3>2 DEF PhaseOver, AgStates,
        Conversation, Words, SamePhase, Held, WhileOpening, WhileBarrier,
      WhileFollowing, WhilePause, Unstarted, One, Two, Away, Running, CoOver
  <2>2. CASE co' \in {"allLost", "reported"}
    <3>1. ~link'[a] /\ ~open'[a].co
      BY <1>1, <1>9, <2>2 DEF PhaseOver, EndWith, CloseCo
    <3> QED BY <1>1, <1>9, <2>2, <3>1 DEF PhaseOver,
        Conversation, Words, SamePhase, Held, WhileOpening, WhileBarrier,
      WhileFollowing, WhilePause, Unstarted, One, Two, Away, Running, CoOver
  <2> QED BY <1>9, <2>1, <2>2 DEF PhaseOver, EndWith
<1>10. CASE NextPhase
  BY <1>1, <1>2, <1>10
  DEF NextPhase, SendPrepare, Conversation, Words, SamePhase, Held, WhileOpening, WhileBarrier,
      WhileFollowing, WhilePause, Unstarted, One, Two, Away, Running, CoOver
<1>11. CASE PauseCancelled
  BY <1>1, <1>2, <1>11
  DEF PauseCancelled, EndWith, CloseCo, Conversation, Words, SamePhase, Held, WhileOpening, WhileBarrier,
      WhileFollowing, WhilePause, Unstarted, One, Two, Away, Running, CoOver
<1> QED BY <1>3, <1>4, <1>5, <1>6, <1>7, <1>8, <1>9, <1>10, <1>11 DEF CoStep

\* Crashes, hangs, broken links and interrupts keep every conversation.
LEMMA FaultKeeps ==
  ASSUME ControlInv, Fault, NEW a \in Agents
  PROVE  Conversation(a)'
<1>1. /\ link \in [Agents -> BOOLEAN] /\ cancel \in BOOLEAN
      /\ ag \in [Agents -> AgStates]
      /\ open \in [Agents -> [co: BOOLEAN, ag: BOOLEAN]]
      /\ toAg \in [Agents -> Seq(DownMsg)] /\ toCo \in [Agents -> Seq(UpMsg)]
      /\ Conversation(a)
  BY TypeParts DEF ControlInv, CoTypes, AgTypes, NetTypes
<1>2. CASE Interrupt
  BY <1>1, <1>2
  DEF Interrupt, agVars, netVars, Conversation, Words, SamePhase, Held, WhileOpening, WhileBarrier,
      WhileFollowing, WhilePause, Unstarted, One, Two, Away, Running, CoOver
<1>3. CASE CoordinatorDies
  BY <1>1, <1>3
  DEF CoordinatorDies, EndWith, CloseCo, agVars, Conversation, Words, SamePhase, Held, WhileOpening, WhileBarrier,
      WhileFollowing, WhilePause, Unstarted, One, Two, Away, Running, CoOver
<1>4. CASE CoordinatorVanishes
  BY <1>1, <1>4
  DEF CoordinatorVanishes, agVars, netVars, Conversation, Words, SamePhase, Held, WhileOpening, WhileBarrier,
      WhileFollowing, WhilePause, Unstarted, One, Two, Away, Running, CoOver
<1>5. ASSUME NEW b \in Agents, a # b, AgentDies(b) \/ AgentHangs(b) \/ LinkBreaks(b)
      PROVE  Conversation(a)'
  BY <1>1, <1>5, UntouchedKeeps
  DEF AgentDies, AgentHangs, LinkBreaks, Untouched, coVars, agVars, netVars
<1>6. CASE AgentDies(a)
  BY <1>1, <1>6
  DEF AgentDies, coVars, Conversation, Words, SamePhase, Held, WhileOpening, WhileBarrier,
      WhileFollowing, WhilePause, Unstarted, One, Two, Away, Running, CoOver
<1>7. CASE AgentHangs(a)
  BY <1>1, <1>7
  DEF AgentHangs, coVars, netVars, Conversation, Words, SamePhase, Held, WhileOpening, WhileBarrier,
      WhileFollowing, WhilePause, Unstarted, One, Two, Away, Running, CoOver
<1>8. CASE LinkBreaks(a)
  BY <1>1, <1>8
  DEF LinkBreaks, coVars, agVars, Conversation, Words, SamePhase, Held, WhileOpening, WhileBarrier,
      WhileFollowing, WhilePause, Unstarted, One, Two, Away, Running, CoOver
<1> QED BY <1>2, <1>3, <1>4, <1>5, <1>6, <1>7, <1>8 DEF Fault

----------------------------------------------------------------------------
(* The books, and the invariant as a whole.                                *)

\* Every step keeps the coordinator's books.
LEMMA BooksStep ==
  ASSUME ControlInv, [Next]_vars
  PROVE  Books'
<1>1. /\ phase \in 1..Phases /\ Phases \in Nat
      /\ answer \in [Agents -> Answers] /\ link \in [Agents -> BOOLEAN]
      /\ lost \in [Agents -> BOOLEAN] /\ runs \in Seq(SUBSET Agents)
      /\ Books
      /\ \A a \in Agents : WhileOpening(a) /\ WhileBarrier(a) /\ WhileFollowing(a)
  BY TypeParts, ControlAssumption DEF ControlInv, CoTypes, Conversation
<1>2. CASE UNCHANGED <<co, phase, link, lost, runs>>
  BY <1>1, <1>2 DEF Books
<1>3. ASSUME NEW b \in Agents, Connect(b)
      PROVE  Books'
  BY <1>1, <1>3 DEF Books, Connect
<1>4. CASE Opened
  <2>1. \A a \in Agents : link[a]
    BY <1>1, <1>4 DEF Opened, AllAnswered, No, WhileOpening, Answers
  <2> QED BY <1>1, <1>4, <2>1 DEF Books, Opened, SendPrepare
<1>5. CASE NextPhase
  BY <1>1, <1>5 DEF Books, NextPhase, SendPrepare
<1>6. CASE StartPhase
  BY <1>1, <1>6 DEF Books, StartPhase, No, Yes, AllAnswered
<1>7. CASE PhaseOver
  <2>1. \A a \in Agents : a \in Yes \/ lost'[a]
    BY <1>1, <1>7 DEF Books, PhaseOver, AllAnswered, Yes, No, WhileFollowing, Answers
  <2>2. Yes \in SUBSET Agents /\ \A a \in Agents : lost[a] => lost'[a]
    BY <1>1, <1>7 DEF PhaseOver, Yes
  <2>3. \A i \in DOMAIN runs' : \A a \in Agents : a \in runs'[i] \/ lost'[a]
    <3>1. CASE runs' = runs
      BY <1>1, <2>2, <3>1 DEF Books
    <3>2. CASE runs' = Append(runs, Yes)
      <4>1. /\ Len(runs') = Len(runs) + 1 /\ runs'[Len(runs) + 1] = Yes
            /\ \A i \in 1..Len(runs) : runs'[i] = runs[i]
            /\ runs' \in Seq(SUBSET Agents)
        BY <1>1, <2>2, <3>2, AppendProperties
      <4>2. DOMAIN runs' = 1..Len(runs') /\ DOMAIN runs = 1..Len(runs) /\ Len(runs) \in Nat
        BY <1>1, <4>1, LenProperties
      <4>3. ASSUME NEW i \in DOMAIN runs', NEW a \in Agents
            PROVE  a \in runs'[i] \/ lost'[a]
        <5>1. CASE i \in 1..Len(runs)
          BY <1>1, <2>2, <4>1, <4>2, <5>1 DEF Books
        <5>2. CASE i = Len(runs) + 1
          BY <2>1, <4>1, <5>2
        <5> QED BY <4>1, <4>2, <5>1, <5>2
      <4> QED BY <4>3
    <3> QED BY <1>7, <3>1, <3>2 DEF PhaseOver
  <2>4. CASE co' = "pause"
    <3>1. Len(runs') = phase /\ phase' = phase /\ phase < Phases
      BY <1>1, <1>7, <2>2, <2>4, AppendProperties DEF PhaseOver, EndWith, Books
    <3>2. \A a \in Agents : ~link'[a] => lost'[a]
      BY <1>7, <2>1, <2>4 DEF PhaseOver, EndWith
    <3> QED BY <2>3, <2>4, <3>1, <3>2 DEF Books
  <2>5. CASE co' \in {"allLost", "reported"}
    BY <2>3, <2>5 DEF Books
  <2> QED BY <1>7, <2>4, <2>5 DEF PhaseOver, EndWith
<1>8. CASE co' \in CoOver /\ runs' = runs /\ \A a \in Agents : lost[a] => lost'[a]
  BY <1>1, <1>8 DEF Books, CoOver
<1>9. CASE OpenFails \/ BarrierFails \/ BarrierCancelled \/ PauseCancelled
           \/ CoordinatorDies \/ CoordinatorVanishes
  BY <1>8, <1>9
  DEF OpenFails, BarrierFails, BarrierCancelled, PauseCancelled, CoordinatorDies,
      CoordinatorVanishes, EndWith, CoOver
<1>10. CASE BarrierLosesAll
  BY <1>1, <1>8, <1>10 DEF BarrierLosesAll, EndWith, CoOver
<1>11. ASSUME NEW b \in Agents, CoStepFor(b), ~Connect(b)
       PROVE  UNCHANGED <<co, phase, link, lost, runs>>
  BY <1>11 DEF CoStepFor, ConnectFails, PrepareAnswered, PrepareFails, FollowReads,
               FollowFails, FollowStops
<1>12. ASSUME NEW b \in Agents, AgStep(b) \/ AgentDies(b) \/ AgentHangs(b) \/ LinkBreaks(b)
       PROVE  UNCHANGED <<co, phase, link, lost, runs>>
  BY <1>12 DEF AgStep, AgentPrepares, AgentStarts, AgentStopped, AgentCancels,
               AgentGivesUp, AgentAbandoned, AgentFinishes, AgentGone, AgentDies,
               AgentHangs, LinkBreaks, coVars
<1>13. Interrupt => UNCHANGED <<co, phase, link, lost, runs>>
  BY DEF Interrupt
<1>14. UNCHANGED vars => UNCHANGED <<co, phase, link, lost, runs>>
  BY DEF vars, coVars
<1> QED BY <1>2, <1>3, <1>4, <1>5, <1>6, <1>7, <1>9, <1>10, <1>11, <1>12, <1>13, <1>14
        DEF Next, CoStep, Fault, Over

\* The invariant holds in every state of the control plane.
THEOREM ControlInvariant == Spec => []ControlInv
<1>1. Init => ControlInv
  <2> SUFFICES ASSUME Init PROVE ControlInv
    OBVIOUS
  <2>1. TypeOK
    <3>1. CoTypes
      <4>1. 1 \in 1..Phases
        BY ControlAssumption
      <4>2. runs \in Seq(SUBSET Agents)
        BY EmptySeq DEF Init
      <4>3. cancel \in BOOLEAN
        BY DEF Init
      <4> QED BY <4>1, <4>2, <4>3 DEF Init, CoTypes, CoStates, Answers
    <3>2. AgTypes
      BY ControlAssumption DEF Init, AgTypes, AgStates
    <3>3. NetTypes
      BY DEF Init, NetTypes
    <3> QED BY <3>1, <3>2, <3>3, TypeParts
  <2>2. \A a \in Agents : Conversation(a)
    BY DEF Init, Conversation, Words, SamePhase, Held, WhileOpening, WhileBarrier,
           WhileFollowing, WhilePause, Unstarted, One, Two, Away, Running, CoOver
  <2>3. Books
    BY DEF Init, Books
  <2> QED BY <2>1, <2>2, <2>3 DEF ControlInv
<1>2. ControlInv /\ [Next]_vars => ControlInv'
  <2> SUFFICES ASSUME ControlInv, [Next]_vars PROVE ControlInv'
    OBVIOUS
  <2>1. TypeOK'
    <3>1. CoTypes /\ AgTypes /\ NetTypes /\ (co = "pause" => phase < Phases)
      BY TypeParts DEF ControlInv, Books
    <3>2. CoTypes'
      BY <3>1, CoTypeStep
    <3>3. AgTypes'
      BY <3>1, AgTypeStep
    <3>4. NetTypes'
      BY <3>1, <3>2, <3>3, NetTypeStep
    <3> QED BY <3>2, <3>3, <3>4
        DEF TypeOK, CoTypes, AgTypes, NetTypes, DownMsg, UpMsg
  <2>2. ASSUME NEW a \in Agents PROVE Conversation(a)'
    <3>1. CASE UNCHANGED vars
      <4>1. Untouched(a)
        BY <3>1 DEF Untouched, vars, coVars, agVars, netVars
      <4> QED BY <4>1, UntouchedKeeps DEF ControlInv
    <3>2. CASE Next
      BY <3>1, <3>2, AgentStepKeeps, TaskStepKeeps, CoordinatorStepKeeps, FaultKeeps
      DEF Next, Over
    <3> QED BY <3>1, <3>2
  <2>3. Books'
    BY BooksStep
  <2> QED BY <2>1, <2>2, <2>3 DEF ControlInv
<1> QED BY <1>1, <1>2, PTL DEF Spec

\* Nothing runs before the first start or after an end that says so, and an
\* agent on a held connection runs only the phase being followed.
THEOREM PhasesNeverOverlap == Spec => []PhasesSeparated
<1>1. ControlInv => PhasesSeparated
  BY DEF ControlInv, TypeOK, Conversation, PhasesSeparated, NothingRunsEarly,
         RunsCurrentPhase, Unstarted, Running, Away, SamePhase, Held, CoOver, CoStates,
         Answers, WhileOpening, WhileBarrier, WhileFollowing, WhilePause
<1> QED BY <1>1, ControlInvariant, PTL

\* Neither side ever reads a message it does not expect, and every answer is
\* about the phase that was asked.
THEOREM MessagesAlwaysExpected == Spec => []MessagesExpected
<1>1. ControlInv => MessagesExpected
  <2> SUFFICES ASSUME ControlInv, NEW a \in Agents
               PROVE /\ toAg[a] # <<>> =>
                          /\ ag[a] = "wait" => Head(toAg[a]).kind \in {"Prepare", "Stop"}
                          /\ ag[a] = "ready" => Head(toAg[a]).kind \in {"Start", "Stop"}
                     /\ toCo[a] # <<>> /\ answer[a] = "none" =>
                          /\ Head(toCo[a]).phase = phase
                          /\ co = "barrier" => Head(toCo[a]).kind \in {"Ready", "Error"}
                          /\ co = "following" => Head(toCo[a]).kind \in {"Result", "Error"}
    BY DEF MessagesExpected
  <2>1. /\ toAg[a] # <<>> => Head(toAg[a]) = toAg[a][1]
        /\ toCo[a] # <<>> => Head(toCo[a]) = toCo[a][1]
    BY ReadFacts, TypeParts DEF ControlInv, NetTypes
  <2> QED BY <2>1 DEF ControlInv, Conversation, Words, SamePhase, WhileBarrier,
                      WhileFollowing, One, Two
<1> QED BY <1>1, ControlInvariant, PTL

\* An agent missing from a part of the report is named among the lost.
THEOREM NoUnexplainedGap == Spec => []MissingAgentsAreLost
<1>1. ControlInv => MissingAgentsAreLost
  BY DEF ControlInv, Books, MissingAgentsAreLost
<1> QED BY <1>1, ControlInvariant, PTL

----------------------------------------------------------------------------
(* The refinement of CoordinatedRun.                                       *)

\* What the abstract run sees of a state: the values of the mapping.
LEMMA MappingFacts ==
  /\ co \in CoOver => Members = {} /\ Stage = "over"
  /\ co = "following" => /\ Members = {a \in Agents : answer[a] # "out"}
                         /\ Stage = "running"
  /\ co \in {"opening", "barrier", "pause"} => Stage = "gathering"
  /\ co \in {"opening", "barrier"} /\ phase = 1 => Members = Agents
  /\ co = "barrier" /\ phase # 1 => Members = Linked
  /\ co = "pause" => Members = Linked
BY DEF Members, Stage, CoOver

\* The same of the next state.
LEMMA MappingFactsNext ==
  /\ co' \in CoOver => Members' = {} /\ Stage' = "over"
  /\ co' = "following" => /\ Members' = {a \in Agents : answer'[a] # "out"}
                          /\ Stage' = "running"
  /\ co' \in {"opening", "barrier", "pause"} => Stage' = "gathering"
  /\ co' \in {"opening", "barrier"} /\ phase' = 1 => Members' = Agents
  /\ co' = "barrier" /\ phase' # 1 => Members' = Linked'
  /\ co' = "pause" => Members' = Linked'
BY DEF Members, Stage, CoOver

\* Every step of the control plane is a step of the abstract run or none.
LEMMA PromiseStep ==
  ASSUME ControlInv, [Next]_vars
  PROVE  [Promise!GroupNext]_(Promise!groupVars)
<1>1. /\ phase \in 1..Phases /\ Phases \in Nat /\ co \in CoStates
      /\ answer \in [Agents -> Answers] /\ link \in [Agents -> BOOLEAN]
      /\ runs \in Seq(SUBSET Agents) /\ Agents # {}
      /\ Books
      /\ \A a \in Agents : WhileOpening(a) /\ WhileBarrier(a) /\ WhileFollowing(a)
  BY TypeParts, ControlAssumption DEF ControlInv, CoTypes, Conversation
<1> USE MappingFacts, MappingFactsNext DEF Promise!groupVars
<1>2. ASSUME UNCHANGED <<Members, Stage, runs>>
      PROVE  [Promise!GroupNext]_(Promise!groupVars)
  BY <1>2
<1>3. CASE UNCHANGED <<co, phase, link, answer, runs>>
  BY <1>3, <1>2 DEF Members, Stage, Linked
<1>4. ASSUME NEW b \in Agents, CoStepFor(b)
      PROVE  UNCHANGED <<Members, Stage, runs>>
  <2>1. CASE Connect(b) \/ ConnectFails(b)
    BY <1>1, <2>1 DEF Connect, ConnectFails, Books
  <2>2. CASE PrepareAnswered(b) \/ PrepareFails(b)
    BY <2>2 DEF PrepareAnswered, PrepareFails, Members, Stage, Linked
  <2>3. CASE FollowReads(b) \/ FollowFails(b) \/ FollowStops(b)
    <3>1. UNCHANGED <<co, runs>> /\ co = "following"
      BY <2>3 DEF FollowReads, FollowFails, FollowStops
    <3>2. \A a \in Agents : answer[a] = "out" <=> answer'[a] = "out"
      BY <1>1, <2>3 DEF FollowReads, FollowFails, FollowStops
    <3> QED BY <3>1, <3>2
  <2> QED BY <1>4, <2>1, <2>2, <2>3 DEF CoStepFor
<1>5. CASE Opened
  BY <1>1, <1>2, <1>5 DEF Opened, SendPrepare, Books
<1>6. CASE NextPhase
  <2>1. co = "pause" /\ co' = "barrier" /\ phase' # 1 /\ runs' = runs
    BY <1>1, <1>6 DEF NextPhase, SendPrepare
  <2>2. Linked' = Linked
    BY <1>6 DEF NextPhase, Linked
  <2> QED BY <1>2, <2>1, <2>2
<1>7. CASE StartPhase
  <2>1. /\ Stage = "gathering" /\ Stage' = "running" /\ runs' = runs
        /\ Members' = Yes /\ Yes # {}
    BY <1>7 DEF StartPhase, Yes
  <2>2. Len(runs) < Phases
    BY <1>1, <1>7 DEF StartPhase, Books
  <2>3. Yes \in SUBSET Members
    BY <1>1, <1>7 DEF StartPhase, Yes, Linked, WhileBarrier
  <2>4. runs = <<>> => Yes = Agents
    <3>1. runs = <<>> => phase = 1
      BY <1>1, <1>7 DEF StartPhase, Books
    <3> QED BY <1>1, <1>7, <3>1
        DEF StartPhase, Yes, No, AllAnswered, WhileBarrier, Answers
  <2>5. Promise!Begin
    BY <2>1, <2>2, <2>3, <2>4 DEF Promise!Begin
  <2> QED BY <2>5 DEF Promise!GroupNext
<1>8. CASE PhaseOver
  <2>1. Stage = "running" /\ Yes \in SUBSET Members
    BY <1>8 DEF PhaseOver, Yes
  <2>2. runs' = IF Yes = {} THEN runs ELSE Append(runs, Yes)
    BY <1>8 DEF PhaseOver
  <2>3. \/ Stage' = "gathering" /\ Members' = Yes
        \/ Stage' = "over" /\ Members' = {}
    <3>1. CASE co' = "pause"
      BY <1>8, <3>1 DEF PhaseOver, EndWith, Yes, Linked
    <3>2. CASE co' \in {"allLost", "reported"}
      BY <3>2 DEF CoOver
    <3> QED BY <1>8, <3>1, <3>2 DEF PhaseOver, EndWith
  <2>4. Promise!Finish
    BY <2>1, <2>2, <2>3 DEF Promise!Finish
  <2> QED BY <2>4 DEF Promise!GroupNext
<1>9. CASE co \in {"opening", "barrier", "pause"} /\ co' \in CoOver /\ runs' = runs
  BY <1>9 DEF Promise!GroupNext, Promise!Conclude
<1>10. CASE co = "following" /\ co' \in CoOver /\ runs' = runs
  BY <1>10 DEF Promise!GroupNext, Promise!Die
<1>11. CASE OpenFails \/ BarrierFails \/ BarrierCancelled \/ BarrierLosesAll \/ PauseCancelled
  BY <1>9, <1>11 DEF OpenFails, BarrierFails, BarrierCancelled, BarrierLosesAll,
                     PauseCancelled, EndWith, CoOver
<1>12. CASE CoordinatorDies \/ CoordinatorVanishes
  BY <1>1, <1>9, <1>10, <1>12
  DEF CoordinatorDies, CoordinatorVanishes, EndWith, CoOver, CoStates
<1>13. ASSUME NEW b \in Agents, AgStep(b) \/ AgentDies(b) \/ AgentHangs(b) \/ LinkBreaks(b)
       PROVE  UNCHANGED <<co, phase, link, answer, runs>>
  BY <1>13 DEF AgStep, AgentPrepares, AgentStarts, AgentStopped, AgentCancels,
               AgentGivesUp, AgentAbandoned, AgentFinishes, AgentGone, AgentDies,
               AgentHangs, LinkBreaks, coVars
<1>14. Interrupt => UNCHANGED <<co, phase, link, answer, runs>>
  BY DEF Interrupt
<1>15. UNCHANGED vars => UNCHANGED <<co, phase, link, answer, runs>>
  BY DEF vars, coVars
<1> QED BY <1>2, <1>3, <1>4, <1>5, <1>6, <1>7, <1>8, <1>11, <1>12, <1>13, <1>14, <1>15
        DEF Next, CoStep, Fault, Over

\* The control plane, with its messages, losses, crashes and timeouts,
\* implements the run of docs/distributed.md.
THEOREM PromiseKept == Spec => KeepsPromise
<1>1. Init => Promise!GroupInit
  BY DEF Init, Promise!GroupInit, Members, Stage, CoOver
<1>2. ControlInv /\ [Next]_vars => [Promise!GroupNext]_(Promise!groupVars)
  BY PromiseStep
<1> QED BY <1>1, <1>2, ControlInvariant, PTL DEF Spec, KeepsPromise, Promise!GroupSpec
============================================================================
