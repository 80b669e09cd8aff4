-------------------------------- MODULE Live --------------------------------
(***************************************************************************)
(* What the exporters and the terminal interface see of a distributed run  *)
(* while it lasts: agents send snapshots of their counters and of their    *)
(* last two intervals (run_phase and recent_intervals of                   *)
(* src/distributed/agent.rs), the coordinator keeps the latest of each     *)
(* agent, sums them on a tick (publish_live of coordinator.rs) and puts    *)
(* the latency of a completed interval into LiveIntervals (timeseries.rs). *)
(*                                                                         *)
(* Time is counted in intervals; agents start together.  The counters are  *)
(* one count of replies and the gauge of open connections, a histogram is  *)
(* the number of its samples, which reach the store as they are recorded.  *)
(***************************************************************************)
EXTENDS Integers, Sequences, FiniteSets, FiniteSetsExt, SequencesExt

CONSTANTS
  LiveAgents,     \* the agents
  LivePhases,     \* phases of the scenario
  LiveReplies,    \* bound: replies an agent gets
  LiveEnd,        \* bound: intervals a phase lasts
  LiveQueue,      \* bound: messages under way on a control connection
  ExportLag,      \* EXPORT_LAG
  HeldIntervals   \* the latest intervals the coordinator keeps of an agent

ASSUME LiveAssumption ==
  /\ IsFiniteSet(LiveAgents) /\ LiveAgents # {}
  /\ {LivePhases, LiveEnd, LiveQueue, HeldIntervals} \subseteq Nat \ {0}
  /\ {LiveReplies, ExportLag} \subseteq Nat

VARIABLES
  livePhase,     \* the phase that runs
  liveNow,       \* intervals since its start
  liveOpen,      \* the phase has not ended
  liveAgent,     \* [a |-> [state, count, base, store]], on the agent's side
  liveChan,      \* [a |-> messages under way to the coordinator]
  liveHeld,      \* [a |-> [sent, active, intervals]]: AgentLive
  liveResult,    \* [a |-> {} or its result with the time of its arrival]
  liveExport     \* [sent, active, latest]: LiveMetrics and RemotePhase::latest

liveVars == <<livePhase, liveNow, liveOpen, liveAgent, liveChan, liveHeld, liveResult,
              liveExport>>

Intervals == 0 .. LiveEnd
NoSamples == [i \in Intervals |-> 0]

\* The agent's registry lives for the whole test; a phase has a new store.
LiveInit ==
  /\ livePhase = 1 /\ liveNow = 0 /\ liveOpen = TRUE
  /\ liveAgent = [a \in LiveAgents |->
                    [state |-> "run", count |-> 0, base |-> 0, store |-> NoSamples]]
  /\ liveChan = [a \in LiveAgents |-> <<>>]
  /\ liveHeld = [a \in LiveAgents |-> [sent |-> 0, active |-> 0, intervals |-> {}]]
  /\ liveResult = [a \in LiveAgents |-> {}]
  /\ liveExport = [sent |-> 0, active |-> 0, latest |-> {}]

LiveClock ==
  /\ liveOpen /\ liveNow < LiveEnd
  /\ liveNow' = liveNow + 1
  /\ UNCHANGED <<livePhase, liveOpen, liveAgent, liveChan, liveHeld, liveResult, liveExport>>

----------------------------------------------------------------------------
\* A reply on agent a.
LiveReply(a) ==
  /\ liveOpen /\ liveAgent[a].state = "run"
  /\ liveAgent[a].count < LiveReplies
  /\ liveAgent' = [liveAgent EXCEPT ![a].count = @ + 1, ![a].store[liveNow] = @ + 1]
  /\ UNCHANGED <<livePhase, liveNow, liveOpen, liveChan, liveHeld, liveResult, liveExport>>

\* recent_intervals: the last two completed intervals that have samples.
RecentIntervals(a) ==
  {[index |-> i, samples |-> liveAgent[a].store[i]] :
     i \in {i \in Intervals : /\ liveNow - 2 <= i /\ i < liveNow
                              /\ liveAgent[a].store[i] > 0}}

SnapshotOf(a, active, intervals) ==
  [kind |-> "snapshot", sent |-> liveAgent[a].count, active |-> active,
   intervals |-> intervals]

\* The agent's ticker sends a snapshot.
SendSnapshot(a) ==
  /\ liveOpen /\ liveAgent[a].state = "run" /\ Len(liveChan[a]) < LiveQueue
  /\ liveChan' = [liveChan EXCEPT ![a] = Append(@, SnapshotOf(a, 1, RecentIntervals(a)))]
  /\ UNCHANGED <<livePhase, liveNow, liveOpen, liveAgent, liveHeld, liveResult, liveExport>>

\* The run is over: the final counters, then the result with every interval.
SendResult(a) ==
  /\ liveOpen /\ liveAgent[a].state = "run"
  /\ liveAgent' = [liveAgent EXCEPT ![a].state = "sent"]
  /\ liveChan' = [liveChan EXCEPT ![a] = @ \o
                    << SnapshotOf(a, 0, {}),
                       [kind |-> "result", buckets |-> liveAgent[a].store,
                        total |-> liveAgent[a].count - liveAgent[a].base] >>]
  /\ UNCHANGED <<livePhase, liveNow, liveOpen, liveHeld, liveResult, liveExport>>

----------------------------------------------------------------------------
\* Newer histograms replace those of the same index; the lowest indices go
\* when more than HeldIntervals are held.
KeepLatest(held, new) ==
  LET all == new \cup {h \in held : \A n \in new : n.index # h.index}
  IN {h \in all : Cardinality({o \in all : o.index > h.index}) < HeldIntervals}

\* follow_agent reads a snapshot, or the result, which ends the following.
FollowSnapshot(a) ==
  LET message == Head(liveChan[a])
  IN /\ liveOpen /\ liveChan[a] # <<>> /\ message.kind = "snapshot"
     /\ liveAgent[a].state # "lost"
     /\ liveChan' = [liveChan EXCEPT ![a] = Tail(@)]
     /\ liveHeld' = [liveHeld EXCEPT ![a] =
                       [sent |-> message.sent, active |-> message.active,
                        intervals |-> KeepLatest(@.intervals, message.intervals)]]
     /\ UNCHANGED <<livePhase, liveNow, liveOpen, liveAgent, liveResult, liveExport>>

FollowResult(a) ==
  LET message == Head(liveChan[a])
  IN /\ liveOpen /\ liveChan[a] # <<>> /\ message.kind = "result"
     /\ liveAgent[a].state # "lost"
     /\ liveChan' = [liveChan EXCEPT ![a] = Tail(@)]
     /\ liveResult' = [liveResult EXCEPT ![a] =
                         {[buckets |-> message.buckets, total |-> message.total,
                           at |-> liveNow]}]
     /\ UNCHANGED <<livePhase, liveNow, liveOpen, liveAgent, liveHeld, liveExport>>

\* The agent disconnects, errs or misses its deadline.
LoseAgent(a) ==
  /\ liveOpen /\ liveAgent[a].state # "lost" /\ liveResult[a] = {}
  /\ liveAgent' = [liveAgent EXCEPT ![a].state = "lost"]
  /\ UNCHANGED <<livePhase, liveNow, liveOpen, liveChan, liveHeld, liveResult, liveExport>>

\* timeseries::last_completed, as a set of at most one index.
LastCompleted(since) == {i \in Intervals : i = since - 1}

\* publish_live: the sums of the snapshots, and the latency of the interval
\* that ended ExportLag ago; none before the first has.
PublishedLive ==
  LET samplesAt(a, i) ==
        MapThenSumSet(LAMBDA h : h.samples, {h \in liveHeld[a].intervals : h.index = i})
      completed == {[phase |-> livePhase, index |-> i,
                     samples |-> MapThenSumSet(LAMBDA a : samplesAt(a, i), LiveAgents)] :
                      i \in LastCompleted(Max({0, liveNow - ExportLag}))}
  IN [sent   |-> MapThenSumSet(LAMBDA a : liveHeld[a].sent, LiveAgents),
      active |-> MapThenSumSet(LAMBDA a : liveHeld[a].active, LiveAgents),
      latest |-> IF completed = {} THEN liveExport.latest ELSE completed]

\* The coordinator's ticker.
PublishLive ==
  /\ liveOpen
  /\ liveExport' = PublishedLive
  /\ UNCHANGED <<livePhase, liveNow, liveOpen, liveAgent, liveChan, liveHeld, liveResult>>

Lost(a) == liveAgent[a].state = "lost"

\* final_latency: the last interval that ended before the last result came,
\* from the results.
FinalLatency ==
  LET finished == {a \in LiveAgents : liveResult[a] # {}}
      result(a) == CHOOSE r \in liveResult[a] : TRUE
      elapsed == Max({0} \cup {result(a).at : a \in finished})
  IN {[phase |-> livePhase, index |-> i,
       samples |-> MapThenSumSet(LAMBDA a : result(a).buckets[i], finished)] :
        i \in LastCompleted(elapsed)}

\* Every agent has answered or is lost: the last publish_live, then the lost
\* agents' connections are struck off their snapshots, the final latency is
\* published and the phase marked as ended.
EndPhase ==
  /\ liveOpen /\ \A a \in LiveAgents : Lost(a) \/ liveResult[a] # {}
  /\ liveOpen' = FALSE
  /\ liveExport' = [PublishedLive EXCEPT !.latest =
                      IF FinalLatency = {} THEN @ ELSE FinalLatency]
  /\ liveHeld' = [a \in LiveAgents |->
                    IF Lost(a) THEN [liveHeld[a] EXCEPT !.active = 0] ELSE liveHeld[a]]
  /\ UNCHANGED <<livePhase, liveNow, liveAgent, liveChan, liveResult>>

\* The next phase starts on the agents that are left: begin_remote_phase
\* forgets the interval shown, and `held` is what becomes of AgentLive.
BeginPhase(held) ==
  /\ ~liveOpen /\ livePhase < LivePhases /\ \E a \in LiveAgents : ~Lost(a)
  /\ livePhase' = livePhase + 1 /\ liveNow' = 0 /\ liveOpen' = TRUE
  /\ liveAgent' = [a \in LiveAgents |->
                     IF Lost(a) THEN liveAgent[a]
                     ELSE [state |-> "run", count |-> liveAgent[a].count,
                           base |-> liveAgent[a].count, store |-> NoSamples]]
  /\ liveChan' = [a \in LiveAgents |-> <<>>]
  /\ liveHeld' = held
  /\ liveResult' = [a \in LiveAgents |-> {}]
  /\ liveExport' = [liveExport EXCEPT !.latest = {}]

Cleared == [a \in LiveAgents |-> [liveHeld[a] EXCEPT !.intervals = {}]]
\* Mutant: the intervals of the phase before stay.
NextPhaseStale == BeginPhase(liveHeld)
NextPhase == BeginPhase(Cleared)

LiveEnded ==
  /\ ~liveOpen /\ (livePhase = LivePhases \/ \A a \in LiveAgents : Lost(a))
  /\ UNCHANGED liveVars

LiveNext ==
  \/ LiveClock \/ PublishLive \/ EndPhase \/ NextPhase \/ LiveEnded
  \/ \E a \in LiveAgents :
       LiveReply(a) \/ SendSnapshot(a) \/ SendResult(a) \/ FollowSnapshot(a)
         \/ FollowResult(a) \/ LoseAgent(a)

----------------------------------------------------------------------------
\* The latency shown is that of the phase in progress and counts no sample the
\* agents did not record in that very interval of it; and once a phase has
\* ended without losing an agent, the counters shown are those of the results
\* and no connection is shown as open (publish_live, begin_remote_phase and
\* final_latency against the agents' snapshots).
LiveShowsOwnPhase ==
  /\ \A l \in liveExport.latest :
       /\ l.phase = livePhase
       /\ l.samples <= MapThenSumSet(LAMBDA a : liveAgent[a].store[l.index], LiveAgents)
  /\ (~liveOpen /\ \A a \in LiveAgents : ~Lost(a)) =>
       /\ liveExport.sent = MapThenSumSet(LAMBDA a : liveAgent[a].count, LiveAgents)
       /\ liveExport.active = 0

\* What exporters show of a distributed run stays true of the phase in
\* progress, and no step makes the counter they show fall, across phases and
\* lost agents (publish_live stores the sum of each agent's latest snapshot).
LivePictureTrue ==
  [][LiveShowsOwnPhase' /\ liveExport'.sent >= liveExport.sent]_liveVars
=============================================================================
