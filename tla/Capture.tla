------------------------------- MODULE Capture -------------------------------
(***************************************************************************)
(* --capture (src/capture.rs): the sessions of a process offer a record of *)
(* every frame to a bounded queue, without ever waiting, and one thread    *)
(* empties it.  On a single machine that thread writes the capture file.   *)
(* On an agent it forwards batches to the control task, which sends them   *)
(* to the coordinator (src/distributed/agent.rs), and the coordinator's    *)
(* writer merges the records of all agents into one file.  What a record   *)
(* holds is left out.                                                      *)
(***************************************************************************)
EXTENDS Naturals, Sequences, FiniteSets, FiniteSetsExt, SequencesExt

CONSTANTS
  CapSessions,      \* sessions that record
  CapHosts,         \* the processes they may run in: agents, or one machine
  CapHomes,         \* the assignments of sessions to processes
  CapLimit,         \* --capture-limit; 0: none
  QueueCapacity,    \* records the queue of a process holds
  ForwardBatch,     \* FORWARD_BATCH
  BatchCapacity,    \* CAPTURE_BATCHES, and the coordinator's queue
  FrameBound        \* bound: records of all sessions

ASSUME CaptureAssumption ==
  /\ IsFiniteSet(CapSessions) /\ IsFiniteSet(CapHosts)
  /\ CapHomes \subseteq [CapSessions -> CapHosts]
  /\ CapLimit \in Nat
  /\ {QueueCapacity, ForwardBatch, BatchCapacity, FrameBound} \subseteq Nat \ {0}

VARIABLES
  capHome,      \* [s |-> the process of session s]
  capMerged,    \* the processes are agents of a coordinator
  capSession,   \* [s |-> [at, made, dropped]]: CaptureStream
  capShared,    \* [h |-> [claimed, dropped]]: Shared
  capQueue,     \* [h |-> its queue of "record" and "finish"]
  capThread,    \* [h |-> [at, batch, written, lost, failed]]: writer or forwarder
  capTask,      \* [h |-> the agent's control task: "run", "finish", "rest", "over"]
  capBatches,   \* [h |-> sizes of the batches between forwarder and task]
  capLink,      \* [h |-> messages to the coordinator: a batch's size, or Result]
  capWriter     \* the coordinator: [queue, ended, cut, written, lost, over, failed, dropped]

captureVars == <<capHome, capMerged, capSession, capShared, capQueue, capThread,
                 capTask, capBatches, capLink, capWriter>>

Limited == CapLimit # 0
HomeHosts == {capHome[s] : s \in CapSessions}
FramesMade == MapThenSumSet(LAMBDA s : capSession[s].made, CapSessions)

\* The message that ends an agent's run; a batch is never empty.
Result == 0

CaptureInit ==
  /\ capMerged \in BOOLEAN
  /\ capHome \in CapHomes
  /\ ~capMerged => Cardinality(HomeHosts) = 1
  /\ capSession = [s \in CapSessions |-> [at |-> "new", made |-> 0, dropped |-> 0]]
  /\ capShared = [h \in CapHosts |-> [claimed |-> 0, dropped |-> 0]]
  /\ capQueue = [h \in CapHosts |-> <<>>]
  /\ capThread = [h \in CapHosts |->
       [at |-> "start", batch |-> 0, written |-> 0, lost |-> 0, failed |-> FALSE]]
  /\ capTask = [h \in CapHosts |-> "run"]
  /\ capBatches = [h \in CapHosts |-> <<>>]
  /\ capLink = [h \in CapHosts |-> <<>>]
  /\ capWriter = [queue |-> <<>>, ended |-> {}, cut |-> {}, written |-> 0, lost |-> 0, over |-> 0,
                  failed |-> FALSE, dropped |-> 0]

----------------------------------------------------------------------------
(* Sessions: CaptureHandle::record, one step per access to shared state.   *)

Drops(s) ==
  capSession' = [capSession EXCEPT ![s] =
    [at |-> "idle", made |-> @.made, dropped |-> @.dropped + 1]]
Moves(s, label) == capSession' = [capSession EXCEPT ![s].at = label]

\* A new connection's open event or an observed frame; over the limit a load
\* of the counter is enough.
RecordBegins(s) ==
  /\ capSession[s].at \in {"new", "idle"}
  /\ FramesMade < FrameBound
  /\ capSession' = [capSession EXCEPT ![s] =
       LET full == Limited /\ capShared[capHome[s]].claimed >= CapLimit
       IN [at |-> IF full THEN "idle" ELSE IF Limited THEN "claim" ELSE "offer",
           made |-> @.made + 1,
           dropped |-> @.dropped + IF full THEN 1 ELSE 0]]
  /\ UNCHANGED <<capHome, capMerged, capShared, capQueue, capThread, capTask,
                 capBatches, capLink, capWriter>>

\* fetch_add: racing sessions may all find the counter below the limit.
RecordClaims(s) ==
  LET h == capHome[s]
  IN /\ capSession[s].at = "claim"
     /\ capShared' = [capShared EXCEPT ![h].claimed = @ + 1]
     /\ IF capShared[h].claimed >= CapLimit THEN Drops(s) ELSE Moves(s, "offer")
     /\ UNCHANGED <<capHome, capMerged, capQueue, capThread, capTask, capBatches,
                    capLink, capWriter>>

RecordQueued(s) ==
  LET h == capHome[s]
  IN /\ capSession[s].at = "offer"
     /\ Len(capQueue[h]) < QueueCapacity
     /\ capQueue' = [capQueue EXCEPT ![h] = Append(@, "record")]
     /\ Moves(s, "idle")
     /\ UNCHANGED <<capHome, capMerged, capShared, capThread, capTask, capBatches,
                    capLink, capWriter>>

\* Mutant: a record that finds the queue full is not counted.
RecordRefusedSilently(s) ==
  LET h == capHome[s]
  IN /\ capSession[s].at = "offer"
     /\ Len(capQueue[h]) >= QueueCapacity
     /\ capShared' = [capShared EXCEPT ![h].claimed = IF Limited THEN @ - 1 ELSE @]
     /\ Moves(s, "idle")
     /\ UNCHANGED <<capHome, capMerged, capQueue, capThread, capTask, capBatches,
                    capLink, capWriter>>

\* try_send finds the queue full: the claim is given back.
RecordRefused(s) ==
  LET h == capHome[s]
  IN /\ capSession[s].at = "offer"
     /\ Len(capQueue[h]) >= QueueCapacity
     /\ capShared' = [capShared EXCEPT ![h].claimed = IF Limited THEN @ - 1 ELSE @]
     /\ Drops(s)
     /\ UNCHANGED <<capHome, capMerged, capQueue, capThread, capTask, capBatches,
                    capLink, capWriter>>

\* Drop of the CaptureStream: the session's count joins the shared one.
StreamDropped(s) ==
  /\ capSession[s].at \in {"new", "idle"}
  /\ Moves(s, "closed")
  /\ capShared' = [capShared EXCEPT ![capHome[s]].dropped = @ + capSession[s].dropped]
  /\ UNCHANGED <<capHome, capMerged, capQueue, capThread, capTask, capBatches,
                 capLink, capWriter>>

\* Every worker has stopped: Finish is queued as soon as there is room.
SessionsOver(h) == \A s \in CapSessions : capHome[s] = h => capSession[s].at = "closed"

QueueFinish(h) ==
  /\ h \in HomeHosts
  /\ capTask[h] = "run"
  /\ SessionsOver(h)
  /\ capTask' = [capTask EXCEPT ![h] = "finish"]
  /\ UNCHANGED <<capHome, capMerged, capSession, capShared, capQueue, capThread,
                 capBatches, capLink, capWriter>>

FinishQueued(h) ==
  /\ capTask[h] = "finish"
  /\ Len(capQueue[h]) < QueueCapacity
  /\ capQueue' = [capQueue EXCEPT ![h] = Append(@, "finish")]
  /\ capTask' = [capTask EXCEPT ![h] = "rest"]
  /\ UNCHANGED <<capHome, capMerged, capSession, capShared, capThread, capBatches,
                 capLink, capWriter>>

----------------------------------------------------------------------------
(* The thread of a process: write_records, or forward_records on an agent. *)

\* The header line is written first; nothing is written after an error.
WriterHeader(h) ==
  /\ ~capMerged /\ h \in HomeHosts
  /\ capThread[h].at = "start"
  /\ \E failed \in BOOLEAN :
       capThread' = [capThread EXCEPT ![h] = [@ EXCEPT !.at = "run", !.failed = failed]]
  /\ UNCHANGED <<capHome, capMerged, capSession, capShared, capQueue, capTask,
                 capBatches, capLink, capWriter>>

\* What one more record does to an outcome: written, or lost by this or an
\* earlier error.
Written(out) ==
  {[out EXCEPT !.lost = @ + 1, !.failed = TRUE]}
    \cup (IF out.failed THEN {} ELSE {[out EXCEPT !.written = @ + 1]})

WriterRecord(h) ==
  /\ ~capMerged
  /\ capThread[h].at = "run"
  /\ capQueue[h] # <<>>
  /\ capQueue' = [capQueue EXCEPT ![h] = Tail(@)]
  /\ IF Head(capQueue[h]) = "finish"
     THEN capThread' = [capThread EXCEPT ![h].at = "done"]
     ELSE \E out \in Written(capThread[h]) : capThread' = [capThread EXCEPT ![h] = out]
  /\ UNCHANGED <<capHome, capMerged, capSession, capShared, capTask, capBatches,
                 capLink, capWriter>>

\* RunningCapture::finish returns the summary.
SummaryMade(h) ==
  /\ ~capMerged
  /\ capTask[h] = "rest"
  /\ capThread[h].at = "done"
  /\ capTask' = [capTask EXCEPT ![h] = "over"]
  /\ UNCHANGED <<capHome, capMerged, capSession, capShared, capQueue, capThread,
                 capBatches, capLink, capWriter>>

\* A record joins the batch; a full batch waits for room in the channel.
ForwardRecord(h) ==
  /\ capMerged
  /\ capThread[h].at = "start"
  /\ capThread[h].batch < ForwardBatch
  /\ capQueue[h] # <<>>
  /\ capQueue' = [capQueue EXCEPT ![h] = Tail(@)]
  /\ capThread' = [capThread EXCEPT ![h] =
       IF Head(capQueue[h]) = "finish" THEN [capThread[h] EXCEPT !.at = "flush"]
                                       ELSE [capThread[h] EXCEPT !.batch = @ + 1]]
  /\ UNCHANGED <<capHome, capMerged, capSession, capShared, capTask, capBatches,
                 capLink, capWriter>>

\* blocking_send of a full batch, of what there is when the queue is found
\* empty, and of the rest at the end.  A task that is gone loses the batch.
ForwardBatchSent(h) ==
  /\ capMerged
  /\ capThread[h].batch > 0
  /\ \/ capThread[h].batch = ForwardBatch
     \/ capQueue[h] = <<>>
     \/ capThread[h].at = "flush"
  /\ \/ /\ capTask[h] # "over" /\ Len(capBatches[h]) < BatchCapacity
        /\ capBatches' = [capBatches EXCEPT ![h] = Append(@, capThread[h].batch)]
        /\ capThread' = [capThread EXCEPT ![h].batch = 0]
     \/ /\ capTask[h] = "over"
        /\ capThread' = [capThread EXCEPT ![h] =
             [capThread[h] EXCEPT !.lost = @ + capThread[h].batch, !.batch = 0]]
        /\ UNCHANGED capBatches
  /\ UNCHANGED <<capHome, capMerged, capSession, capShared, capQueue, capTask, capLink,
                 capWriter>>

ForwardOver(h) ==
  /\ capThread[h].at = "flush"
  /\ capThread[h].batch = 0
  /\ capThread' = [capThread EXCEPT ![h].at = "done"]
  /\ UNCHANGED <<capHome, capMerged, capSession, capShared, capQueue, capTask,
                 capBatches, capLink, capWriter>>

----------------------------------------------------------------------------
(* The agent's control task and the coordinator.                           *)

\* Mutant: the agent stops reading batches once its run is over.
TaskForwardsRunning(h) ==
  /\ capTask[h] = "run"
  /\ capBatches[h] # <<>>
  /\ capBatches' = [capBatches EXCEPT ![h] = Tail(@)]
  /\ capLink' = [capLink EXCEPT ![h] = Append(@, Head(capBatches[h]))]
  /\ UNCHANGED <<capHome, capMerged, capSession, capShared, capQueue, capThread,
                 capTask, capWriter>>

\* Batches are sent while the phase runs and while finish() is awaited.
TaskForwards(h) ==
  /\ capTask[h] \in {"run", "finish", "rest"}
  /\ capBatches[h] # <<>>
  /\ capBatches' = [capBatches EXCEPT ![h] = Tail(@)]
  /\ capLink' = [capLink EXCEPT ![h] = Append(@, Head(capBatches[h]))]
  /\ UNCHANGED <<capHome, capMerged, capSession, capShared, capQueue, capThread,
                 capTask, capWriter>>

\* finish() has returned and the channel is empty: the result names the drops.
TaskResult(h) ==
  /\ capMerged
  /\ capTask[h] = "rest"
  /\ capThread[h].at = "done"
  /\ capBatches[h] = <<>>
  /\ capTask' = [capTask EXCEPT ![h] = "over"]
  /\ capLink' = [capLink EXCEPT ![h] = Append(@, Result)]
  /\ UNCHANGED <<capHome, capMerged, capSession, capShared, capQueue, capThread,
                 capBatches, capWriter>>

\* The connection is lost: the agent notices and ends its run, the
\* coordinator gives the agent up.
AgentCut(h) ==
  /\ capMerged /\ h \in HomeHosts
  /\ h \notin capWriter.ended
  /\ capLink' = [capLink EXCEPT ![h] = <<>>]
  /\ capTask' = [capTask EXCEPT ![h] = "over"]
  /\ capSession' = [s \in CapSessions |->
       IF capHome[s] = h THEN [capSession[s] EXCEPT !.at = "closed"] ELSE capSession[s]]
  /\ capWriter' = [capWriter EXCEPT !.ended = @ \cup {h}, !.cut = @ \cup {h}]
  /\ UNCHANGED <<capHome, capMerged, capShared, capQueue, capThread, capBatches>>

\* follow_agent: a batch waits for room in the writer's queue; the result
\* ends the agent's task.
CoordinatorTakes(h) ==
  /\ capLink[h] # <<>>
  /\ LET msg == Head(capLink[h])
     IN IF msg = Result
        THEN capWriter' = [capWriter EXCEPT !.ended = @ \cup {h},
               !.dropped = @ + capShared[h].dropped + capThread[h].lost]
        ELSE /\ Len(capWriter.queue) < BatchCapacity
             /\ capWriter' = [capWriter EXCEPT !.queue = Append(@, msg)]
  /\ capLink' = [capLink EXCEPT ![h] = Tail(@)]
  /\ UNCHANGED <<capHome, capMerged, capSession, capShared, capQueue, capThread,
                 capTask, capBatches>>

\* The merged writer takes one record: past the limit it is only counted.
MergedRecord ==
  /\ capWriter.queue # <<>>
  /\ LET q == capWriter.queue
         w == [capWriter EXCEPT !.queue = IF Head(q) = 1 THEN Tail(q) ELSE [q EXCEPT ![1] = @ - 1]]
     IN IF Limited /\ w.written + w.lost >= CapLimit
        THEN capWriter' = [w EXCEPT !.over = @ + 1]
        ELSE \E out \in Written(w) : capWriter' = out
  /\ UNCHANGED <<capHome, capMerged, capSession, capShared, capQueue, capThread,
                 capTask, capBatches, capLink>>

CaptureSessions ==
  \E s \in CapSessions : RecordBegins(s) \/ RecordClaims(s) \/ RecordQueued(s)
                         \/ RecordRefused(s) \/ StreamDropped(s)
CaptureThreads ==
  \E h \in CapHosts : WriterHeader(h) \/ WriterRecord(h) \/ ForwardRecord(h)
                      \/ ForwardBatchSent(h) \/ ForwardOver(h)
CaptureTasks ==
  \E h \in CapHosts : QueueFinish(h) \/ FinishQueued(h) \/ SummaryMade(h)
                      \/ TaskForwards(h) \/ TaskResult(h) \/ CoordinatorTakes(h)

\* The summary is complete: finish() has returned, on the coordinator after
\* every agent's task has ended.
CaptureOver ==
  IF capMerged THEN capWriter.ended = HomeHosts /\ capWriter.queue = <<>>
               ELSE \A h \in HomeHosts : capTask[h] = "over"

CaptureTerminated == CaptureOver /\ UNCHANGED captureVars

CaptureNext ==
  \/ CaptureSessions \/ CaptureThreads \/ CaptureTasks \/ MergedRecord
  \/ (\E h \in CapHosts : AgentCut(h))
  \/ CaptureTerminated

----------------------------------------------------------------------------
\* CaptureSummary.
FramesWritten ==
  IF capMerged THEN capWriter.written
  ELSE MapThenSumSet(LAMBDA h : capThread[h].written, HomeHosts)
FramesDropped ==
  IF capMerged THEN capWriter.dropped + capWriter.lost + capWriter.over
  ELSE MapThenSumSet(LAMBDA h : capShared[h].dropped + capThread[h].lost, HomeHosts)

\* METHODOLOGY.md, section 11.1: the limit is exact whatever sessions and
\* agents race for it, and frames_written + frames_dropped is every record
\* the run produced, unless an agent was lost with its records.
CaptureExact ==
  /\ Limited => FramesWritten <= CapLimit
  /\ CaptureOver /\ capWriter.cut = {}
       => FramesWritten + FramesDropped
            = FramesMade

\* Once the sessions are over the summary is made: finish() blocks on a full
\* queue whose thread waits for room in the channel that the same control
\* task empties.
CaptureFinishes ==
  (\A h \in HomeHosts : SessionsOver(h)) ~> CaptureOver
============================================================================
