-------------------------------- MODULE Drive --------------------------------
(***************************************************************************)
(* The part of Runner::drive (src/runner.rs) common to every load model:   *)
(* the tasks that cancel the run's token (the duration timer, the watcher  *)
(* of the request limit, the signal listener), the wait for the token, and *)
(* the collection of the workers.  How workers are started is the subject  *)
(* of the modules that extend this one: Ramp, Stages and Arrivals.         *)
(***************************************************************************)
EXTENDS Worker

VARIABLE drv   \* where drive() is: "ramp", "wait", "join" or "done"; an arrival
               \* run also has "tail"

driveVars == <<workerVars, drv>>

Started == {w \in Workers : pc[w] # "idle"}

DriveInit == WorkerInit /\ drv = "ramp"

\* wait_until_done returns when the token fires; elapsed is taken here.
WaitUntilDone ==
  /\ drv = "wait"
  /\ runTok
  /\ drv' = "join"
  /\ UNCHANGED workerVars

\* Every handle is awaited and its metrics added to the totals.
JoinWorkers ==
  /\ drv = "join"
  /\ \A w \in Started : pc[w] = "done"
  /\ drv' = "done"
  /\ UNCHANGED workerVars

CancelRun ==
  /\ ~runTok
  /\ runTok' = TRUE
  /\ UNCHANGED <<claimed, stats, childTok, pc, connected, drv>>

\* The duration timer, Ctrl+C and SIGTERM cancel the token at any moment.
DurationOrSignal == drv # "done" /\ CancelRun

\* Mutant: the watcher waits for a claim beyond the limit.
RequestWatcherLate == drv # "done" /\ Capped /\ claimed > MaxRequests /\ CancelRun

\* The watcher task polls requests_exhausted every 5 ms.
RequestWatcher == drv # "done" /\ MaxRequestsReached /\ CancelRun

----------------------------------------------------------------------------
(* What drive() promises, whichever load model runs.                       *)

\* r puts every slot in exactly one class, and in the right one: established
\* if a handshake ever completed, failed if an attempt failed and none
\* completed, interrupted if the slot was cancelled during its first
\* attempt, not started if it has no worker and the load model wanted one.
ClassifiesSlots(r, unstarted) ==
  LET Never == {w \in Started : ~connected[w]}
      Failed == {w \in Never : stats.of[w].errors > 0}
  IN /\ r.established = Cardinality(Started \ Never)
     /\ r.failed = Cardinality(Failed)
     /\ r.interrupted = Cardinality(Never \ Failed)
     /\ r.notStarted = unstarted

\* Once the run is cancelled every worker stops and the report is made, even
\* with requests in flight, handshakes under way or reconnects pending.
CancelEndsRun == runTok ~> drv = "done"

\* Once the limit is claimed the run is cancelled, even when no worker
\* claims again because all of them wait for replies or reconnect.
LimitCancelsRun == MaxRequestsReached ~> runTok
============================================================================
