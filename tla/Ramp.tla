-------------------------------- MODULE Ramp --------------------------------
(***************************************************************************)
(* A run of constant load: the spawn loop of Runner::drive (src/runner.rs) *)
(* starts one worker per slot, all sharing the run's token.  A worker's id *)
(* is only a label, so the slots are started in any order.                 *)
(***************************************************************************)
EXTENDS Drive

\* The spawn loop checks the token before every spawn; the delay of
\* --ramp-rate between two spawns races it too.
Spawn(w) ==
  /\ drv = "ramp"
  /\ ~runTok
  /\ pc[w] = "idle"
  /\ Goto(w, "build")
  /\ UNCHANGED <<claimed, stats, runTok, childTok, connected, drv>>

RampOver ==
  /\ drv = "ramp"
  /\ runTok \/ Started = Workers
  /\ drv' = "wait"
  /\ UNCHANGED workerVars

DriveStep == RampOver \/ WaitUntilDone \/ JoinWorkers

RampDrive == (\E w \in Workers : Spawn(w)) \/ DriveStep
             \/ DurationOrSignal \/ RequestWatcher

\* The process is over.
Terminated == drv = "done" /\ UNCHANGED driveVars

\* drive() goes on whenever it can, the watcher runs every 5 ms; nothing is
\* assumed of the timer or of signals.
DriveFairness ==
  /\ WF_driveVars(\E w \in Workers : Spawn(w))
  /\ WF_driveVars(DriveStep)
  /\ WF_driveVars(RequestWatcher)

----------------------------------------------------------------------------
\* drive(): attempted is the number of slots, not_started the slots without
\* a worker.
Report ==
  WithNotStarted(Finish(Totals(Started), Cardinality(Workers)),
                 Cardinality(Workers \ Started))

\* The report of a ramp, complete or cut short, classifies every slot.
SlotsReportedExactly ==
  drv = "done" => ClassifiesSlots(Report, Cardinality(Workers \ Started))
============================================================================
