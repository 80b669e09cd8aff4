------------------------------ MODULE StageRun ------------------------------
(***************************************************************************)
(* A staged run in stream mode: modules Worker, StreamLoop and Stages.     *)
(***************************************************************************)
EXTENDS StreamLoop, Stages

vars == stageVars

WorkerStep(w) ==
  (Lifecycle(w) \/ StreamSession(w)) /\ UNCHANGED <<drv, elapsed, open>>

Init == StagesInit

Next == StagesDrive \/ (\E w \in Workers : WorkerStep(w)) \/ StagesTerminated

Spec == Init /\ [][Next]_vars

\* A worker goes on whenever it can by itself; nothing is assumed of the
\* server.  That its select does not pass over a fired token for ever,
\* tokio's random choice of the ready branch, is given here by the bound on
\* the frames received.
FairSpec ==
  /\ Spec
  /\ StagesFairness
  /\ \A w \in Workers :
       WF_vars((Lifecycle(w) \/ StreamOwn(w)) /\ UNCHANGED <<drv, elapsed, open>>)

\* The books of a staged run: while workers are started, ramped down during a
\* handshake and stopped by the limit, the gauge is the number of open
\* sessions, no more is sent than --requests, and the report classifies every
\* worker started (run_stages, Runner::drive).
StageBooks == GaugeIsOpenSessions /\ SendsWithinLimit /\ StagesReportedExactly
============================================================================
