----------------------------- MODULE MCStageRun -----------------------------
(* TLC instance of StageRun: a profile that ramps up, down and up again.   *)
EXTENDS StageRun

\* 0, 2, 1, 2: two workers, the second ramped down, a third started.
UpDownUp == <<[duration |-> 1, target |-> 2], [duration |-> 1, target |-> 1],
              [duration |-> 1, target |-> 2]>>
============================================================================
