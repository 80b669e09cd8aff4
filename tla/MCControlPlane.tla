--------------------------- MODULE MCControlPlane ---------------------------
(* TLC instance of ControlPlane: two agents, two phases.                   *)
EXTENDS ControlPlane
============================================================================
