--------------------------- MODULE CoordinatedRun ---------------------------
(***************************************************************************)
(* What a distributed run promises its user, without messages or failures  *)
(* of single steps (docs/distributed.md, sections 6 and 8).  Phases run    *)
(* one after another on the agents that are still members.  The first      *)
(* starts on every agent or on none; a later one may leave members behind, *)
(* and who leaves never comes back.  The report holds, for every phase     *)
(* that some agent finished, the agents that finished it.                  *)
(***************************************************************************)
EXTENDS Naturals, Sequences

CONSTANTS Agents, Phases

VARIABLES
  members,   \* the agents still in the run
  stage,     \* "gathering", "running" or "over"
  report     \* a sequence: the agents that finished each phase

groupVars == <<members, stage, report>>

GroupInit == members = Agents /\ stage = "gathering" /\ report = <<>>

\* A phase starts on a set of members, all of them the first time.
Begin ==
  /\ stage = "gathering"
  /\ Len(report) < Phases
  /\ \E S \in SUBSET members :
       /\ S # {}
       /\ report = <<>> => S = Agents
       /\ members' = S
  /\ stage' = "running"
  /\ UNCHANGED report

\* It ends when every member has finished it or is given up; that may be
\* the end of the run.
Finish ==
  /\ stage = "running"
  /\ \E F \in SUBSET members :
       /\ report' = IF F = {} THEN report ELSE Append(report, F)
       /\ \/ stage' = "gathering" /\ members' = F
          \/ stage' = "over" /\ members' = {}

\* The run ends between phases.
Conclude ==
  /\ stage = "gathering"
  /\ stage' = "over" /\ members' = {}
  /\ UNCHANGED report

\* The coordinator dies in a phase, which is then in no report.
Die ==
  /\ stage = "running"
  /\ stage' = "over" /\ members' = {}
  /\ UNCHANGED report

GroupNext == Begin \/ Finish \/ Conclude \/ Die

GroupSpec == GroupInit /\ [][GroupNext]_groupVars
============================================================================
