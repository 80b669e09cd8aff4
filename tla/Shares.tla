------------------------------- MODULE Shares -------------------------------
(***************************************************************************)
(* Pure arithmetic of the load models: how a total is split between the    *)
(* agents of a distributed run (split and Share::of in                     *)
(* src/distributed/protocol.rs) and how many connections a staged run      *)
(* wants at a moment (Stage::target_at in src/config.rs).  The code's      *)
(* floating point interpolation is done here in exact fractions.           *)
(***************************************************************************)
EXTENDS Integers, Sequences

\* split(total, index, agents): the remainder goes to the first agents.
Split(total, index, agents) ==
  total \div agents + (IF index < total % agents THEN 1 ELSE 0)

\* f64::round of the fraction n / d, for n >= 0: halves away from zero.
Round(n, d) == (2 * n + d) \div (2 * d)

\* The end of stage k, and of all of them for k = Len(stages).
StageEnd(stages, k) ==
  LET end[i \in 0..k] == IF i = 0 THEN 0 ELSE end[i - 1] + stages[i].duration
  IN end[k]

\* Where a stage starts from: the previous target, 0 before the first.
StageFrom(stages, k) == IF k = 1 THEN 0 ELSE stages[k - 1].target

\* Stage::target_at: linear between the targets, the last target afterwards.
TargetAt(stages, elapsed) ==
  LET Later == {k \in 1..Len(stages) : elapsed < StageEnd(stages, k)}
      k == CHOOSE i \in Later : \A j \in Later : i <= j
      from == StageFrom(stages, k)
      d == stages[k].duration
      at == elapsed - StageEnd(stages, k - 1)
  IN IF Later = {} THEN StageFrom(stages, Len(stages) + 1)
     ELSE Round(from * d + (stages[k].target - from) * at, d)
============================================================================
