---- MODULE MCCostGovernor ----
(* Small instances of CostGovernor for TLC. *)
EXTENDS CostGovernor

CONSTANT k1

OneCall == {k1}
LiftOnly == {Unlimited}
====
