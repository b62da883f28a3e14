--------------------------- MODULE MCTopoPlanner ---------------------------
(***************************************************************************)
(* The planner, and what is beside it, on every small graph.               *)
(***************************************************************************)
EXTENDS PlannerAgreement

CONSTANT MaxDeps   \* longest dependency list

(* Dependency lists of bounded length, repetitions allowed. *)
MCDepLists == UNION {[1..n -> Name] : n \in 0..MaxDeps}
============================================================================
