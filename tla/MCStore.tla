------------------------------ MODULE MCStore ------------------------------
EXTENDS Store

CONSTANTS w1, e1, e2, d1, d2, y1, y2

(* Two events of the workflow, one after the other. *)
EventWorkflows == [e \in Event |-> w1]
EventTimes == [e \in Event |-> IF e = e1 THEN 1 ELSE 2]

(* What an agent or an artifact holds, and when a record was created, play *)
(* no role of their own.                                                   *)
DataSymmetry == Permutations({d1, d2}) \cup Permutations({y1, y2})
=============================================================================
