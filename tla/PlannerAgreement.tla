-------------------------- MODULE PlannerAgreement --------------------------
(***************************************************************************)
(* The planner beside two other pieces of the core that were written apart *)
(* from it: the compiler the command line puts before it                   *)
(* (cmd/orch/main.go:62) and ReadyTasks.                                   *)
(***************************************************************************)
EXTENDS TopoPlanner, SequencesExt

Compiler == INSTANCE DSL

(* The workflow as a definition: its tasks in some order. *)
Definition(order) == [i \in DOMAIN order |-> [id |-> order[i], dependencies |-> deps[order[i]]]]

(* The compiler and the validator of internal/dag are two searches for the *)
(* same defects, and they agree on every graph, whatever the order the     *)
(* tasks are written in: what compiles is never refused by the executor,   *)
(* what is refused would not have run, and the compiled workflow has the   *)
(* dependencies of the definition.  A definition that repeats a task is    *)
(* refused, never run in part (dsl.go:61-139).                             *)
CompilerAgrees ==
  check \in Verdicts =>
    \A order \in SetToSeqs(Task) :
      /\ Compiler!Compile(Definition(order)) = IF check = "valid" THEN {deps} ELSE {}
      /\ \A t \in Task : Compiler!Compile(Definition(Append(order, t))) = {}

(* The other way the core has to find runnable tasks agrees with the plan: *)
(* between two stages the tasks that ReadyTasks (workflow.go:138) offers   *)
(* are exactly those the planner puts in the next one.                     *)
StagesAreReady ==
  phase \in {"collect", "planned"} => Compiler!ReadyTasks(deps, processed) = ZeroIndegree
=============================================================================
