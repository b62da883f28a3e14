---------------------------- MODULE TopoPlanner ----------------------------
(***************************************************************************)
(* BuildExecutionPlan of internal/dag/topo.go: Validate, then Kahn's       *)
(* algorithm level by level.  The order inside a level (task ids sorted)   *)
(* is abstracted: a level is a set and its tasks are processed in any      *)
(* order.                                                                  *)
(***************************************************************************)
EXTENDS Validator, FiniteSets

VARIABLES
  phase,      \* "validate", then alternately "collect" and "process", "planned"
  indegree,   \* count of dependency occurrences not processed yet
  processed,  \* tasks whose neighbours have been decremented
  current,    \* tasks of the current level still to process
  plan        \* the stages of the plan, each the set of its TaskIDs

planVars == <<phase, indegree, processed, current, plan>>
vars == <<valVars, planVars>>

(* Mutant of Occurrences: a neighbour is listed once. *)
Neighbor(t, n) == IF t \in DepSet(n) THEN 1 ELSE 0

(* Appearances of t in the dependency list of n: the number of times n is  *)
(* in adjacency[t].                                                        *)
Occurrences(t, n) == Cardinality({i \in DOMAIN deps[n] : deps[n][i] = t})

(* Mutants of ZeroIndegree: off by one; the processed tasks again; one     *)
(* task of the level only.                                                 *)
LowIndegree == {t \in Task : indegree[t] <= 1 /\ t \notin processed}
ZeroAgain == {t \in Task : indegree[t] = 0}
OneZero ==
  LET zero == ZeroAgain \ processed IN IF zero = {} THEN {} ELSE {CHOOSE t \in zero : TRUE}

ZeroIndegree == {t \in Task : indegree[t] = 0 /\ t \notin processed}
----------------------------------------------------------------------------
Init ==
  /\ ValInit
  /\ phase = "validate"
  /\ indegree = [t \in Task |-> 0]
  /\ processed = {}
  /\ current = {}
  /\ plan = <<>>

ValidateStep ==
  /\ phase = "validate"
  /\ Validate
  /\ UNCHANGED planVars

(* Mutant of BuildIndegreeMap: a repeated dependency counts once. *)
CountDistinct ==
  /\ phase = "validate"
  /\ check = "valid"
  /\ indegree' = [t \in Task |-> Cardinality(DepSet(t))]
  /\ phase' = "collect"
  /\ UNCHANGED <<valVars, processed, current, plan>>

BuildIndegreeMap ==
  /\ phase = "validate"
  /\ check = "valid"
  /\ indegree' = [t \in Task |-> Len(deps[t])]
  /\ phase' = "collect"
  /\ UNCHANGED <<valVars, processed, current, plan>>

CollectLevel ==
  /\ phase = "collect"
  /\ ZeroIndegree # {}
  /\ plan' = Append(plan, ZeroIndegree)
  /\ current' = ZeroIndegree
  /\ phase' = "process"
  /\ UNCHANGED <<valVars, indegree, processed>>

DecrementNeighbors(t) ==
  /\ phase = "process"
  /\ t \in current
  /\ processed' = processed \cup {t}
  /\ indegree' = [n \in Task |-> indegree[n] - Occurrences(t, n)]
  /\ current' = current \ {t}
  /\ phase' = IF current = {t} THEN "collect" ELSE "process"
  /\ UNCHANGED <<valVars, plan>>

Finish ==
  /\ phase = "collect"
  /\ ZeroIndegree = {}
  /\ phase' = "planned"
  /\ UNCHANGED <<valVars, indegree, processed, current, plan>>

Next ==
  \/ ValidateStep
  \/ BuildIndegreeMap
  \/ CollectLevel
  \/ \E t \in Task : DecrementNeighbors(t)
  \/ Finish

(* One sequential call: it keeps running until it returns. *)
Spec == Init /\ [][Next]_vars /\ WF_vars(Next)
----------------------------------------------------------------------------
Planned == UNION {plan[k] : k \in DOMAIN plan}

TypeOK ==
  /\ ValTypeOK
  /\ phase \in {"validate", "collect", "process", "planned"}
  /\ indegree \in [Task -> Nat]
  /\ processed \subseteq Task
  /\ current \subseteq Task
  /\ plan \in Seq(SUBSET Task)

(* A task is in a stage only when each of its dependencies is in an        *)
(* earlier one, however often the list repeats it (topo.go:33-50).  This   *)
(* is what lets the executor run a stage's tasks in parallel.              *)
DependenciesFirst ==
  \A k \in DOMAIN plan : \A t \in plan[k] :
    \A d \in DepSet(t) : \E j \in 1..(k - 1) : d \in plan[j]

(* No task is in two stages: the executor would run it twice. *)
ScheduledOnce ==
  \A j, k \in DOMAIN plan : plan[j] \cap plan[k] # {} => j = k

(* The loop ends with every task of an accepted workflow in the plan: none *)
(* is dropped silently, though BuildExecutionPlan never compares the       *)
(* number of processed tasks with the number of tasks.                     *)
PlanComplete == phase = "planned" => Planned = Task

(* A task is never delayed: past the first stage it has a dependency in    *)
(* the stage just before.                                                  *)
EarliestStage ==
  \A k \in DOMAIN plan : \A t \in plan[k] :
    k > 1 => DepSet(t) \cap plan[k - 1] # {}

(* Every call returns: a plan, or one of the validator's errors. *)
Returns == <>(phase = "planned" \/ check \in Errors)
============================================================================
