----------------------------- MODULE Validator -----------------------------
(***************************************************************************)
(* The workflow validator of internal/dag/validator.go: Validate runs the  *)
(* three checks in order and stops at the first that fails.  The third,    *)
(* validateCycles, is a depth-first search with a visited set and a        *)
(* recursion stack whose roots come in Go's random map order; it is        *)
(* modelled call by call.                                                  *)
(***************************************************************************)
EXTENDS Naturals, Sequences

CONSTANTS Task,      \* the task ids of the workflow (the keys of workflow.Tasks)
          Name,      \* every id a dependency list may mention, known or not
          DepLists   \* the dependency lists a task may have

ASSUME NamesAssumption ==
  /\ Task \subseteq Name
  /\ DepLists \subseteq Seq(Name)

VARIABLES
  deps,            \* task.Dependencies of every task, fixed for the whole call
  check,           \* the check in progress, or the verdict
  visited,         \* tasks on which detectCycleDFS has been called
  recursionStack,  \* tasks whose recursionStack flag is set
  path,            \* the active calls of detectCycleDFS, outermost first
  next             \* loop index in task.Dependencies of the call on each task

valVars == <<deps, check, visited, recursionStack, path, next>>

Errors == {"ErrTaskNotFound", "ErrSelfDependency", "ErrCircularDependency"}
Verdicts == Errors \cup {"valid"}

DepSet(t) == {deps[t][i] : i \in DOMAIN deps[t]}

(* The three ways a dependency relation can be wrong. *)
ReferencesKnown == \A t \in Task : DepSet(t) \subseteq Task
NoSelfDependency == \A t \in Task : t \notin DepSet(t)
CycleWithin(S) == \E C \in SUBSET S : C # {} /\ \A t \in C : DepSet(t) \cap C # {}
----------------------------------------------------------------------------
ValInit ==
  /\ deps \in [Task -> DepLists]
  /\ check = "references"
  /\ visited = {}
  /\ recursionStack = {}
  /\ path = <<>>
  /\ next = [t \in Task |-> 1]

ValidateTaskReferences ==
  /\ check = "references"
  /\ check' = IF ReferencesKnown THEN "selfDependencies" ELSE "ErrTaskNotFound"
  /\ UNCHANGED <<deps, visited, recursionStack, path, next>>

ValidateSelfDependencies ==
  /\ check = "selfDependencies"
  /\ check' = IF NoSelfDependency THEN "cycles" ELSE "ErrSelfDependency"
  /\ UNCHANGED <<deps, visited, recursionStack, path, next>>

(* A call of detectCycleDFS on a task not visited yet. *)
Call(t) ==
  /\ visited' = visited \cup {t}
  /\ recursionStack' = recursionStack \cup {t}
  /\ path' = Append(path, t)
  /\ UNCHANGED <<deps, check, next>>

(* The for loop of validateCycles picks its next unvisited root. *)
VisitRoot ==
  /\ check = "cycles"
  /\ path = <<>>
  /\ \E t \in Task \ visited : Call(t)

Current == path[Len(path)]
Searching == check = "cycles" /\ path # <<>>
AtDep == Searching /\ next[Current] <= Len(deps[Current])
Dep == deps[Current][next[Current]]

(* The call on Dep finds it on the recursion stack: every caller returns true. *)
FindCycle ==
  /\ AtDep
  /\ Dep \in recursionStack
  /\ check' = "ErrCircularDependency"
  /\ UNCHANGED <<deps, visited, recursionStack, path, next>>

(* The call on Dep recurses. *)
Descend ==
  /\ AtDep
  /\ Dep \notin recursionStack
  /\ Dep \notin visited
  /\ Call(Dep)

(* Mutant of NextDependency: the loop index stays. *)
SameDependency ==
  /\ AtDep
  /\ Dep \notin recursionStack
  /\ Dep \in visited
  /\ UNCHANGED valVars

(* The call on Dep returned false, at once or after searching below it. *)
NextDependency ==
  /\ AtDep
  /\ Dep \notin recursionStack
  /\ Dep \in visited
  /\ next' = [next EXCEPT ![Current] = @ + 1]
  /\ UNCHANGED <<deps, check, visited, recursionStack, path>>

(* Mutant of Return: the recursionStack flag is not reset. *)
ReturnFlagged ==
  /\ Searching
  /\ next[Current] > Len(deps[Current])
  /\ path' = SubSeq(path, 1, Len(path) - 1)
  /\ UNCHANGED <<deps, check, visited, recursionStack, next>>

(* The call on Current has tried every dependency and returns false. *)
Return ==
  /\ Searching
  /\ next[Current] > Len(deps[Current])
  /\ recursionStack' = recursionStack \ {Current}
  /\ path' = SubSeq(path, 1, Len(path) - 1)
  /\ UNCHANGED <<deps, check, visited, next>>

(* Every task has been visited: Validate returns nil. *)
Accept ==
  /\ check = "cycles"
  /\ path = <<>>
  /\ Task \subseteq visited
  /\ check' = "valid"
  /\ UNCHANGED <<deps, visited, recursionStack, path, next>>

Validate ==
  \/ ValidateTaskReferences
  \/ ValidateSelfDependencies
  \/ VisitRoot
  \/ FindCycle
  \/ Descend
  \/ NextDependency
  \/ Return
  \/ Accept

ValSpec == ValInit /\ [][Validate]_valVars
----------------------------------------------------------------------------
ValTypeOK ==
  /\ deps \in [Task -> DepLists]
  /\ check \in Verdicts \cup {"references", "selfDependencies", "cycles"}
  /\ visited \subseteq Task
  /\ recursionStack \subseteq visited
  /\ path \in Seq(Task)
  /\ next \in [Task -> Nat \ {0}]

(* The search accepts exactly the relations without a cycle, whatever the  *)
(* map order: "valid" means every reference is known and no set of tasks   *)
(* waits on itself; ErrCircularDependency is never raised for a graph, a   *)
(* diamond for instance, that has no cycle (validator.go, Validate).       *)
VerdictCorrect ==
  /\ check = "valid" => ReferencesKnown /\ ~ CycleWithin(Task)
  /\ check = "ErrCircularDependency" => CycleWithin(Task)
============================================================================
