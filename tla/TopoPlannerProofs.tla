-------------------------- MODULE TopoPlannerProofs --------------------------
(***************************************************************************)
(* Kahn's algorithm plans every accepted workflow completely and in order, *)
(* for every set of tasks and all dependency lists.  The inductive         *)
(* invariant says what the counters count: the entries of a task's list    *)
(* that are not processed yet, repetitions included.  The second half is   *)
(* about the compiler's own search: by induction over its depth, what it   *)
(* has left behind has no cycle and leads nowhere else, and what it calls  *)
(* a cycle is one.                                                         *)
(***************************************************************************)
EXTENDS PlannerAgreement, ValidatorProofs, InductionLemmas

(* The positions of the list of t that hold a task not processed yet. *)
Remaining(t) == {i \in DOMAIN deps[t] : deps[t][i] \notin processed}

PlannerTypeOK ==
  /\ phase \in {"validate", "collect", "process", "planned"}
  /\ indegree \in [Task -> Nat]
  /\ processed \subseteq Task
  /\ current \subseteq Task
  /\ plan \in Seq(SUBSET Task)

(* Before its loop the planner has nothing; in it the graph is valid. *)
PhaseInv ==
  /\ phase = "validate" => plan = <<>> /\ processed = {} /\ current = {}
  /\ phase # "validate" => check = "valid"
  /\ phase # "process" => current = {}

CountInv ==
  phase # "validate" => \A t \in Task : indegree[t] = Cardinality(Remaining(t))

(* What is planned has been processed, or is of the current level. *)
LevelInv ==
  /\ current \cap processed = {}
  /\ Planned = processed \cup current

(* A task that is not planned waits for something that was not planned     *)
(* before the last stage.                                                  *)
WaitingInv ==
  \A t \in Task \ Planned : plan # <<>> =>
    \E d \in DepSet(t) : \A k \in 1..(Len(plan) - 1) : d \notin plan[k]

(* Once planning is over nothing has indegree zero. *)
EndInv == phase = "planned" => ZeroIndegree = {}

TopoInv ==
  /\ ValInv
  /\ PlannerTypeOK
  /\ PhaseInv
  /\ CountInv
  /\ LevelInv
  /\ WaitingInv
  /\ EndInv
  /\ DependenciesFirst
  /\ ScheduledOnce
  /\ EarliestStage
----------------------------------------------------------------------------
LEMMA PlanDomain ==
  ASSUME plan \in Seq(SUBSET Task)
  PROVE  /\ DOMAIN plan = 1..Len(plan)
         /\ Len(plan) \in Nat
         /\ \A d : d \in Planned <=> \E k \in 1..Len(plan) : d \in plan[k]
BY DEF Planned

(* The positions of a list are finitely many. *)
LEMMA RemainingFinite ==
  ASSUME ValTypeOK, NEW t \in Task, NEW S \in SUBSET DOMAIN deps[t]
  PROVE  IsFiniteSet(S) /\ Cardinality(S) \in Nat
<1>1. DOMAIN deps[t] = 1..Len(deps[t]) /\ Len(deps[t]) \in Nat
  BY DepListType
<1>2. IsFiniteSet(1..Len(deps[t]))
  BY <1>1, FS_Interval
<1>3. IsFiniteSet(S)
  BY <1>1, <1>2, FS_Subset
<1> QED
  BY <1>3, FS_CardinalityType

(* The counter of a task is zero when all its dependencies are processed. *)
LEMMA ZeroMeansProcessed ==
  ASSUME ValTypeOK, CountInv, phase # "validate", NEW t \in Task
  PROVE  indegree[t] = 0 <=> DepSet(t) \subseteq processed
<1>1. IsFiniteSet(Remaining(t))
  BY RemainingFinite DEF Remaining
<1>2. indegree[t] = 0 <=> Remaining(t) = {}
  BY <1>1, FS_EmptySet DEF CountInv
<1>3. Remaining(t) = {} <=> DepSet(t) \subseteq processed
  BY DEF Remaining, DepSet
<1> QED
  BY <1>2, <1>3

(* The stages do not change while the lists and the plan do not. *)
LEMMA PlanUnchanged ==
  ASSUME TopoInv, deps' = deps, plan' = plan
  PROVE  /\ Planned' = Planned
         /\ WaitingInv'
         /\ DependenciesFirst' /\ ScheduledOnce' /\ EarliestStage'
<1>1. \A u : DepSet(u)' = DepSet(u)
  BY DEF DepSet
<1>2. Planned' = Planned
  BY DEF Planned
<1>3. WaitingInv'
  BY <1>1, <1>2 DEF TopoInv, WaitingInv
<1>4. DependenciesFirst' /\ EarliestStage'
  BY <1>1 DEF TopoInv, DependenciesFirst, EarliestStage
<1>5. ScheduledOnce'
  BY DEF TopoInv, ScheduledOnce
<1> QED
  BY <1>2, <1>3, <1>4, <1>5

(* No step of the validator touches the lists, nor a verdict. *)
LEMMA ValidateFrame ==
  ASSUME Validate
  PROVE  deps' = deps
BY DEF Validate, ValidateTaskReferences, ValidateSelfDependencies, VisitRoot, FindCycle,
       Descend, NextDependency, Return, Accept, Call

LEMMA TopoInit == Init => TopoInv
<1> SUFFICES ASSUME Init PROVE TopoInv
  OBVIOUS
<1>1. ValInv /\ PlannerTypeOK /\ PhaseInv
  BY ValInitInv DEF Init, PlannerTypeOK, PhaseInv
<1>2. plan = <<>> /\ DOMAIN plan = {} /\ Planned = {}
  BY DEF Init, Planned
<1> QED
  BY <1>1, <1>2 DEF Init, TopoInv, CountInv, LevelInv, WaitingInv, EndInv, DependenciesFirst,
                    ScheduledOnce, EarliestStage

LEMMA TopoValidateStep ==
  ASSUME TopoInv, ValidateStep
  PROVE  TopoInv'
<1>1. ValInv'
  BY ValNextInv DEF ValidateStep, TopoInv
<1>2. deps' = deps /\ phase = "validate"
  BY ValidateFrame DEF ValidateStep
<1>3. UNCHANGED <<phase, indegree, processed, current, plan>>
  BY DEF ValidateStep, planVars
<1>4. PlannerTypeOK' /\ PhaseInv' /\ CountInv' /\ EndInv'
  BY <1>2, <1>3 DEF TopoInv, PlannerTypeOK, PhaseInv, CountInv, EndInv
<1>5. LevelInv'
  BY <1>2, <1>3, PlanUnchanged DEF TopoInv, LevelInv
<1> QED
  BY <1>1, <1>2, <1>3, <1>4, <1>5, PlanUnchanged DEF TopoInv

LEMMA TopoBuildIndegreeMap ==
  ASSUME TopoInv, BuildIndegreeMap
  PROVE  TopoInv'
<1> USE DEF TopoInv
<1>1. /\ phase = "validate" /\ check = "valid" /\ phase' = "collect"
      /\ plan = <<>> /\ processed = {} /\ current = {}
      /\ UNCHANGED <<valVars, processed, current, plan>>
      /\ indegree' = [t \in Task |-> Len(deps[t])]
  BY DEF BuildIndegreeMap, PhaseInv
<1>2. ValInv' /\ deps' = deps /\ check' = check
  BY <1>1, ValNextInv DEF valVars
<1>3. \A t \in Task : Len(deps[t]) \in Nat /\ DOMAIN deps[t] = 1..Len(deps[t])
  <2>1. ValTypeOK
    BY DEF ValInv
  <2>2. SUFFICES ASSUME NEW t \in Task
                 PROVE  Len(deps[t]) \in Nat /\ DOMAIN deps[t] = 1..Len(deps[t])
    OBVIOUS
  <2>3. deps[t] \in Seq(Name)
    BY <2>1, DepListType
  <2> QED
    BY <2>3
<1>4. PlannerTypeOK' /\ PhaseInv' /\ EndInv'
  BY <1>1, <1>2, <1>3 DEF PlannerTypeOK, PhaseInv, EndInv
<1>5. CountInv'
  <2>1. SUFFICES ASSUME NEW t \in Task
                 PROVE  Len(deps[t]) = Cardinality(Remaining(t)')
    BY <1>1 DEF CountInv
  <2>2. Remaining(t)' = 1..Len(deps[t])
    BY <1>1, <1>2, <1>3 DEF Remaining
  <2> QED
    BY <2>2, <1>3, FS_Interval
<1>6. LevelInv'
  BY <1>1, <1>2, PlanUnchanged DEF LevelInv
<1> QED
  BY <1>1, <1>2, <1>4, <1>5, <1>6, PlanUnchanged

(* A new stage is what has only processed, hence planned, dependencies. *)
LEMMA TopoCollectLevel ==
  ASSUME TopoInv, CollectLevel
  PROVE  TopoInv'
<1> USE DEF TopoInv
<1> DEFINE Z == ZeroIndegree
           n == Len(plan)
<1>1. /\ phase = "collect" /\ phase' = "process" /\ check = "valid"
      /\ current = {} /\ current' = Z
      /\ plan' = Append(plan, Z)
      /\ UNCHANGED <<valVars, indegree, processed>>
  BY DEF CollectLevel, PhaseInv
<1>2. ValInv' /\ deps' = deps /\ check' = check
  BY <1>1, ValNextInv DEF valVars
<1>3. \A u : DepSet(u)' = DepSet(u)
  BY <1>2 DEF DepSet
<1>4. Z \in SUBSET Task /\ Z \cap processed = {}
  BY DEF ZeroIndegree
<1>5. /\ plan' \in Seq(SUBSET Task)
      /\ n \in Nat /\ Len(plan') = n + 1
      /\ \A k \in 1..n : plan'[k] = plan[k]
      /\ plan'[n + 1] = Z
      /\ DOMAIN plan' = 1..(n + 1) /\ DOMAIN plan = 1..n
  BY <1>1, <1>4, AppendProperties DEF PlannerTypeOK
<1>6. /\ Planned = processed
      /\ \A d : d \in processed <=> \E k \in 1..n : d \in plan[k]
  BY <1>1, PlanDomain DEF LevelInv, PlannerTypeOK
<1>7. \A t \in Task : indegree[t] = 0 <=> DepSet(t) \subseteq processed
  BY <1>1, ZeroMeansProcessed DEF ValInv
<1> HIDE DEF Z, n
<1>8. \A k \in 1..n : plan[k] \subseteq processed
  BY <1>6
<1>9. PlannerTypeOK' /\ PhaseInv' /\ EndInv'
  BY <1>1, <1>2, <1>4, <1>5 DEF PlannerTypeOK, PhaseInv, EndInv
<1>10. CountInv'
  BY <1>1, <1>2 DEF CountInv, Remaining
<1>11. Planned' = processed \cup Z
  <2>1. \A d : d \in Planned' <=> \E k \in 1..(n + 1) : d \in plan'[k]
    BY <1>5 DEF Planned
  <2>2. \A k \in 1..(n + 1) : k \in 1..n \/ k = n + 1
    BY <1>5
  <2>3. \A k \in 1..n : k \in 1..(n + 1)
    BY <1>5
  <2>4. n + 1 \in 1..(n + 1)
    BY <1>5
  <2> QED
    BY <2>1, <2>2, <2>3, <2>4, <1>5, <1>6
<1>12. LevelInv'
  BY <1>1, <1>4, <1>11 DEF LevelInv
<1>13. WaitingInv'
  <2>1. SUFFICES ASSUME NEW t \in Task \ Planned'
                 PROVE  \E d \in DepSet(t) : \A k \in 1..n : d \notin plan[k]
    BY <1>3, <1>5 DEF WaitingInv
  <2>2. indegree[t] # 0
    BY <2>1, <1>11 DEF ZeroIndegree, Z
  <2> QED
    BY <2>1, <2>2, <1>7, <1>8
<1>14. DependenciesFirst'
  <2>1. SUFFICES ASSUME NEW k \in 1..(n + 1), NEW t \in plan'[k], NEW d \in DepSet(t)
                 PROVE  \E j \in 1..(k - 1) : d \in plan'[j]
    BY <1>3, <1>5 DEF DependenciesFirst
  <2>2. CASE k \in 1..n
    <3>1. PICK j \in 1..(k - 1) : d \in plan[j]
      BY <2>1, <2>2, <1>5 DEF DependenciesFirst
    <3> QED
      BY <3>1, <2>2, <1>5
  <2>3. CASE k = n + 1
    <3>1. t \in Task /\ indegree[t] = 0
      BY <2>1, <2>3, <1>5 DEF ZeroIndegree, Z
    <3>2. d \in processed
      BY <3>1, <2>1, <1>7
    <3>3. PICK j \in 1..n : d \in plan[j]
      BY <3>2, <1>6
    <3> QED
      BY <3>3, <2>3, <1>5
  <2> QED
    BY <2>2, <2>3, <1>5
<1>15. ScheduledOnce'
  <2>1. SUFFICES ASSUME NEW j \in 1..(n + 1), NEW k \in 1..(n + 1), j # k,
                        NEW t, t \in plan'[j], t \in plan'[k]
                 PROVE  FALSE
    BY <1>5 DEF ScheduledOnce
  <2>2. CASE j \in 1..n /\ k \in 1..n
    BY <2>1, <2>2, <1>5 DEF ScheduledOnce
  <2>3. CASE j = n + 1 /\ k \in 1..n
    BY <2>1, <2>3, <1>4, <1>5, <1>8
  <2>4. CASE k = n + 1 /\ j \in 1..n
    BY <2>1, <2>4, <1>4, <1>5, <1>8
  <2> QED
    BY <2>1, <2>2, <2>3, <2>4, <1>5
<1>16. EarliestStage'
  <2>1. SUFFICES ASSUME NEW k \in 1..(n + 1), NEW t \in plan'[k], k > 1
                 PROVE  DepSet(t) \cap plan'[k - 1] # {}
    BY <1>3, <1>5 DEF EarliestStage
  <2>2. CASE k \in 1..n
    <3>1. DepSet(t) \cap plan[k - 1] # {}
      BY <2>1, <2>2, <1>5 DEF EarliestStage
    <3>2. k - 1 \in 1..n
      BY <2>1, <2>2, <1>5
    <3> QED
      BY <3>1, <3>2, <1>5
  <2>3. CASE k = n + 1
    <3>1. t \in Task \ Planned /\ indegree[t] = 0
      BY <2>1, <2>3, <1>4, <1>5, <1>6 DEF ZeroIndegree, Z
    <3>2. plan # <<>> /\ n \in 1..n
      BY <2>1, <2>3, <1>5 DEF n
    <3>3. PICK d \in DepSet(t) : \A i \in 1..(n - 1) : d \notin plan[i]
      BY <3>1, <3>2 DEF WaitingInv, n
    <3>4. PICK i \in 1..n : d \in plan[i]
      BY <3>1, <1>6, <1>7
    <3>5. i = n
      BY <3>3, <3>4, <1>5
    <3> QED
      BY <3>2, <3>3, <3>4, <3>5, <2>3, <1>5
  <2> QED
    BY <2>2, <2>3, <1>5
<1> QED
  BY <1>2, <1>9, <1>10, <1>12, <1>13, <1>14, <1>15, <1>16

(* Processing a task takes its occurrences, all of them, off every count. *)
LEMMA TopoDecrementNeighbors ==
  ASSUME TopoInv, NEW t \in Task, DecrementNeighbors(t)
  PROVE  TopoInv'
<1> USE DEF TopoInv
<1>1. /\ phase = "process" /\ check = "valid" /\ phase' \in {"collect", "process"}
      /\ t \in current /\ t \notin processed
      /\ processed' = processed \cup {t}
      /\ indegree' = [u \in Task |-> indegree[u] - Occurrences(t, u)]
      /\ current' = current \ {t}
      /\ phase' = "collect" => current' = {}
      /\ UNCHANGED <<valVars, plan>>
  BY DEF DecrementNeighbors, PhaseInv, LevelInv
<1>2. ValInv' /\ deps' = deps /\ check' = check
  BY <1>1, ValNextInv DEF valVars
<1>3. \A u \in Task : /\ indegree[u] - Occurrences(t, u) = Cardinality(Remaining(u)')
                      /\ indegree[u] - Occurrences(t, u) \in Nat
  <2>1. SUFFICES ASSUME NEW u \in Task
                 PROVE  /\ indegree[u] - Occurrences(t, u) = Cardinality(Remaining(u)')
                        /\ indegree[u] - Occurrences(t, u) \in Nat
    OBVIOUS
  <2> DEFINE Old == Remaining(u)
             New == {i \in DOMAIN deps[u] : deps[u][i] \notin processed \cup {t}}
             Occ == {i \in DOMAIN deps[u] : deps[u][i] = t}
  <2>2. Old = New \cup Occ /\ New \cap Occ = {} /\ Remaining(u)' = New
    BY <1>1, <1>2 DEF Remaining
  <2>3. /\ IsFiniteSet(New) /\ Cardinality(New) \in Nat
        /\ IsFiniteSet(Occ) /\ Cardinality(Occ) \in Nat
    BY RemainingFinite DEF ValInv
  <2>4. indegree[u] = Cardinality(Old) /\ Occurrences(t, u) = Cardinality(Occ)
    BY <1>1 DEF CountInv, Occurrences
  <2> HIDE DEF Old, New, Occ
  <2>5. Cardinality(Old) = Cardinality(New) + Cardinality(Occ) - Cardinality({})
    BY <2>2, <2>3, FS_Union
  <2> QED
    BY <2>2, <2>3, <2>4, <2>5, FS_EmptySet
<1>4. PlannerTypeOK'
  BY <1>1, <1>3 DEF PlannerTypeOK
<1>5. PhaseInv' /\ EndInv'
  BY <1>1, <1>2 DEF PhaseInv, EndInv
<1>6. CountInv'
  BY <1>1, <1>3 DEF CountInv
<1>7. LevelInv'
  BY <1>1, <1>2, PlanUnchanged DEF LevelInv
<1> QED
  BY <1>1, <1>2, <1>4, <1>5, <1>6, <1>7, PlanUnchanged

LEMMA TopoFinish ==
  ASSUME TopoInv, Finish
  PROVE  TopoInv'
<1> USE DEF TopoInv
<1>1. /\ phase = "collect" /\ phase' = "planned" /\ check = "valid"
      /\ ZeroIndegree = {} /\ current = {}
      /\ UNCHANGED <<valVars, indegree, processed, current, plan>>
  BY DEF Finish, PhaseInv
<1>2. ValInv' /\ deps' = deps /\ check' = check
  BY <1>1, ValNextInv DEF valVars
<1>3. PlannerTypeOK' /\ PhaseInv'
  BY <1>1, <1>2 DEF PlannerTypeOK, PhaseInv
<1>4. CountInv' /\ EndInv'
  BY <1>1, <1>2 DEF CountInv, Remaining, EndInv, ZeroIndegree
<1>5. LevelInv'
  BY <1>1, <1>2, PlanUnchanged DEF LevelInv
<1> QED
  BY <1>1, <1>2, <1>3, <1>4, <1>5, PlanUnchanged

LEMMA TopoNext == TopoInv /\ [Next]_vars => TopoInv'
<1> SUFFICES ASSUME TopoInv, [Next]_vars PROVE TopoInv'
  OBVIOUS
<1>1. CASE ValidateStep
  BY <1>1, TopoValidateStep
<1>2. CASE BuildIndegreeMap
  BY <1>2, TopoBuildIndegreeMap
<1>3. CASE CollectLevel
  BY <1>3, TopoCollectLevel
<1>4. ASSUME NEW t \in Task, DecrementNeighbors(t) PROVE TopoInv'
  BY <1>4, TopoDecrementNeighbors
<1>5. CASE Finish
  BY <1>5, TopoFinish
<1>6. CASE UNCHANGED vars
  <2>1. UNCHANGED <<valVars, phase, indegree, processed, current, plan>> /\ deps' = deps
    BY <1>6 DEF vars, planVars, valVars
  <2>2. ValInv'
    BY <2>1, ValNextInv DEF TopoInv
  <2>3. PlannerTypeOK' /\ PhaseInv'
    BY <2>1 DEF TopoInv, PlannerTypeOK, PhaseInv, valVars
  <2>4. CountInv' /\ EndInv'
    BY <2>1 DEF TopoInv, CountInv, Remaining, EndInv, ZeroIndegree
  <2>5. LevelInv'
    BY <2>1, PlanUnchanged DEF TopoInv, LevelInv
  <2> QED
    BY <2>1, <2>2, <2>3, <2>4, <2>5, PlanUnchanged DEF TopoInv
<1> QED
  BY <1>1, <1>2, <1>3, <1>4, <1>5, <1>6 DEF Next

LEMMA TopoAlways == Spec => []TopoInv
BY TopoInit, TopoNext, PTL DEF Spec
----------------------------------------------------------------------------
(* A stage only holds tasks whose dependencies are in earlier stages, so   *)
(* its tasks can run in parallel (topo.go:33-50). *)
THEOREM PlanInOrder == Spec => []DependenciesFirst
<1>1. TopoInv => DependenciesFirst
  BY DEF TopoInv
<1> QED
  BY <1>1, TopoAlways, PTL

(* No task is planned twice: the executor starts it once. *)
THEOREM PlanWithoutRepeats == Spec => []ScheduledOnce
<1>1. TopoInv => ScheduledOnce
  BY DEF TopoInv
<1> QED
  BY <1>1, TopoAlways, PTL

(* No task is planned later than its dependencies demand. *)
THEOREM PlanIsTight == Spec => []EarliestStage
<1>1. TopoInv => EarliestStage
  BY DEF TopoInv
<1> QED
  BY <1>1, TopoAlways, PTL

(* The plan of an accepted workflow has all its tasks: a set of tasks that *)
(* stays out would contain a cycle, which the validator has excluded.      *)
THEOREM PlanHasAllTasks == Spec => []PlanComplete
<1>1. TopoInv => PlanComplete
  <2>1. SUFFICES ASSUME TopoInv, phase = "planned" PROVE Planned = Task
    BY DEF PlanComplete
  <2>2. Planned = processed /\ processed \subseteq Task
    BY <2>1 DEF TopoInv, PhaseInv, LevelInv, PlannerTypeOK
  <2> DEFINE Left == Task \ processed
  <2>3. \A t \in Left : DepSet(t) \cap Left # {}
    <3>1. SUFFICES ASSUME NEW t \in Left PROVE DepSet(t) \cap Left # {}
      OBVIOUS
    <3>2. indegree[t] # 0
      BY <2>1, <3>1 DEF TopoInv, EndInv, ZeroIndegree
    <3>3. ~ (DepSet(t) \subseteq processed)
      BY <2>1, <3>1, <3>2, ZeroMeansProcessed DEF TopoInv, ValInv
    <3>4. DepSet(t) \subseteq Task
      BY <2>1, <3>1 DEF TopoInv, PhaseInv, ValInv, ChecksInOrder, ReferencesKnown
    <3> QED
      BY <3>3, <3>4
  <2>4. ~ CycleWithin(Task)
    BY <2>1 DEF TopoInv, PhaseInv, ValInv, ChecksInOrder
  <2>5. Left = {}
    BY <2>3, <2>4 DEF CycleWithin
  <2> QED
    BY <2>2, <2>5
<1> QED
  BY <1>1, TopoAlways, PTL

(* The planner's variables keep their types; in particular no counter      *)
(* falls below zero. *)
THEOREM PlannerTypeCorrect == Spec => []TypeOK
<1>1. TopoInv => TypeOK
  BY DEF TopoInv, ValInv, PlannerTypeOK, TypeOK
<1> QED
  BY <1>1, TopoAlways, PTL

(* ReadyTasks, which looks at the dependencies themselves, and the         *)
(* counters of the planner name the same tasks between two stages          *)
(* (workflow.go:138, topo.go:27-31).                                       *)
THEOREM ReadyTasksAgree == Spec => []StagesAreReady
<1>1. TopoInv => StagesAreReady
  <2> SUFFICES ASSUME TopoInv, phase \in {"collect", "planned"}
               PROVE  Compiler!ReadyTasks(deps, processed) = ZeroIndegree
    BY DEF StagesAreReady
  <2>1. DOMAIN deps = Task
    BY DEF TopoInv, ValInv, ValTypeOK
  <2>2. \A t \in Task : indegree[t] = 0 <=> DepSet(t) \subseteq processed
    BY ZeroMeansProcessed DEF TopoInv, ValInv
  <2>3. \A t \in Task : DepSet(t) = Compiler!ToSet(deps[t])
    BY DEF DepSet, Compiler!ToSet
  <2> QED
    BY <2>1, <2>2, <2>3 DEF Compiler!ReadyTasks, Compiler!CanRun, ZeroIndegree
<1> QED
  BY <1>1, TopoAlways, PTL
----------------------------------------------------------------------------
(* The compiler's search.  Its two maps at a point where no cycle has been *)
(* found: what is visited and not on the stack is finished, leads nowhere  *)
(* else, and has no cycle.                                                 *)

SearchStates == [visited : SUBSET Task, recStack : SUBSET Task, found : BOOLEAN]

Finished(s) == s.visited \ s.recStack

Sound(s) ==
  /\ s.recStack \subseteq s.visited
  /\ \A t \in Finished(s) : DepSet(t) \subseteq Finished(s)
  /\ ~ CycleWithin(Finished(s))

(* y is in every set that has x and the dependencies of its elements.      *)
Reaches(x, y) ==
  \A S \in SUBSET Task : x \in S /\ (\A t \in S : DepSet(t) \subseteq S) => y \in S

(* What holds when n is called from state s, and when the call is over.    *)
Entry(s, n) ==
  ~ s.found /\ Sound(s) /\ n \notin s.visited /\ \A x \in s.recStack : Reaches(x, n)

Outcome(s, n, r) ==
  IF r.found THEN CycleWithin(Task)
  ELSE Sound(r) /\ r.recStack = s.recStack /\ s.visited \cup {n} \subseteq r.visited

(* What a nested call may be. *)
Calls == [SearchStates \X Task -> SearchStates]

(* A call that may nest less than k deep does so, unless more than k nodes *)
(* are left.                                                               *)
Works(call, k) ==
  /\ call \in Calls
  /\ \A s \in SearchStates, n \in Task :
       Entry(s, n) /\ Cardinality(Task \ s.visited) <= k => Outcome(s, n, call[<<s, n>>])

(* The graph a definition describes is that of the workflow.               *)
Describes(def) ==
  /\ Compiler!Nodes(def) = Task
  /\ \A t \in Task : Compiler!Adj(def, t) = deps[t]

LEMMA DepsInTask ==
  ASSUME ValTypeOK, ReferencesKnown, NEW t \in Task
  PROVE  /\ Len(deps[t]) \in Nat
         /\ \A i \in 1..Len(deps[t]) : deps[t][i] \in DepSet(t) /\ deps[t][i] \in Task
         /\ \A d \in DepSet(t) : \E i \in 1..Len(deps[t]) : d = deps[t][i]
<1>1. deps[t] \in Seq(Name) /\ DepSet(t) = {deps[t][i] : i \in 1..Len(deps[t])}
  BY DepListType
<1>2. Len(deps[t]) \in Nat
  BY <1>1
<1> QED
  BY <1>1, <1>2 DEF ReferencesKnown

LEMMA ReachesDep ==
  ASSUME ReferencesKnown, NEW x \in Task, NEW y \in Task, NEW z \in DepSet(y), Reaches(x, y)
  PROVE  Reaches(x, z)
BY DEF Reaches

(* A dependency on the stack closes a cycle: the tasks between.            *)
LEMMA BackEdge ==
  ASSUME ReferencesKnown, NEW n \in Task, NEW m \in Task, n \in DepSet(m), Reaches(n, m)
  PROVE  CycleWithin(Task)
<1> DEFINE C == {t \in Task : Reaches(n, t) /\ Reaches(t, m)}
<1>1. n \in C
  BY DEF Reaches
<1>2. ASSUME NEW t \in C PROVE DepSet(t) \cap C # {}
  <2>1. CASE t = m
    BY <1>1, <2>1
  <2>2. CASE t # m
    <3>1. \E u \in DepSet(t) : Reaches(u, m)
      <4> SUFFICES ASSUME \A u \in DepSet(t) : ~ Reaches(u, m) PROVE FALSE
        OBVIOUS
      <4> DEFINE B == {v \in Task : \E u \in DepSet(t) : Reaches(u, v)} \cup {t}
      <4>1. t \in B /\ B \in SUBSET Task
        OBVIOUS
      <4>2. DepSet(t) \subseteq Task
        BY DEF ReferencesKnown
      <4>3. \A u \in DepSet(t) : u \in B
        BY <4>2 DEF Reaches
      <4>4. ASSUME NEW v \in B PROVE DepSet(v) \subseteq B
        <5>1. CASE v = t
          BY <4>3, <5>1
        <5>2. CASE v # t
          <6>1. PICK u \in DepSet(t) : Reaches(u, v)
            BY <5>2
          <6>2. v \in Task /\ u \in Task /\ DepSet(v) \subseteq Task
            BY <4>2 DEF ReferencesKnown
          <6>3. \A z \in DepSet(v) : Reaches(u, z)
            BY <6>1, <6>2, ReachesDep
          <6> QED
            BY <6>2, <6>3
        <5> QED
          BY <5>1, <5>2
      <4>5. m \in B
        <5>1. Reaches(t, m)
          OBVIOUS
        <5> HIDE DEF B
        <5> QED
          BY <4>1, <4>4, <5>1 DEF Reaches
      <4> QED
        BY <2>2, <4>5
    <3>2. PICK u \in DepSet(t) : Reaches(u, m)
      BY <3>1
    <3>3. u \in Task /\ t \in Task /\ Reaches(n, t)
      BY DEF ReferencesKnown
    <3>4. Reaches(n, u)
      BY <3>3, ReachesDep
    <3> QED
      BY <3>2, <3>3, <3>4
  <2> QED
    BY <2>1, <2>2
<1>3. C \in SUBSET Task
  OBVIOUS
<1> HIDE DEF C
<1> QED
  BY <1>1, <1>2, <1>3 DEF CycleWithin

(* What Enter and Leave make of a state. *)
LEMMA Entered ==
  ASSUME NEW s \in SearchStates, NEW n \in Task
  PROVE  /\ Compiler!Enter(s, n) \in SearchStates
         /\ Compiler!Enter(s, n).visited = s.visited \cup {n}
         /\ Compiler!Enter(s, n).recStack = s.recStack \cup {n}
         /\ Compiler!Enter(s, n).found = s.found
BY DEF SearchStates, Compiler!Enter

LEMMA Left ==
  ASSUME NEW s \in SearchStates, NEW n \in Task
  PROVE  /\ Compiler!Leave(s, n) \in SearchStates
         /\ Compiler!Leave(s, n).found = s.found
         /\ ~ s.found => /\ Compiler!Leave(s, n).visited = s.visited
                         /\ Compiler!Leave(s, n).recStack = s.recStack \ {n}
BY DEF SearchStates, Compiler!Leave

(* One round of the loop over the neighbours.                              *)
Visit(call, r, n) ==
  IF r.found THEN r
  ELSE IF n \notin r.visited THEN call[<<r, n>>] ELSE [r EXCEPT !.found = n \in r.recStack]

LEMMA VisitTyped ==
  ASSUME NEW call \in Calls, NEW r \in SearchStates, NEW n \in Task
  PROVE  Visit(call, r, n) \in SearchStates
<1>1. <<r, n>> \in SearchStates \X Task
  OBVIOUS
<1>2. [r EXCEPT !.found = n \in r.recStack] \in SearchStates
  <2>1. (n \in r.recStack) \in BOOLEAN
    OBVIOUS
  <2> QED
    BY <2>1 DEF SearchStates
<1> QED
  BY <1>1, <1>2 DEF Visit, Calls

(* The loop of a call, round by round. *)
LEMMA NeighborsIs ==
  ASSUME ValTypeOK, ReferencesKnown, NEW def, Describes(def), NEW t \in Task,
         NEW call \in Calls, NEW s \in SearchStates
  PROVE  \E f \in [0..Len(deps[t]) -> SearchStates] :
           /\ f[0] = s
           /\ \A i \in 0..Len(deps[t]) : i # 0 => f[i] = Visit(call, f[i - 1], deps[t][i])
           /\ Compiler!Neighbors(def, call, s, t) = f[Len(deps[t])]
<1> DEFINE list == deps[t]
           n == Len(list)
           Rule(f) == f = [i \in 0..n |-> IF i = 0 THEN s ELSE Visit(call, f[i - 1], list[i])]
           after == CHOOSE f : Rule(f)
           step == [p \in SearchStates \X Int |-> IF p[2] \in 1..n THEN Visit(call, p[1], list[p[2]]) ELSE s]
<1>1. n \in Nat /\ \A i \in 1..n : list[i] \in Task
  BY DepsInTask
<1>2. Compiler!Neighbors(def, call, s, t) = after[n]
  <2>1. Compiler!Adj(def, t) = deps[t]
    BY DEF Describes
  <2> QED
    BY <2>1, ZenonT(60) DEF Compiler!Neighbors, Visit
<1> HIDE DEF n, list
<1>3. step \in LoopSteps(SearchStates)
  <2>1. ASSUME NEW p \in SearchStates \X Int PROVE step[p] \in SearchStates
    <3>1. p[1] \in SearchStates
      OBVIOUS
    <3> QED
      BY <1>1, <3>1, VisitTyped
  <2> QED
    BY <2>1 DEF LoopSteps
<1>4. PICK f : LoopRuns(f, SearchStates, 0, n, s, step)
  <2> HIDE DEF step
  <2>1. 0 \in Int /\ n \in Int /\ 0 <= n
    BY <1>1
  <2> QED
    BY <1>3, <2>1, IntervalRecursion
<1>5. f \in [0..n -> SearchStates] /\ \A i \in 0..n : f[i] = IF i = 0
                                                               THEN s
                                                               ELSE step[<<f[i - 1], i>>]
  BY <1>4 DEF LoopRuns
<1>6. ASSUME NEW i \in 0..n, i # 0 PROVE step[<<f[i - 1], i>>] = Visit(call, f[i - 1], list[i])
  <2>1. i - 1 \in 0..n /\ i \in Int /\ i \in 1..n
    BY <1>1, <1>6
  <2>2. <<f[i - 1], i>> \in SearchStates \X Int
    BY <1>5, <2>1
  <2> QED
    BY <2>1, <2>2
<1>7. Rule(f)
  <2>1. f = [i \in 0..n |-> f[i]]
    BY <1>5
  <2>2. \A i \in 0..n : f[i] = IF i = 0 THEN s ELSE Visit(call, f[i - 1], list[i])
    <3> HIDE DEF step
    <3> QED
      BY <1>5, <1>6
  <2> QED
    BY <2>1, <2>2
<1>8. Rule(after)
  <2> HIDE DEF Rule
  <2> QED
    BY <1>7
<1> HIDE DEF after
<1>9. \A i \in 0..n : after[i] = IF i = 0 THEN s ELSE Visit(call, after[i - 1], list[i])
  BY <1>8
<1>10. \A i \in 0..n : after[i] \in SearchStates
  <2> DEFINE P == {i \in 0..n : after[i] \in SearchStates}
  <2>1. 0 \in P
    BY <1>1, <1>9
  <2>2. ASSUME NEW i \in 0..(n - 1), i \in P PROVE i + 1 \in P
    <3>1. i + 1 \in 0..n /\ i + 1 # 0 /\ (i + 1) - 1 = i /\ i + 1 \in 1..n
      BY <1>1
    <3>2. after[i + 1] = Visit(call, after[i], list[i + 1])
      BY <1>9, <3>1
    <3>3. Visit(call, after[i], list[i + 1]) \in SearchStates
      BY <1>1, <2>2, <3>1, VisitTyped
    <3> QED
      BY <3>1, <3>2, <3>3
  <2>3. 0 \in Int /\ n \in Int
    BY <1>1
  <2> HIDE DEF P
  <2>4. \A i \in 0..n : i \in P
    BY <2>1, <2>2, <2>3, IntervalInduction
  <2> QED
    BY <2>4 DEF P
<1>11. after \in [0..n -> SearchStates]
  BY <1>8, <1>10
<1>12. 0 \in 0..n
  BY <1>1
<1> QED
  BY <1>2, <1>9, <1>11, <1>12 DEF n, list

(* Between two rounds of the call on n from state s. *)
Round(s, n, r, i) ==
  IF r.found THEN CycleWithin(Task)
  ELSE /\ Sound(r)
       /\ r.recStack = s.recStack \cup {n}
       /\ s.visited \cup {n} \subseteq r.visited
       /\ \A j \in 1..i : deps[n][j] \in Finished(r)

LEMMA RoundKept ==
  ASSUME ValTypeOK, ReferencesKnown, IsFiniteSet(Task), NEW k \in Nat, NEW call, Works(call, k),
         NEW s \in SearchStates, NEW n \in Task, Entry(s, n), Cardinality(Task \ s.visited) <= k + 1,
         NEW i \in Nat, i + 1 <= Len(deps[n]), NEW r \in SearchStates, Round(s, n, r, i)
  PROVE  Round(s, n, Visit(call, r, deps[n][i + 1]), i + 1)
<1> DEFINE m == deps[n][i + 1]
           q == Visit(call, r, m)
<1>1. m \in Task /\ m \in DepSet(n)
  <2>1. Len(deps[n]) \in Nat /\ i + 1 \in 1..Len(deps[n])
    BY DepsInTask
  <2> QED
    BY <2>1, DepsInTask
<1> HIDE DEF m
<1>2. CASE r.found
  BY <1>2 DEF Round, Visit
<1>3. CASE ~ r.found
  <2>1. /\ Sound(r) /\ r.recStack = s.recStack \cup {n} /\ s.visited \cup {n} \subseteq r.visited
        /\ \A j \in 1..i : deps[n][j] \in Finished(r)
    BY <1>3 DEF Round
  <2>2. \A j \in 1..(i + 1) : j \in 1..i \/ j = i + 1
    OBVIOUS
  <2>3. \A x \in r.recStack : x \in Task /\ Reaches(x, n)
    <3>1. Reaches(n, n)
      BY DEF Reaches
    <3>2. r.recStack \subseteq Task
      BY DEF SearchStates
    <3> QED
      BY <2>1, <3>1, <3>2 DEF Entry
  <2>4. CASE m \in r.visited /\ m \in r.recStack
    <3>1. q.found
      BY <1>3, <2>4 DEF Visit, SearchStates
    <3>2. CycleWithin(Task)
      BY <1>1, <2>3, <2>4, BackEdge
    <3> QED
      BY <3>1, <3>2 DEF Round, m
  <2>5. CASE m \in r.visited /\ m \notin r.recStack
    <3>1. q.visited = r.visited /\ q.recStack = r.recStack /\ ~ q.found
      BY <1>3, <2>5 DEF Visit, SearchStates
    <3>2. Finished(q) = Finished(r) /\ m \in Finished(q)
      BY <2>5, <3>1 DEF Finished
    <3>3. Sound(q)
      BY <2>1, <3>1, <3>2 DEF Sound
    <3>4. \A j \in 1..(i + 1) : deps[n][j] \in Finished(q)
      BY <2>1, <2>2, <3>2 DEF m
    <3> QED
      BY <2>1, <3>1, <3>3, <3>4 DEF Round, m
  <2>6. CASE m \notin r.visited
    <3>1. q = call[<<r, m>>] /\ q \in SearchStates
      <4>1. <<r, m>> \in SearchStates \X Task
        BY <1>1
      <4> QED
        BY <1>3, <2>6, <4>1 DEF Visit, Works, Calls
    <3>2. Entry(r, m)
      BY <1>1, <1>3, <2>1, <2>3, <2>6, ReachesDep DEF Entry
    <3>3. Cardinality(Task \ r.visited) <= k
      <4> DEFINE A == Task \ s.visited
                 B == A \ {n}
      <4>1. IsFiniteSet(A) /\ n \in A
        BY FS_Subset DEF Entry
      <4>2. IsFiniteSet(B) /\ Cardinality(B) = Cardinality(A) - 1 /\ Cardinality(A) \in Nat
        BY <4>1, FS_RemoveElement, FS_CardinalityType
      <4>3. Task \ r.visited \subseteq B
        BY <2>1
      <4>4. Cardinality(Task \ r.visited) <= Cardinality(B) /\ Cardinality(Task \ r.visited) \in Nat
        BY <4>2, <4>3, FS_Subset, FS_CardinalityType
      <4> QED
        BY <4>2, <4>4
    <3>4. Outcome(r, m, q)
      BY <1>1, <3>1, <3>2, <3>3 DEF Works
    <3>5. CASE q.found
      BY <3>4, <3>5 DEF Outcome, Round, m
    <3>6. CASE ~ q.found
      <4>1. Sound(q) /\ q.recStack = r.recStack /\ r.visited \cup {m} \subseteq q.visited
        BY <3>4, <3>6 DEF Outcome
      <4>2. r.recStack \subseteq r.visited
        BY <2>1 DEF Sound
      <4>3. Finished(r) \subseteq Finished(q) /\ m \in Finished(q)
        BY <2>6, <4>1, <4>2 DEF Finished
      <4>4. \A j \in 1..(i + 1) : deps[n][j] \in Finished(q)
        BY <2>1, <2>2, <4>3 DEF m
      <4> QED
        BY <2>1, <3>6, <4>1, <4>4 DEF Round, m
    <3> QED
      BY <3>5, <3>6
  <2> QED
    BY <2>4, <2>5, <2>6
<1> QED
  BY <1>2, <1>3

(* A node all of whose dependencies are finished can be finished.          *)
LEMMA NoNewCycle ==
  ASSUME NEW F \in SUBSET Task, NEW n \in Task, n \notin F, ~ CycleWithin(F),
         \A t \in F : DepSet(t) \subseteq F, DepSet(n) \subseteq F
  PROVE  ~ CycleWithin(F \cup {n})
<1> SUFFICES ASSUME NEW C \in SUBSET (F \cup {n}), C # {}, \A t \in C : DepSet(t) \cap C # {}
             PROVE  FALSE
  BY DEF CycleWithin
<1>1. \A t \in C \cap F : DepSet(t) \cap (C \cap F) # {}
  OBVIOUS
<1>2. C \cap F = {}
  BY <1>1 DEF CycleWithin
<1>3. n \in C
  BY <1>2
<1> QED
  BY <1>2, <1>3

(* What a call does, when the calls it nests work. *)
LEMMA CallWorks ==
  ASSUME ValTypeOK, ReferencesKnown, IsFiniteSet(Task), NEW def, Describes(def),
         NEW k \in Nat, NEW call, Works(call, k),
         NEW s \in SearchStates, NEW n \in Task, Entry(s, n), Cardinality(Task \ s.visited) <= k + 1
  PROVE  Outcome(s, n, Compiler!Leave(Compiler!Neighbors(def, call, Compiler!Enter(s, n), n), n))
<1> DEFINE e == Compiler!Enter(s, n)
           r == Compiler!Neighbors(def, call, e, n)
           l == Compiler!Leave(r, n)
           len == Len(deps[n])
<1>1. len \in Nat
  BY DepsInTask
<1>2. /\ e \in SearchStates /\ e.visited = s.visited \cup {n} /\ e.recStack = s.recStack \cup {n}
      /\ ~ e.found
  BY Entered DEF Entry
<1> HIDE DEF e
<1>3. call \in Calls
  BY DEF Works
<1>4. PICK f \in [0..len -> SearchStates] :
        /\ f[0] = e
        /\ \A i \in 0..len : i # 0 => f[i] = Visit(call, f[i - 1], deps[n][i])
        /\ r = f[len]
  BY <1>2, <1>3, NeighborsIs
<1> HIDE DEF r
<1> DEFINE P == {i \in 0..len : Round(s, n, f[i], i)}
<1>5. 0 \in P
  <2>1. Sound(s) /\ n \notin s.visited /\ s.recStack \subseteq s.visited
    BY DEF Entry, Sound
  <2>2. Finished(e) = Finished(s)
    BY <1>2, <2>1 DEF Finished
  <2>3. Sound(e)
    BY <1>2, <2>1, <2>2 DEF Sound
  <2>4. \A j \in 1..0 : FALSE
    OBVIOUS
  <2>5. Round(s, n, e, 0)
    BY <1>2, <2>3, <2>4 DEF Round
  <2> QED
    BY <1>1, <1>4, <2>5
<1>6. ASSUME NEW i \in 0..(len - 1), i \in P PROVE i + 1 \in P
  <2>1. /\ i + 1 \in 0..len /\ i + 1 # 0 /\ (i + 1) - 1 = i /\ i \in Nat /\ i + 1 <= len /\ i \in 0..len
    BY <1>1
  <2>2. f[i] \in SearchStates /\ Round(s, n, f[i], i)
    BY <1>6, <2>1
  <2>3. f[i + 1] = Visit(call, f[i], deps[n][i + 1])
    BY <1>4, <2>1
  <2>4. Round(s, n, Visit(call, f[i], deps[n][i + 1]), i + 1)
    BY <2>1, <2>2, RoundKept
  <2> QED
    BY <2>1, <2>3, <2>4
<1>7. Round(s, n, r, len) /\ r \in SearchStates
  <2>1. 0 \in Int /\ len \in Int /\ len \in 0..len
    BY <1>1
  <2> HIDE DEF P, len
  <2>2. len \in P
    BY <1>5, <1>6, <2>1, IntervalInduction
  <2> QED
    BY <1>4, <2>1, <2>2 DEF P
<1>8. l \in SearchStates /\ l.found = r.found
      /\ (~ r.found => l.visited = r.visited /\ l.recStack = r.recStack \ {n})
  BY <1>7, Left
<1> HIDE DEF l
<1>9. CASE r.found
  BY <1>7, <1>8, <1>9 DEF Outcome, Round, l, r, e
<1>10. CASE ~ r.found
  <2>1. /\ Sound(r) /\ r.recStack = s.recStack \cup {n} /\ s.visited \cup {n} \subseteq r.visited
        /\ \A j \in 1..len : deps[n][j] \in Finished(r)
    BY <1>7, <1>10 DEF Round
  <2>2. Sound(s) /\ n \notin s.visited /\ s.recStack \subseteq s.visited
    BY DEF Entry, Sound
  <2>3. l.recStack = s.recStack /\ l.visited = r.visited /\ ~ l.found
    BY <1>8, <1>10, <2>1, <2>2
  <2>4. Finished(l) = Finished(r) \cup {n} /\ n \notin Finished(r)
    BY <2>1, <2>2, <2>3 DEF Finished
  <2>5. DepSet(n) \subseteq Finished(r)
    BY <2>1, DepsInTask
  <2>6. Finished(r) \in SUBSET Task
    BY <1>7 DEF Finished, SearchStates
  <2>7. /\ ~ CycleWithin(Finished(r)) /\ \A t \in Finished(r) : DepSet(t) \subseteq Finished(r)
        /\ r.recStack \subseteq r.visited
    BY <2>1 DEF Sound
  <2>8. ~ CycleWithin(Finished(r) \cup {n})
    BY <2>4, <2>5, <2>6, <2>7, NoNewCycle
  <2>9. Sound(l)
    BY <2>1, <2>2, <2>3, <2>4, <2>5, <2>7, <2>8 DEF Sound
  <2> QED
    BY <2>1, <2>3, <2>9 DEF Outcome, l, r, e
<1> QED
  BY <1>9, <1>10

(* Cardinality by its name in the compiler's module. *)
LEMMA SameCardinality == ASSUME NEW S PROVE Compiler!Cardinality(S) = Cardinality(S)
BY DEF Compiler!Cardinality, Cardinality

(* A call from the top. *)
LEMMA HasCycleWorks ==
  ASSUME ValTypeOK, ReferencesKnown, IsFiniteSet(Task), NEW def, Describes(def)
  PROVE  \E call : /\ Works(call, Cardinality(Task))
                   /\ \A s, n : Compiler!HasCycle(def, s, n) = call[<<s, n>>]
<1> DEFINE N == Compiler!Cardinality(Compiler!Nodes(def))
           Args == Compiler!States(def) \X Compiler!Nodes(def)
           X == [Args -> SearchStates]
           base == [c \in Args |-> c[1]]
           Body(call) == [c \in Args |->
             Compiler!Leave(Compiler!Neighbors(def, call, Compiler!Enter(c[1], c[2]), c[2]), c[2])]
           Rule(f) == f = [k \in 0..N |-> [c \in Args |->
             IF k = 0 THEN c[1]
             ELSE Compiler!Leave(Compiler!Neighbors(def, f[k - 1], Compiler!Enter(c[1], c[2]), c[2]), c[2])]]
           calls == CHOOSE f : Rule(f)
           step == [p \in X \X Int |-> Body(p[1])]
<1>1. N \in Nat /\ N = Cardinality(Task)
  BY FS_CardinalityType, SameCardinality DEF Describes
<1>2. Compiler!States(def) = SearchStates /\ Compiler!Nodes(def) = Task
  BY DEF Compiler!States, SearchStates, Describes
<1>3. \A s, n : Compiler!HasCycle(def, s, n) = calls[N][<<s, n>>]
  BY DEF Compiler!HasCycle
<1> HIDE DEF N
<1>0. Args = SearchStates \X Task /\ X = Calls
  BY <1>2 DEF Calls
<1> HIDE DEF Args
<1>4. ASSUME NEW call \in X PROVE Body(call) \in X
  <2>1. ASSUME NEW c \in Args
        PROVE  Compiler!Leave(Compiler!Neighbors(def, call, Compiler!Enter(c[1], c[2]), c[2]), c[2])
                 \in SearchStates
    <3>1. c[1] \in SearchStates /\ c[2] \in Task
      BY <1>0
    <3> DEFINE e == Compiler!Enter(c[1], c[2])
               t == c[2]
               r == Compiler!Neighbors(def, call, e, t)
    <3>2. e \in SearchStates /\ t \in Task /\ call \in Calls
      BY <1>0, <3>1, Entered
    <3> HIDE DEF e, t
    <3>3. Len(deps[t]) \in 0..Len(deps[t])
      BY <3>2, DepsInTask
    <3>4. PICK f \in [0..Len(deps[t]) -> SearchStates] : r = f[Len(deps[t])]
      BY <3>2, NeighborsIs
    <3>5. r \in SearchStates
      BY <3>3, <3>4
    <3> HIDE DEF r
    <3>6. Compiler!Leave(r, t) \in SearchStates
      BY <3>2, <3>5, Left
    <3> QED
      BY <3>6 DEF e, t, r
  <2> QED
    BY <2>1
<1>5. step \in LoopSteps(X)
  <2> HIDE DEF X, Body
  <2> QED
    BY <1>4 DEF LoopSteps
<1>6. base \in X
  BY <1>0
<1>7. PICK f : LoopRuns(f, X, 0, N, base, step)
  <2> HIDE DEF step, X, base
  <2>1. 0 \in Int /\ N \in Int /\ 0 <= N
    BY <1>1
  <2> QED
    BY <1>5, <1>6, <2>1, IntervalRecursion
<1>8. /\ f \in [0..N -> X] /\ f[0] = base
      /\ \A k \in 0..N : k # 0 => f[k] = Body(f[k - 1])
  <2>1. f \in [0..N -> X] /\ \A k \in 0..N : f[k] = IF k = 0 THEN base ELSE step[<<f[k - 1], k>>]
    <3> HIDE DEF X, base, step
    <3> QED
      BY <1>7 DEF LoopRuns
  <2>2. ASSUME NEW k \in 0..N, k # 0 PROVE step[<<f[k - 1], k>>] = Body(f[k - 1])
    <3> HIDE DEF X, Body
    <3>1. k - 1 \in 0..N /\ k \in Int
      BY <1>1, <2>2
    <3>2. <<f[k - 1], k>> \in X \X Int
      BY <2>1, <3>1
    <3> QED
      BY <3>2
  <2>3. 0 \in 0..N
    BY <1>1
  <2> HIDE DEF X, base, step, Body
  <2> QED
    BY <2>1, <2>2, <2>3
<1> HIDE DEF step
<1>9. Rule(f)
  <2> DEFINE Value(k) == [c \in Args |->
               IF k = 0 THEN c[1]
               ELSE Compiler!Leave(Compiler!Neighbors(def, f[k - 1], Compiler!Enter(c[1], c[2]), c[2]), c[2])]
  <2>1. ASSUME NEW k \in 0..N PROVE f[k] = Value(k)
    <3>1. CASE k = 0
      BY <1>8, <3>1
    <3>2. CASE k # 0
      <4>1. Value(k) = Body(f[k - 1])
        BY <3>2
      <4> HIDE DEF Value, Body
      <4> QED
        BY <1>8, <3>2, <4>1
    <3> QED
      BY <3>1, <3>2
  <2>2. f = [k \in 0..N |-> f[k]]
    <3> HIDE DEF X
    <3> QED
      BY <1>8
  <2>3. f = [k \in 0..N |-> Value(k)]
    <3> HIDE DEF Value
    <3> QED
      BY <2>1, <2>2
  <2> QED
    BY <2>3
<1>10. Rule(calls)
  <2> HIDE DEF Rule
  <2> QED
    BY <1>9
<1> HIDE DEF calls
<1>11. calls[0] = base /\ \A k \in 0..N : k # 0 => calls[k] = Body(calls[k - 1])
  <2>1. 0 \in 0..N
    BY <1>1
  <2>2. calls[0] = base
    BY <1>10, <2>1
  <2>3. ASSUME NEW k \in 0..N, k # 0 PROVE calls[k] = Body(calls[k - 1])
    BY <1>10, <2>3
  <2> QED
    BY <2>2, <2>3
<1> DEFINE P == {k \in 0..N : Works(calls[k], k)}
<1>12. 0 \in P
  <2>1. calls[0] \in X
    BY <1>6, <1>11
  <2>2. ASSUME NEW s \in SearchStates, NEW n \in Task, Entry(s, n), Cardinality(Task \ s.visited) <= 0
        PROVE  FALSE
    <3>1. IsFiniteSet(Task \ s.visited) /\ n \in Task \ s.visited
      BY <2>2, FS_Subset DEF Entry
    <3>2. Cardinality(Task \ s.visited) \in Nat /\ Cardinality(Task \ s.visited) # 0
      BY <3>1, FS_CardinalityType, FS_EmptySet
    <3> QED
      BY <2>2, <3>2
  <2>3. Works(calls[0], 0)
    BY <1>0, <2>1, <2>2 DEF Works
  <2> QED
    BY <1>1, <2>3
<1>13. ASSUME NEW k \in 0..(N - 1), k \in P PROVE k + 1 \in P
  <2>1. k + 1 \in 0..N /\ k + 1 # 0 /\ (k + 1) - 1 = k /\ k \in Nat
    BY <1>1
  <2>2. Works(calls[k], k) /\ calls[k] \in X
    BY <1>0, <1>13 DEF Works
  <2>3. calls[k + 1] = Body(calls[k])
    <3> HIDE DEF Body
    <3> QED
      BY <1>11, <2>1
  <2>4. calls[k + 1] \in X
    <3> HIDE DEF Body, X
    <3> QED
      BY <1>4, <2>2, <2>3
  <2>5. ASSUME NEW s \in SearchStates, NEW n \in Task, Entry(s, n),
               Cardinality(Task \ s.visited) <= k + 1
        PROVE  Outcome(s, n, calls[k + 1][<<s, n>>])
    <3>1. <<s, n>> \in Args /\ <<s, n>>[1] = s /\ <<s, n>>[2] = n
      BY <1>0
    <3>2. calls[k + 1][<<s, n>>] =
            Compiler!Leave(Compiler!Neighbors(def, calls[k], Compiler!Enter(s, n), n), n)
      <4> HIDE DEF Args
      <4> QED
        BY <2>3, <3>1
    <3> QED
      BY <2>1, <2>2, <2>5, <3>2, CallWorks
  <2>6. Works(calls[k + 1], k + 1)
    BY <1>0, <2>4, <2>5 DEF Works
  <2> QED
    BY <2>1, <2>6
<1>14. Works(calls[N], N)
  <2>1. 0 \in Int /\ N \in Int /\ N \in 0..N
    BY <1>1
  <2> HIDE DEF P
  <2>2. N \in P
    BY <1>12, <1>13, <2>1, IntervalInduction
  <2> QED
    BY <2>2 DEF P
<1> QED
  BY <1>1, <1>3, <1>14

(* The loop over the tasks of the definition. *)
Root(def, s, n) == IF s.found \/ n \in s.visited THEN s ELSE Compiler!HasCycle(def, s, n)

Rooted(def, s, i) ==
  IF s.found THEN CycleWithin(Task)
  ELSE Sound(s) /\ s.recStack = {} /\ \A j \in 1..i : def[j].id \in s.visited

LEMMA RootKept ==
  ASSUME ValTypeOK, ReferencesKnown, IsFiniteSet(Task), NEW def, Describes(def),
         NEW i \in Nat, def[i + 1].id \in Task, NEW s \in SearchStates, Rooted(def, s, i)
  PROVE  /\ Root(def, s, def[i + 1].id) \in SearchStates
         /\ Rooted(def, Root(def, s, def[i + 1].id), i + 1)
<1> DEFINE n == def[i + 1].id
           r == Root(def, s, n)
<1>1. \A j \in 1..(i + 1) : j \in 1..i \/ j = i + 1
  OBVIOUS
<1>2. CASE s.found
  BY <1>2 DEF Root, Rooted
<1>3. CASE ~ s.found /\ n \in s.visited
  <2>1. r = s
    BY <1>3 DEF Root
  <2>2. Rooted(def, s, i + 1)
    BY <1>1, <1>3 DEF Rooted
  <2> QED
    BY <2>1, <2>2
<1>4. CASE ~ s.found /\ n \notin s.visited
  <2>1. PICK call : /\ Works(call, Cardinality(Task))
                    /\ \A x, y : Compiler!HasCycle(def, x, y) = call[<<x, y>>]
    BY HasCycleWorks
  <2>2. r = call[<<s, n>>]
    BY <1>4, <2>1 DEF Root
  <2> HIDE DEF n, r
  <2>3. n \in Task
    BY DEF n
  <2>4. <<s, n>> \in SearchStates \X Task
    BY <2>3
  <2>5. r \in SearchStates
    BY <2>1, <2>2, <2>4 DEF Works, Calls
  <2>6. Cardinality(Task \ s.visited) <= Cardinality(Task)
    BY FS_Subset
  <2>7. Entry(s, n)
    BY <1>4 DEF Entry, Rooted
  <2>8. Outcome(s, n, r)
    BY <2>1, <2>2, <2>3, <2>6, <2>7 DEF Works
  <2>9. CASE r.found
    BY <2>5, <2>8, <2>9 DEF Outcome, Rooted, r, n
  <2>10. CASE ~ r.found
    <3>1. Sound(r) /\ r.recStack = {} /\ s.visited \cup {n} \subseteq r.visited
      BY <1>4, <2>8, <2>10 DEF Outcome, Rooted
    <3>2. \A j \in 1..(i + 1) : def[j].id \in r.visited
      BY <1>1, <1>4, <3>1 DEF Rooted, n
    <3> QED
      BY <2>5, <2>10, <3>1, <3>2 DEF Rooted, r, n
  <2> QED
    BY <2>9, <2>10
<1> QED
  BY <1>2, <1>3, <1>4

(* What the tasks of a definition are to the workflow: each once.          *)
Lists(def, n) ==
  /\ DOMAIN def = 1..n /\ Len(def) = n
  /\ \A i \in 1..n : def[i].id \in Task /\ def[i].dependencies = deps[def[i].id]
  /\ \A t \in Task : \E i \in 1..n : def[i].id = t
  /\ \A i, j \in 1..n : def[i].id = def[j].id => i = j

LEMMA SearchWorks ==
  ASSUME ValTypeOK, ReferencesKnown, IsFiniteSet(Task), NEW n \in Nat, NEW def,
         Lists(def, n), Describes(def)
  PROVE  Compiler!Validate(def) <=> ~ CycleWithin(Task)
<1> DEFINE Rule(f) == f = [i \in 0..n |-> IF i = 0 THEN Compiler!NoNodeSeen
                                          ELSE Root(def, f[i - 1], def[i].id)]
           after == CHOOSE f : Rule(f)
           step == [p \in SearchStates \X Int |->
                      IF p[2] \in 1..n /\ Root(def, p[1], def[p[2]].id) \in SearchStates
                        THEN Root(def, p[1], def[p[2]].id) ELSE Compiler!NoNodeSeen]
           none == Compiler!NoNodeSeen
<1>1. none \in SearchStates /\ Rooted(def, none, 0)
  <2>1. none \in SearchStates /\ none.visited = {} /\ none.recStack = {} /\ ~ none.found
    BY DEF Compiler!NoNodeSeen, SearchStates
  <2>2. Finished(none) = {}
    BY <2>1 DEF Finished
  <2>3. Sound(none)
    BY <2>1, <2>2 DEF Sound, CycleWithin
  <2> HIDE DEF none
  <2>4. \A j \in 1..0 : FALSE
    OBVIOUS
  <2> QED
    BY <2>1, <2>3, <2>4 DEF Rooted
<1>2. ASSUME NEW s \in SearchStates, NEW m \in Task PROVE Root(def, s, m) \in SearchStates
  <2>1. PICK call : /\ Works(call, Cardinality(Task))
                    /\ \A x, y : Compiler!HasCycle(def, x, y) = call[<<x, y>>]
    BY HasCycleWorks
  <2>2. <<s, m>> \in SearchStates \X Task
    OBVIOUS
  <2>3. call[<<s, m>>] \in SearchStates
    BY <2>1, <2>2 DEF Works, Calls
  <2> QED
    BY <2>1, <2>3 DEF Root
<1>3. step \in LoopSteps(SearchStates)
  BY <1>1 DEF LoopSteps
<1>4. PICK f : LoopRuns(f, SearchStates, 0, n, none, step)
  <2> HIDE DEF step, none
  <2>1. 0 \in Int /\ n \in Int /\ 0 <= n
    OBVIOUS
  <2> QED
    BY <1>1, <1>3, <2>1, IntervalRecursion
<1>5. f \in [0..n -> SearchStates] /\ \A i \in 0..n : f[i] = IF i = 0
                                                               THEN none
                                                               ELSE step[<<f[i - 1], i>>]
  <2> HIDE DEF step, none
  <2> QED
    BY <1>4 DEF LoopRuns
<1>6. ASSUME NEW i \in 0..n, i # 0 PROVE step[<<f[i - 1], i>>] = Root(def, f[i - 1], def[i].id)
  <2>1. i - 1 \in 0..n /\ i \in Int /\ i \in 1..n
    BY <1>6
  <2>2. f[i - 1] \in SearchStates /\ def[i].id \in Task
    BY <1>5, <2>1 DEF Lists
  <2>3. <<f[i - 1], i>> \in SearchStates \X Int
    BY <2>1, <2>2
  <2>4. Root(def, f[i - 1], def[i].id) \in SearchStates
    BY <1>2, <2>2
  <2> QED
    BY <2>1, <2>3, <2>4
<1>7. Rule(f)
  <2>1. f = [i \in 0..n |-> f[i]]
    BY <1>5
  <2>2. \A i \in 0..n : f[i] = IF i = 0 THEN none ELSE Root(def, f[i - 1], def[i].id)
    <3> HIDE DEF step, none
    <3> QED
      BY <1>5, <1>6
  <2> QED
    BY <2>1, <2>2
<1>8. Rule(after)
  <2> HIDE DEF Rule
  <2> QED
    BY <1>7
<1>9. Compiler!Validate(def) <=>
        /\ ~ after[n].found
        /\ \A i \in DOMAIN def : Compiler!ToSet(def[i].dependencies) \subseteq {def[j].id : j \in DOMAIN def}
  <2>1. Len(def) = n
    BY DEF Lists
  <2> QED
    BY <2>1 DEF Compiler!Validate, Root
<1> HIDE DEF after, step
<1>10. after[0] = none /\ \A i \in 0..n : i # 0 => after[i] = Root(def, after[i - 1], def[i].id)
  <2>1. 0 \in 0..n
    OBVIOUS
  <2> HIDE DEF none
  <2> QED
    BY <1>8, <2>1 DEF none
<1> DEFINE P == {i \in 0..n : after[i] \in SearchStates /\ Rooted(def, after[i], i)}
<1>11. 0 \in P
  BY <1>1, <1>10
<1>12. ASSUME NEW i \in 0..(n - 1), i \in P PROVE i + 1 \in P
  <2>1. i + 1 \in 0..n /\ i + 1 # 0 /\ (i + 1) - 1 = i /\ i \in Nat /\ i + 1 \in 1..n
    OBVIOUS
  <2>2. after[i + 1] = Root(def, after[i], def[i + 1].id)
    BY <1>10, <2>1
  <2>3. def[i + 1].id \in Task
    BY <2>1 DEF Lists
  <2>4. after[i] \in SearchStates /\ Rooted(def, after[i], i)
    BY <1>12
  <2> QED
    BY <2>1, <2>2, <2>3, <2>4, RootKept
<1>13. after[n] \in SearchStates /\ Rooted(def, after[n], n)
  <2>1. 0 \in Int /\ n \in Int /\ n \in 0..n
    OBVIOUS
  <2> HIDE DEF P
  <2>2. n \in P
    BY <1>11, <1>12, <2>1, IntervalInduction
  <2> QED
    BY <2>2 DEF P
<1>14. after[n].found <=> CycleWithin(Task)
  <2>1. CASE after[n].found
    BY <1>13, <2>1 DEF Rooted
  <2>2. CASE ~ after[n].found
    <3>1. Sound(after[n]) /\ after[n].recStack = {} /\ \A j \in 1..n : def[j].id \in after[n].visited
      BY <1>13, <2>2 DEF Rooted
    <3>2. Task \subseteq after[n].visited
      BY <3>1 DEF Lists
    <3>3. Finished(after[n]) = Task
      BY <1>13, <3>1, <3>2 DEF Finished, SearchStates
    <3> QED
      BY <2>2, <3>1, <3>3 DEF Sound
  <2> QED
    BY <2>1, <2>2
<1>15. \A i \in DOMAIN def : Compiler!ToSet(def[i].dependencies) \subseteq {def[j].id : j \in DOMAIN def}
  <2> SUFFICES ASSUME NEW i \in 1..n
               PROVE  Compiler!ToSet(def[i].dependencies) \subseteq {def[j].id : j \in 1..n}
    BY DEF Lists
  <2>1. Compiler!ToSet(def[i].dependencies) = DepSet(def[i].id) /\ def[i].id \in Task
    BY DEF Lists, Compiler!ToSet, DepSet
  <2>2. Task \subseteq {def[j].id : j \in 1..n}
    BY DEF Lists
  <2> QED
    BY <2>1, <2>2 DEF ReferencesKnown
<1> QED
  BY <1>9, <1>14, <1>15

(* A definition that lists the workflow has its tasks, once each. *)
LEMMA SeqLen ==
  ASSUME NEW n \in Nat, NEW s, NEW S, s \in [1..n -> S]
  PROVE  s \in Seq(S) /\ DOMAIN s = 1..n /\ Len(s) = n
OBVIOUS

LEMMA OrderLists ==
  ASSUME ValTypeOK, IsFiniteSet(Task), NEW order \in SetToSeqs(Task)
  PROVE  /\ Cardinality(Task) \in Nat
         /\ order \in Seq(Task) /\ Len(order) = Cardinality(Task)
         /\ Lists(Definition(order), Cardinality(Task))
<1> DEFINE n == Cardinality(Task)
           def == Definition(order)
<1>1. n \in Nat
  BY FS_CardinalityType
<1>2. order \in [1..n -> Task] /\ \A i, j \in 1..n : i # j => order[i] # order[j]
  BY DEF SetToSeqs
<1> HIDE DEF n
<1>3. IsFiniteSet(1..n) /\ Cardinality(1..n) = Cardinality(Task)
  <2>1. IsFiniteSet(1..n) /\ Cardinality(1..n) = IF 1 > n THEN 0 ELSE n - 1 + 1
    BY <1>1, FS_Interval
  <2> QED
    BY <1>1, <2>1 DEF n
<1>4. order \in Surjection(1..n, Task)
  <2>1. order \in Injection(1..n, Task)
    BY <1>2 DEF Injection, IsInjective
  <2> QED
    BY <1>3, <2>1, FS_Injection
<1>5. \A t \in Task : \E i \in 1..n : order[i] = t
  BY <1>4 DEF Surjection
<1>6. order \in Seq(Task) /\ Len(order) = n
  BY <1>1, <1>2, SeqLen
<1>7. DOMAIN def = 1..n /\ \A i \in 1..n : def[i].id = order[i] /\ def[i].dependencies = deps[order[i]]
  BY <1>2 DEF Definition
<1>8. Len(def) = n
  <2>1. def \in [1..n -> {def[i] : i \in 1..n}]
    BY <1>2 DEF Definition
  <2> HIDE DEF def
  <2> QED
    BY <1>1, <2>1, SeqLen
<1> HIDE DEF def
<1>9. Lists(def, n)
  BY <1>2, <1>5, <1>7, <1>8 DEF Lists
<1> QED
  BY <1>1, <1>6, <1>9 DEF n, def

LEMMA ListDescribes ==
  ASSUME ValTypeOK, NEW n \in Nat, NEW def, Lists(def, n)
  PROVE  /\ \A t \in Task : Compiler!Adj(def, t) = deps[t]
         /\ ReferencesKnown => Describes(def)
<1>1. ASSUME NEW t \in Task PROVE Compiler!Adj(def, t) = deps[t]
  <2> DEFINE defs == {i \in DOMAIN def : def[i].id = t}
  <2>1. PICK i \in 1..n : def[i].id = t
    BY DEF Lists
  <2>2. defs = {i}
    BY <2>1 DEF Lists
  <2>3. Compiler!Max(defs) = i
    BY <2>2 DEF Compiler!Max
  <2>4. Compiler!Adj(def, t) = def[i].dependencies
    BY <2>2, <2>3 DEF Compiler!Adj
  <2> QED
    BY <2>1, <2>4 DEF Lists
<1>2. ASSUME ReferencesKnown PROVE Compiler!Nodes(def) = Task
  <2>1. DOMAIN def = 1..n
    BY DEF Lists
  <2>2. \A i \in 1..n : def[i].id \in Task /\ Compiler!ToSet(def[i].dependencies) \subseteq Task
    BY <1>2 DEF Lists, Compiler!ToSet, ReferencesKnown, DepSet
  <2>3. \A t \in Task : \E i \in 1..n : def[i].id = t
    BY DEF Lists
  <2> QED
    BY <2>1, <2>2, <2>3 DEF Compiler!Nodes
<1> QED
  BY <1>1, <1>2 DEF Describes

(* What compiles, and to what. *)
LEMMA ListCompiles ==
  ASSUME ValTypeOK, IsFiniteSet(Task), NEW n \in Nat, NEW def, Lists(def, n)
  PROVE  Compiler!Compile(def) =
           IF ReferencesKnown /\ ~ CycleWithin(Task) THEN {deps} ELSE {}
<1>1. Compiler!Validate(def) <=> ReferencesKnown /\ ~ CycleWithin(Task)
  <2>1. CASE ReferencesKnown
    BY <2>1, ListDescribes, SearchWorks
  <2>2. CASE ~ ReferencesKnown
    <3>1. PICK t \in Task : ~ (DepSet(t) \subseteq Task)
      BY <2>2 DEF ReferencesKnown
    <3>2. PICK i \in 1..n : def[i].id = t
      BY DEF Lists
    <3>3. Compiler!ToSet(def[i].dependencies) = DepSet(t)
      BY <3>2 DEF Lists, Compiler!ToSet, DepSet
    <3>4. {def[j].id : j \in DOMAIN def} \subseteq Task /\ i \in DOMAIN def
      BY DEF Lists
    <3>5. ~ (Compiler!ToSet(def[i].dependencies) \subseteq {def[j].id : j \in DOMAIN def})
      BY <3>1, <3>3, <3>4
    <3>6. Compiler!Validate(def) =>
            \A k \in DOMAIN def : Compiler!ToSet(def[k].dependencies) \subseteq {def[j].id : j \in DOMAIN def}
      BY DEF Compiler!Validate
    <3> QED
      BY <2>2, <3>4, <3>5, <3>6
  <2> QED
    BY <2>1, <2>2
<1>2. \A i, j \in DOMAIN def : def[i].id = def[j].id => i = j
  BY DEF Lists
<1>3. [id \in {def[i].id : i \in DOMAIN def} |-> Compiler!Adj(def, id)] = deps
  <2>1. {def[i].id : i \in DOMAIN def} = Task
    BY DEF Lists
  <2>2. \A t \in Task : Compiler!Adj(def, t) = deps[t]
    BY ListDescribes
  <2>3. deps = [t \in Task |-> deps[t]]
    BY DEF ValTypeOK
  <2> QED
    BY <2>1, <2>2, <2>3
<1> QED
  BY <1>1, <1>2, <1>3 DEF Compiler!Compile

(* A task that is listed again is refused. *)
LEMMA RepeatRefused ==
  ASSUME NEW n \in Nat, NEW order \in [1..n -> Task], NEW t \in Task, NEW m \in 1..n, order[m] = t
  PROVE  Compiler!Compile(Definition(Append(order, t))) = {}
<1> DEFINE longer == Append(order, t)
           def == Definition(longer)
<1>1. order \in Seq(Task) /\ Len(order) = n
  BY SeqLen
<1>2. DOMAIN longer = 1..(n + 1) /\ longer[m] = t /\ longer[n + 1] = t
  BY <1>1
<1> HIDE DEF longer
<1>3. DOMAIN def = 1..(n + 1) /\ def[m].id = t /\ def[n + 1].id = t
  BY <1>2 DEF Definition
<1> HIDE DEF def
<1>4. m \in DOMAIN def /\ n + 1 \in DOMAIN def /\ def[m].id = def[n + 1].id /\ m # n + 1
  BY <1>3
<1>5. ~ (\A i, j \in DOMAIN def : def[i].id = def[j].id => i = j)
  BY <1>4
<1>6. Compiler!Compile(def) = {}
  BY <1>5 DEF Compiler!Compile
<1> QED
  BY <1>6 DEF def, longer

(* The other errors of the validator are about what they say, too. *)
ErrorsMeant ==
  /\ check = "ErrTaskNotFound" => ~ ReferencesKnown
  /\ check = "ErrSelfDependency" => CycleWithin(Task)

LEMMA ErrorsStayMeant ==
  ASSUME TopoInv, ErrorsMeant, [Next]_vars
  PROVE  ErrorsMeant'
<1>1. CASE UNCHANGED valVars
  <2>1. deps' = deps /\ check' = check
    BY <1>1 DEF valVars
  <2> QED
    BY <2>1, GraphUnchanged DEF ErrorsMeant
<1>2. CASE Validate
  <2>1. deps' = deps
    BY <1>2, ValidateFrame
  <2>2. (ReferencesKnown' <=> ReferencesKnown) /\ (CycleWithin(Task)' <=> CycleWithin(Task))
    BY <2>1, GraphUnchanged
  <2>3. ASSUME check' = "ErrTaskNotFound" PROVE check = "ErrTaskNotFound" \/ ~ ReferencesKnown
    BY <1>2, <2>3 DEF Validate, ValidateTaskReferences, ValidateSelfDependencies, VisitRoot,
       FindCycle, Descend, NextDependency, Return, Accept, Call
  <2>4. ASSUME check' = "ErrSelfDependency"
        PROVE  check = "ErrSelfDependency" \/ ~ NoSelfDependency
    BY <1>2, <2>4 DEF Validate, ValidateTaskReferences, ValidateSelfDependencies, VisitRoot,
       FindCycle, Descend, NextDependency, Return, Accept, Call
  <2>5. ~ NoSelfDependency => CycleWithin(Task)
    <3> SUFFICES ASSUME NEW t \in Task, t \in DepSet(t) PROVE CycleWithin(Task)
      BY DEF NoSelfDependency
    <3>1. {t} \in SUBSET Task /\ {t} # {} /\ \A u \in {t} : DepSet(u) \cap {t} # {}
      OBVIOUS
    <3> QED
      BY <3>1 DEF CycleWithin
  <2> QED
    BY <2>2, <2>3, <2>4, <2>5 DEF ErrorsMeant
<1> QED
  BY <1>1, <1>2 DEF Next, vars, ValidateStep, BuildIndegreeMap, CollectLevel, DecrementNeighbors,
     Finish

(* The compiler the command line runs and the validator the executor runs  *)
(* agree on every workflow of finitely many tasks (workflow.Tasks is a     *)
(* map), in whatever order the definition lists them: what is accepted by  *)
(* one is accepted by the other, and is the same workflow (dsl.go:61-139,  *)
(* validator.go).                                                          *)
THEOREM CompilersAgree ==
  ASSUME IsFiniteSet(Task)
  PROVE  Spec => []CompilerAgrees
<1>1. Init => ErrorsMeant
  BY DEF Init, ValInit, ErrorsMeant
<1>2. TopoInv /\ ErrorsMeant /\ [Next]_vars => ErrorsMeant'
  BY ErrorsStayMeant
<1>3. TopoInv /\ ErrorsMeant => CompilerAgrees
  <2> SUFFICES ASSUME TopoInv, ErrorsMeant, check \in Verdicts, NEW order \in SetToSeqs(Task)
               PROVE  /\ Compiler!Compile(Definition(order)) = IF check = "valid"
                                                                 THEN {deps}
                                                                 ELSE {}
                      /\ \A t \in Task : Compiler!Compile(Definition(Append(order, t))) = {}
    BY DEF CompilerAgrees
  <2>1. ValTypeOK /\ VerdictCorrect
    BY ValInvVerdict DEF TopoInv, ValInv
  <2>2. check = "valid" <=> ReferencesKnown /\ ~ CycleWithin(Task)
    BY <2>1 DEF VerdictCorrect, ErrorsMeant, Verdicts, Errors
  <2>3. Compiler!Compile(Definition(order)) = IF check = "valid" THEN {deps} ELSE {}
    BY <2>1, <2>2, OrderLists, ListCompiles
  <2>4. ASSUME NEW t \in Task PROVE Compiler!Compile(Definition(Append(order, t))) = {}
    <3> DEFINE n == Cardinality(Task)
    <3>1. n \in Nat /\ order \in [1..n -> Task]
      BY <2>1, OrderLists DEF SetToSeqs
    <3>2. Lists(Definition(order), n) /\ DOMAIN order = 1..n
      BY <2>1, <3>1, OrderLists
    <3>3. \E m \in 1..n : order[m] = t
      BY <3>2 DEF Lists, Definition
    <3> QED
      BY <3>1, <3>3, RepeatRefused
  <2> QED
    BY <2>3, <2>4
<1> QED
  BY <1>1, <1>2, <1>3, TopoAlways, PTL DEF Spec
=============================================================================
