-------------------------- MODULE ValidatorProofs --------------------------
(***************************************************************************)
(* The depth-first validator decides correctly for every set of tasks and  *)
(* every dependency relation.  The inductive invariant follows the search: *)
(* path is a simple path of the graph, everything reachable from a task    *)
(* the search has left is explored, and what is explored has no cycle.     *)
(***************************************************************************)
EXTENDS Validator, SequenceTheorems, TLAPS

Explored == visited \ recursionStack

PathIsRecursionStack ==
  /\ recursionStack = {path[i] : i \in 1..Len(path)}
  /\ \A i, j \in 1..Len(path) : path[i] = path[j] => i = j

PathFollowsDeps ==
  \A i \in 1..(Len(path) - 1) :
    /\ next[path[i]] \in 1..Len(deps[path[i]])
    /\ deps[path[i]][next[path[i]]] = path[i + 1]

DepsExplored ==
  \A t \in visited : \A i \in 1..Len(deps[t]) :
    i < next[t] => deps[t][i] \in Explored

UnvisitedIsFresh == \A t \in Task \ visited : next[t] = 1

ExploredIsClosed == \A t \in Explored : next[t] > Len(deps[t])

ChecksInOrder ==
  /\ check \in {"references", "selfDependencies"} => visited = {} /\ path = <<>>
  /\ check \notin {"references", "ErrTaskNotFound"} => ReferencesKnown
  /\ check = "valid" => Explored = Task
  /\ check = "ErrCircularDependency" => CycleWithin(Task)

ValInv ==
  /\ ValTypeOK
  /\ PathIsRecursionStack
  /\ PathFollowsDeps
  /\ UnvisitedIsFresh
  /\ DepsExplored
  /\ ExploredIsClosed
  /\ ~ CycleWithin(Explored)
  /\ ChecksInOrder
----------------------------------------------------------------------------
(* What is known of a dependency list. *)
LEMMA DepListType ==
  ASSUME ValTypeOK, NEW t \in Task
  PROVE  /\ deps[t] \in Seq(Name)
         /\ DOMAIN deps[t] = 1..Len(deps[t])
         /\ DepSet(t) = {deps[t][i] : i \in 1..Len(deps[t])}
BY NamesAssumption DEF ValTypeOK, DepSet

(* The task a search is at is on the path, hence on the recursion stack. *)
LEMMA CurrentOnPath ==
  ASSUME ValTypeOK, PathIsRecursionStack, path # <<>>
  PROVE  /\ Len(path) \in Nat \ {0}
         /\ Current \in Task
         /\ Current \in recursionStack
         /\ Current = path[Len(path)]
BY DEF ValTypeOK, PathIsRecursionStack, Current

LEMMA ValInitInv == ValInit => ValInv
<1> SUFFICES ASSUME ValInit PROVE ValInv
  OBVIOUS
<1>1. ValTypeOK
  BY DEF ValInit, ValTypeOK, Verdicts, Errors
<1>2. ~ CycleWithin(Explored)
  BY DEF ValInit, CycleWithin, Explored
<1> QED
  BY <1>1, <1>2 DEF ValInit, ValInv, PathIsRecursionStack, PathFollowsDeps, DepsExplored,
                    ExploredIsClosed, UnvisitedIsFresh, ChecksInOrder, Explored

(* Nothing that is said of the graph changes while the lists do not. *)
LEMMA GraphUnchanged ==
  ASSUME deps' = deps
  PROVE  /\ \A u : DepSet(u)' = DepSet(u)
         /\ ReferencesKnown' <=> ReferencesKnown
         /\ CycleWithin(Task)' <=> CycleWithin(Task)
<1>1. \A u : DepSet(u)' = DepSet(u)
  BY DEF DepSet
<1> QED
  BY <1>1 DEF ReferencesKnown, CycleWithin

(* A call on a task not visited yet extends the path by it. *)
LEMMA CallInv ==
  ASSUME ValInv, check = "cycles", NEW t \in Task, t \notin visited, Call(t),
         path # <<>> => /\ next[Current] \in 1..Len(deps[Current])
                        /\ deps[Current][next[Current]] = t
  PROVE  ValInv'
<1> USE DEF ValInv
<1>1. ValTypeOK'
  BY DEF Call, ValTypeOK
<1>2. /\ Len(path') = Len(path) + 1
      /\ path'[Len(path')] = t
      /\ \A i \in 1..Len(path) : path'[i] = path[i]
  BY DEF Call, ValTypeOK
<1>3. Explored' = Explored
  BY DEF Call, Explored, ValTypeOK
<1>4. PathIsRecursionStack'
  <2>1. Len(path) \in Nat
    BY DEF ValTypeOK
  <2>2. \A i \in 1..Len(path) : path[i] # t
    BY DEF PathIsRecursionStack, ValTypeOK
  <2>3. recursionStack' = {path'[i] : i \in 1..Len(path')}
    BY <1>2, <2>1 DEF PathIsRecursionStack, Call
  <2>4. \A i, j \in 1..Len(path') : path'[i] = path'[j] => i = j
    BY <1>2, <2>1, <2>2 DEF PathIsRecursionStack
  <2> QED
    BY <2>3, <2>4 DEF PathIsRecursionStack
<1>5. PathFollowsDeps'
  <2>1. Len(path) \in Nat /\ Len(path') - 1 = Len(path) /\ deps' = deps /\ next' = next
    BY <1>2 DEF ValTypeOK, Call
  <2>2. SUFFICES ASSUME NEW i \in 1..Len(path)
                 PROVE  /\ next[path'[i]] \in 1..Len(deps[path'[i]])
                        /\ deps[path'[i]][next[path'[i]]] = path'[i + 1]
    BY <2>1 DEF PathFollowsDeps
  <2>3. CASE i = Len(path)
    BY <2>3, <1>2, <2>1 DEF Current
  <2>4. CASE i < Len(path)
    BY <2>4, <1>2, <2>1 DEF PathFollowsDeps
  <2> QED
    BY <2>1, <2>3, <2>4
<1>6. DepsExplored' /\ UnvisitedIsFresh'
  <2>1. next[t] = 1 /\ next' = next /\ deps' = deps /\ visited' = visited \cup {t}
    BY DEF UnvisitedIsFresh, Call
  <2>2. UnvisitedIsFresh'
    BY <2>1 DEF UnvisitedIsFresh
  <2>3. ASSUME NEW u \in visited', NEW i \in 1..Len(deps[u]), i < next[u]
        PROVE  deps[u][i] \in Explored
    BY <2>1, <2>3 DEF DepsExplored
  <2> QED
    BY <2>1, <2>2, <2>3, <1>3 DEF DepsExplored
<1>7. ExploredIsClosed' /\ ~ CycleWithin(Explored)'
  <2>1. deps' = deps /\ next' = next
    BY DEF Call
  <2>2. ExploredIsClosed'
    BY <1>3, <2>1 DEF ExploredIsClosed
  <2>3. ~ CycleWithin(Explored)'
    BY <1>3, <2>1, GraphUnchanged DEF CycleWithin
  <2> QED
    BY <2>2, <2>3
<1>8. ChecksInOrder'
  BY GraphUnchanged DEF ChecksInOrder, Call
<1> QED
  BY <1>1, <1>4, <1>5, <1>6, <1>7, <1>8

(* The call on Dep returned false: Dep is explored. *)
LEMMA NextDependencyInv ==
  ASSUME ValInv, NextDependency
  PROVE  ValInv'
<1> USE DEF ValInv
<1>1. /\ Current \in Task /\ Current \in recursionStack
      /\ next[Current] \in 1..Len(deps[Current])
      /\ Dep = deps[Current][next[Current]]
      /\ Dep \in Explored
      /\ Len(path) \in Nat
  BY CurrentOnPath DEF NextDependency, AtDep, Searching, Dep, Explored, ValTypeOK
<1>2. /\ next' = [next EXCEPT ![Current] = next[Current] + 1]
      /\ UNCHANGED <<deps, check, visited, recursionStack, path>>
  BY DEF NextDependency
<1>3. Explored' = Explored
  BY <1>2 DEF Explored
<1>4. ValTypeOK'
  BY <1>1, <1>2 DEF ValTypeOK
<1>5. PathIsRecursionStack'
  BY <1>2 DEF PathIsRecursionStack
<1>6. PathFollowsDeps'
  <2>1. \A i \in 1..(Len(path) - 1) : path[i] # Current
    BY <1>1 DEF PathIsRecursionStack, Current
  <2>2. \A i \in 1..(Len(path) - 1) : next'[path[i]] = next[path[i]]
    BY <1>2, <2>1, <1>1 DEF ValTypeOK
  <2> QED
    BY <1>2, <2>2 DEF PathFollowsDeps
<1>7. DepsExplored'
  <2>1. SUFFICES ASSUME NEW u \in visited, NEW i \in 1..Len(deps[u]), i < next'[u]
                 PROVE  deps[u][i] \in Explored
    BY <1>2, <1>3 DEF DepsExplored
  <2>2. CASE u = Current /\ i = next[Current]
    BY <2>2, <1>1
  <2>3. CASE ~ (u = Current /\ i = next[Current])
    <3>1. u \in Task /\ next[u] \in Nat
      BY DEF ValTypeOK
    <3>2. i < next[u]
      BY <2>1, <2>3, <3>1, <1>2, <1>1 DEF ValTypeOK
    <3> QED
      BY <3>2 DEF DepsExplored
  <2> QED
    BY <2>2, <2>3
<1>8. UnvisitedIsFresh'
  BY <1>1, <1>2 DEF UnvisitedIsFresh, ValTypeOK
<1>9. ExploredIsClosed'
  <2>1. \A u \in Explored : u # Current /\ u \in Task
    BY <1>1 DEF Explored, ValTypeOK
  <2> QED
    BY <2>1, <1>2, <1>3 DEF ExploredIsClosed, ValTypeOK
<1>10. ~ CycleWithin(Explored)'
  BY <1>2, <1>3, GraphUnchanged DEF CycleWithin
<1>11. ChecksInOrder'
  BY <1>2, <1>3, GraphUnchanged DEF ChecksInOrder
<1> QED
  BY <1>4, <1>5, <1>6, <1>7, <1>8, <1>9, <1>10, <1>11

(* When a task is left, all its dependencies are explored, so adding it to *)
(* the explored tasks closes no cycle: a cycle through it would leave it   *)
(* by an explored task and come back to it from one.                       *)
LEMMA ReturnInv ==
  ASSUME ValInv, Return
  PROVE  ValInv'
<1> USE DEF ValInv
<1> DEFINE cur == Current
<1>1. /\ cur \in Task /\ cur \in recursionStack /\ cur \in visited
      /\ cur \notin Explored
      /\ Len(path) \in Nat \ {0}
      /\ cur = path[Len(path)]
      /\ check = "cycles"
      /\ next[cur] > Len(deps[cur])
  BY CurrentOnPath DEF Return, Searching, Explored, ValTypeOK
<1>2. /\ recursionStack' = recursionStack \ {cur}
      /\ path' = SubSeq(path, 1, Len(path) - 1)
      /\ UNCHANGED <<deps, check, visited, next>>
  BY DEF Return
<1>3. /\ path' \in Seq(Task)
      /\ Len(path') = Len(path) - 1
      /\ \A i \in 1..(Len(path) - 1) : path'[i] = path[i]
  <2> DEFINE n == Len(path) - 1
  <2>1. /\ 1 \in Int /\ n \in Nat
        /\ \A i \in 1..n : path[i] \in Task
    BY <1>1 DEF ValTypeOK
  <2>2. /\ SubSeq(path, 1, n) \in Seq(Task)
        /\ Len(SubSeq(path, 1, n)) = IF 1 <= n THEN n - 1 + 1 ELSE 0
        /\ \A i \in 1..(n - 1 + 1) : SubSeq(path, 1, n)[i] = path[1 + i - 1]
    <3> HIDE DEF n
    <3> QED
      BY <2>1, SubSeqProperties
  <2>3. path' = SubSeq(path, 1, n)
    BY <1>2
  <2>4. /\ Len(path') = n
        /\ \A i \in 1..n : path'[i] = path[i]
    <3> HIDE DEF n
    <3>1. n - 1 + 1 = n /\ (n < 1 => n = 0) /\ \A i \in 1..n : 1 + i - 1 = i
      BY <2>1
    <3> QED
      BY <2>1, <2>2, <2>3, <3>1
  <2> QED
    BY <2>2, <2>3, <2>4
<1>4. Explored' = Explored \cup {cur}
  BY <1>1, <1>2 DEF Explored
<1>5. /\ DepSet(cur) = {deps[cur][i] : i \in 1..Len(deps[cur])}
      /\ Len(deps[cur]) \in Nat
  BY <1>1, DepListType
<1>6. DepSet(cur) \subseteq Explored
  <2>1. \A i \in 1..Len(deps[cur]) : i < next[cur]
    BY <1>1, <1>5 DEF ValTypeOK
  <2> QED
    BY <2>1, <1>1, <1>5 DEF DepsExplored
<1>7. \A u \in Explored : DepSet(u) \subseteq Explored
  <2>1. SUFFICES ASSUME NEW u \in Explored PROVE DepSet(u) \subseteq Explored
    OBVIOUS
  <2>2. /\ u \in Task /\ u \in visited
        /\ DepSet(u) = {deps[u][i] : i \in 1..Len(deps[u])}
        /\ Len(deps[u]) \in Nat
    BY DepListType DEF Explored, ValTypeOK
  <2>3. \A i \in 1..Len(deps[u]) : i < next[u]
    BY <2>2 DEF ExploredIsClosed, ValTypeOK
  <2> QED
    BY <2>2, <2>3 DEF DepsExplored
<1>8. ValTypeOK'
  BY <1>2, <1>3 DEF ValTypeOK
<1>9. PathIsRecursionStack'
  <2>1. \A i \in 1..(Len(path) - 1) : path[i] # cur
    BY <1>1 DEF PathIsRecursionStack
  <2>2. recursionStack' = {path[i] : i \in 1..(Len(path) - 1)}
    BY <1>1, <1>2, <2>1 DEF PathIsRecursionStack
  <2> QED
    BY <1>1, <1>3, <2>2 DEF PathIsRecursionStack
<1>10. PathFollowsDeps'
  BY <1>1, <1>2, <1>3 DEF PathFollowsDeps
<1>11. DepsExplored' /\ UnvisitedIsFresh'
  BY <1>2, <1>4 DEF DepsExplored, UnvisitedIsFresh
<1>12. ExploredIsClosed'
  BY <1>1, <1>2, <1>4 DEF ExploredIsClosed
<1>13. \A u : DepSet(u)' = DepSet(u)
  BY <1>2, GraphUnchanged
<1>14. ~ CycleWithin(Explored \cup {cur})
  <2>1. SUFFICES ASSUME NEW C \in SUBSET (Explored \cup {cur}), C # {},
                        \A u \in C : DepSet(u) \cap C # {}
                 PROVE  FALSE
    BY DEF CycleWithin
  <2>2. \A u \in C \ {cur} : DepSet(u) \cap (C \ {cur}) # {}
    BY <2>1, <1>7, <1>1
  <2>3. C \ {cur} = {}
    BY <2>2 DEF CycleWithin
  <2>4. DepSet(cur) \cap {cur} # {}
    BY <2>1, <2>3
  <2> QED
    BY <2>4, <1>6, <1>1
<1>15. ~ CycleWithin(Explored)'
  BY <1>4, <1>13, <1>14 DEF CycleWithin
<1>16. ChecksInOrder'
  BY <1>1, <1>2, GraphUnchanged DEF ChecksInOrder
<1> QED
  BY <1>8, <1>9, <1>10, <1>11, <1>12, <1>15, <1>16

(* A dependency on the recursion stack closes a cycle: the path from it to *)
(* the current task.                                                       *)
LEMMA FindCycleInv ==
  ASSUME ValInv, FindCycle
  PROVE  ValInv'
<1> USE DEF ValInv
<1>1. /\ Current \in Task
      /\ Current = path[Len(path)]
      /\ Len(path) \in Nat \ {0}
      /\ next[Current] \in 1..Len(deps[Current])
      /\ Dep = deps[Current][next[Current]]
      /\ Dep \in recursionStack
      /\ check = "cycles"
  BY CurrentOnPath DEF FindCycle, AtDep, Searching, Dep, ValTypeOK
<1>2. /\ check' = "ErrCircularDependency"
      /\ UNCHANGED <<deps, visited, recursionStack, path, next>>
  BY DEF FindCycle
<1>3. PICK k \in 1..Len(path) : Dep = path[k]
  BY <1>1 DEF PathIsRecursionStack
<1> DEFINE C == {path[i] : i \in k..Len(path)}
<1>4. C \in SUBSET Task /\ C # {}
  BY <1>1, SMTT(30) DEF ValTypeOK
<1>5. \A u \in C : DepSet(u) \cap C # {}
  <2>1. SUFFICES ASSUME NEW i \in k..Len(path) PROVE DepSet(path[i]) \cap C # {}
    OBVIOUS
  <2>2. /\ path[i] \in Task
        /\ DepSet(path[i]) = {deps[path[i]][j] : j \in 1..Len(deps[path[i]])}
    BY <1>1, DepListType, SMTT(30) DEF ValTypeOK
  <2>3. CASE i = Len(path)
    <3>1. Dep \in C
      BY <1>1, <1>3
    <3>2. Dep \in DepSet(path[i])
      BY <2>2, <2>3, <1>1
    <3> QED
      BY <3>1, <3>2
  <2>4. CASE i < Len(path)
    <3>1. i + 1 \in k..Len(path) /\ i \in 1..(Len(path) - 1)
      BY <2>4, <1>1
    <3>2. path[i + 1] \in DepSet(path[i])
      BY <3>1, <2>2 DEF PathFollowsDeps
    <3> QED
      BY <3>1, <3>2
  <2> QED
    BY <2>3, <2>4, <1>1
<1>6. CycleWithin(Task)
  BY <1>4, <1>5 DEF CycleWithin
<1>7. CycleWithin(Task)' /\ ReferencesKnown'
  BY <1>1, <1>2, <1>6, GraphUnchanged DEF ChecksInOrder
<1>8. ChecksInOrder'
  BY <1>2, <1>7 DEF ChecksInOrder
<1>9. ValTypeOK'
  BY <1>2 DEF ValTypeOK, Verdicts, Errors
<1>10. ~ CycleWithin(Explored)'
  <2>1. Explored' = Explored
    BY <1>2 DEF Explored
  <2> QED
    BY <1>2, <2>1, GraphUnchanged DEF CycleWithin
<1> QED
  BY <1>2, <1>8, <1>9, <1>10
     DEF PathIsRecursionStack, PathFollowsDeps, DepsExplored, UnvisitedIsFresh,
         ExploredIsClosed, Explored

LEMMA ValNextInv == ValInv /\ [Validate]_valVars => ValInv'
<1> SUFFICES ASSUME ValInv, [Validate]_valVars
             PROVE  ValInv'
  OBVIOUS
<1>1. CASE ValidateTaskReferences
  <2>1. UNCHANGED <<deps, visited, recursionStack, path, next>>
    BY <1>1 DEF ValidateTaskReferences
  <2>2. ValTypeOK'
    BY <1>1, <2>1 DEF ValInv, ValTypeOK, ValidateTaskReferences, Verdicts, Errors
  <2>3. ChecksInOrder'
    BY <1>1, <2>1, GraphUnchanged DEF ValInv, ChecksInOrder, ValidateTaskReferences
  <2> QED
    BY <2>1, <2>2, <2>3, GraphUnchanged
       DEF ValInv, PathIsRecursionStack, PathFollowsDeps, DepsExplored, UnvisitedIsFresh,
           ExploredIsClosed, Explored, CycleWithin
<1>2. CASE ValidateSelfDependencies
  <2>1. UNCHANGED <<deps, visited, recursionStack, path, next>>
    BY <1>2 DEF ValidateSelfDependencies
  <2>2. ValTypeOK'
    BY <1>2, <2>1 DEF ValInv, ValTypeOK, ValidateSelfDependencies, Verdicts, Errors
  <2>3. ChecksInOrder'
    BY <1>2, <2>1, GraphUnchanged DEF ValInv, ChecksInOrder, ValidateSelfDependencies
  <2> QED
    BY <2>1, <2>2, <2>3, GraphUnchanged
       DEF ValInv, PathIsRecursionStack, PathFollowsDeps, DepsExplored, UnvisitedIsFresh,
           ExploredIsClosed, Explored, CycleWithin
<1>3. CASE VisitRoot
  <2>1. PICK t \in Task \ visited : Call(t)
    BY <1>3 DEF VisitRoot
  <2> QED
    BY <1>3, <2>1, CallInv DEF VisitRoot
<1>4. CASE FindCycle
  BY <1>4, FindCycleInv
<1>5. CASE Descend
  <2>1. /\ check = "cycles"
        /\ Current \in Task
        /\ next[Current] \in 1..Len(deps[Current])
        /\ Dep = deps[Current][next[Current]]
        /\ Dep \notin visited
        /\ Call(Dep)
    BY <1>5, CurrentOnPath DEF Descend, AtDep, Searching, Dep, ValInv, ValTypeOK
  <2>2. Dep \in Task
    BY <2>1, DepListType DEF ValInv, ChecksInOrder, ReferencesKnown
  <2> QED
    BY <2>1, <2>2, CallInv
<1>6. CASE NextDependency
  BY <1>6, NextDependencyInv
<1>7. CASE Return
  BY <1>7, ReturnInv
<1>8. CASE Accept
  <2>1. /\ UNCHANGED <<deps, visited, recursionStack, path, next>>
        /\ check = "cycles" /\ check' = "valid"
        /\ path = <<>> /\ Task \subseteq visited
    BY <1>8 DEF Accept
  <2>2. Explored = Task
    BY <2>1 DEF ValInv, PathIsRecursionStack, ValTypeOK, Explored
  <2>3. ValTypeOK' /\ ChecksInOrder'
    BY <2>1, <2>2, GraphUnchanged
       DEF ValInv, ValTypeOK, ChecksInOrder, Explored, Verdicts, Errors
  <2> QED
    BY <2>1, <2>3, GraphUnchanged
       DEF ValInv, PathIsRecursionStack, PathFollowsDeps, DepsExplored, UnvisitedIsFresh,
           ExploredIsClosed, Explored, CycleWithin
<1>9. CASE UNCHANGED valVars
  <2>1. UNCHANGED <<deps, check, visited, recursionStack, path, next>>
    BY <1>9 DEF valVars
  <2>2. Explored' = Explored
    BY <2>1 DEF Explored
  <2>3. ValTypeOK' /\ PathIsRecursionStack' /\ PathFollowsDeps'
    BY <2>1 DEF ValInv, ValTypeOK, PathIsRecursionStack, PathFollowsDeps
  <2>4. DepsExplored' /\ UnvisitedIsFresh' /\ ExploredIsClosed'
    BY <2>1, <2>2 DEF ValInv, DepsExplored, UnvisitedIsFresh, ExploredIsClosed
  <2>5. ~ CycleWithin(Explored)' /\ ChecksInOrder'
    BY <2>1, <2>2, GraphUnchanged DEF ValInv, CycleWithin, ChecksInOrder
  <2> QED
    BY <2>3, <2>4, <2>5 DEF ValInv
<1> QED
  BY <1>1, <1>2, <1>3, <1>4, <1>5, <1>6, <1>7, <1>8, <1>9 DEF Validate

LEMMA ValInvVerdict == ValInv => VerdictCorrect
BY DEF ValInv, ChecksInOrder, VerdictCorrect

(* The verdict is correct for every workflow: what the search accepts has  *)
(* only known dependencies and no cycle, what it refuses as circular has   *)
(* one, in whatever order the map yields the roots.                        *)
THEOREM ValidatorCorrect == ValSpec => []VerdictCorrect
<1>1. ValSpec => []ValInv
  BY ValInitInv, ValNextInv, PTL DEF ValSpec
<1> QED
  BY <1>1, ValInvVerdict, PTL
============================================================================
