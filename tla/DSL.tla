-------------------------------- MODULE DSL --------------------------------
(***************************************************************************)
(* The compiler of declarative workflows, internal/dsl/dsl.go, as a        *)
(* function of the parsed definition: a sequence of task definitions       *)
(* [id, dependencies].  Compile answers the set of the compiled workflow   *)
(* (the dependencies of its tasks, by id), empty for an error.  Its cycle  *)
(* search is a second one, written apart from internal/dag: depth first in *)
(* the order of the definition, and before anybody has looked for unknown  *)
(* ids.                                                                    *)
(***************************************************************************)
EXTENDS Naturals, Sequences, SequencesExt, FiniteSetsExt

(* A later definition of an id hides an earlier one; an id that is not     *)
(* defined has no dependencies, as a missing key of a Go map.              *)
Adj(def, node) ==
  LET defs == {i \in DOMAIN def : def[i].id = node}
  IN  IF defs = {} THEN <<>> ELSE def[Max(defs)].dependencies

(* The maps visited and recStack, and whether a call has returned true.    *)
NoNodeSeen == [visited |-> {}, recStack |-> {}, found |-> FALSE]

Enter(s, node) == [s EXCEPT !.visited = @ \cup {node}, !.recStack = @ \cup {node}]

(* Mutant of Leave: recStack[node] stays true. *)
StayOnStack(s, node) == s

Leave(s, node) == IF s.found THEN s ELSE [s EXCEPT !.recStack = @ \ {node}]

(* What a definition mentions, and the states of the two maps over it.     *)
Nodes(def) == UNION {{def[i].id} \cup ToSet(def[i].dependencies) : i \in DOMAIN def}
States(def) == [visited : SUBSET Nodes(def), recStack : SUBSET Nodes(def), found : BOOLEAN]

(* The loop of a call over the neighbours of its node, from state s on;    *)
(* nested is what the calls it makes do to a state.                        *)
Neighbors(def, nested, s, node) ==
  LET list == Adj(def, node)
      after[i \in 0..Len(list)] ==
        IF i = 0 THEN s
        ELSE LET r == after[i - 1]
                 n == list[i]
             IN  CASE r.found                        -> r
                   [] ~r.found /\ n \notin r.visited -> nested[<<r, n>>]
                   [] ~r.found /\ n \in r.visited    -> [r EXCEPT !.found = n \in r.recStack]
  IN  after[Len(list)]

(* calls[k] is a call that nests less than k deep.  Every call visits a    *)
(* new node, so that none nests deeper than there are nodes.               *)
HasCycle(def, s, node) ==
  LET calls[k \in 0..Cardinality(Nodes(def))] ==
        [c \in States(def) \X Nodes(def) |->
           IF k = 0 THEN c[1]
           ELSE Leave(Neighbors(def, calls[k - 1], Enter(c[1], c[2]), c[2]), c[2])]
  IN  calls[Cardinality(Nodes(def))][<<s, node>>]

Validate(def) ==
  LET after[i \in 0..Len(def)] ==
        IF i = 0 THEN NoNodeSeen
        ELSE LET s == after[i - 1]
             IN  IF s.found \/ def[i].id \in s.visited THEN s ELSE HasCycle(def, s, def[i].id)
      taskIDs == {def[i].id : i \in DOMAIN def}
  IN  /\ ~after[Len(def)].found
      /\ \A i \in DOMAIN def : ToSet(def[i].dependencies) \subseteq taskIDs

(* Compile then adds the tasks one by one; AddTask refuses an id it has. *)
Compile(def) ==
  IF Validate(def) /\ \A i, j \in DOMAIN def : def[i].id = def[j].id => i = j
    THEN {[id \in {def[i].id : i \in DOMAIN def} |-> Adj(def, id)]}
    ELSE {}
----------------------------------------------------------------------------
(* core/workflow.go: what ReadyTasks offers when the tasks of completed    *)
(* are COMPLETED and the others PENDING (CanRun: every dependency done).   *)
CanRun(dependencies, completed) == ToSet(dependencies) \subseteq completed

ReadyTasks(workflow, completed) ==
  {t \in DOMAIN workflow \ completed : CanRun(workflow[t], completed)}
=============================================================================
