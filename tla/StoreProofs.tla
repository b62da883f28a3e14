---------------------------- MODULE StoreProofs ----------------------------
(***************************************************************************)
(* Theorems of Store, for every number of workflows, tasks, agents and     *)
(* events.  StoreInv says what the tables of one store owe to each other   *)
(* and what the two stores owe to one another as long as they answered     *)
(* alike; every call keeps it, and the four properties follow from it.     *)
(***************************************************************************)
EXTENDS Store, InductionLemmas

(* The loop that keeps entries is a function of the index, by induction on *)
(* how far it has come.                                                    *)
LEMMA OnlyDefined ==
  ASSUME NEW list \in Seq(Event), NEW S
  PROVE  \E f : /\ f = [i \in 0..Len(list) |->
                     IF i = 0 THEN <<>>
                     ELSE IF list[i] \in S THEN Append(f[i - 1], list[i]) ELSE f[i - 1]]
<1> DEFINE Step(f, i) == IF i = 0 THEN <<>>
                         ELSE IF list[i] \in S THEN Append(f[i - 1], list[i]) ELSE f[i - 1]
           Upto == {n \in Nat : \E f : f = [i \in 0..n |-> Step(f, i)]}
<1>1. 0 \in Upto
  <2>1. [i \in 0..0 |-> <<>>] = [i \in 0..0 |-> Step([j \in 0..0 |-> <<>>], i)]
    OBVIOUS
  <2> QED
    BY <2>1
<1>2. ASSUME NEW n \in Nat, n \in Upto PROVE n + 1 \in Upto
  <2>1. PICK f : f = [i \in 0..n |-> Step(f, i)]
    BY <1>2
  <2> DEFINE g == [i \in 0..(n + 1) |-> IF i = n + 1 THEN Step(f, i) ELSE f[i]]
  <2>2. \A i \in 0..(n + 1) : g[i] = Step(g, i)
    <3>1. SUFFICES ASSUME NEW i \in 0..(n + 1) PROVE g[i] = Step(g, i)
      OBVIOUS
    <3>2. n \in Nat
      BY <1>2
    <3>3. CASE i = n + 1
      <4>1. g[i - 1] = f[i - 1]
        BY <3>2, <3>3
      <4> QED
        BY <3>2, <3>3, <4>1
    <3>4. CASE i # n + 1
      <4>1. i \in 0..n
        BY <3>2, <3>4
      <4>2. i # 0 => g[i - 1] = f[i - 1]
        BY <3>2, <4>1
      <4>3. f[i] = Step(f, i)
        BY <2>1, <4>1
      <4> QED
        BY <3>4, <4>1, <4>2, <4>3
    <3> QED
      BY <3>3, <3>4
  <2>3. g = [i \in 0..(n + 1) |-> Step(g, i)]
    BY <2>2
  <2>4. \E h : h = [i \in 0..(n + 1) |-> Step(h, i)]
    <3> HIDE DEF Step, g
    <3> QED
      BY <2>3
  <2> HIDE DEF Step
  <2> QED
    BY <1>2, <2>4
<1>3. Upto = Nat
  <2> HIDE DEF Upto
  <2>1. Upto \subseteq Nat
    BY DEF Upto
  <2> QED
    BY <1>1, <1>2, <2>1, NatSetInduction
<1>4. Len(list) \in Nat
  OBVIOUS
<1>5. \E f : f = [i \in 0..Len(list) |-> Step(f, i)]
  <2> HIDE DEF Step
  <2> QED
    BY <1>3, <1>4
<1> QED
  BY <1>5

(* Only is what that function is at the end of the list. *)
LEMMA OnlyIs ==
  ASSUME NEW list \in Seq(Event), NEW S
  PROVE  \E f : /\ f = [i \in 0..Len(list) |->
                     IF i = 0 THEN <<>>
                     ELSE IF list[i] \in S THEN Append(f[i - 1], list[i]) ELSE f[i - 1]]
                /\ Only(list, S) = f[Len(list)]
<1> DEFINE Rule(f) == f = [i \in 0..Len(list) |->
                     IF i = 0 THEN <<>>
                     ELSE IF list[i] \in S THEN Append(f[i - 1], list[i]) ELSE f[i - 1]]
           kept == CHOOSE f : Rule(f)
<1>1. Only(list, S) = kept[Len(list)]
  BY DEF Only
<1>2. \E f : Rule(f)
  BY OnlyDefined
<1>3. Rule(kept)
  <2> HIDE DEF Rule
  <2> QED
    BY <1>2
<1> HIDE DEF kept
<1> QED
  BY <1>1, <1>3

(* What the loop keeps is of the list, and of the set. *)
LEMMA OnlyKeeps ==
  ASSUME NEW list \in Seq(Event), NEW S
  PROVE  /\ Only(list, S) \in Seq(Event \cap S)
         /\ Only(list, S) \in Seq(Event)
         /\ ToSet(Only(list, S)) \subseteq ToSet(list)
<1>1. PICK f : /\ f = [i \in 0..Len(list) |->
                     IF i = 0 THEN <<>>
                     ELSE IF list[i] \in S THEN Append(f[i - 1], list[i]) ELSE f[i - 1]]
               /\ Only(list, S) = f[Len(list)]
  BY OnlyIs
<1> DEFINE Of == {e \in Event \cap S : \E j \in 1..Len(list) : list[j] = e}
           Good == {n \in Nat : n <= Len(list) => f[n] \in Seq(Of)}
<1>2. 0 \in Good
  BY <1>1
<1>3. ASSUME NEW n \in Nat, n \in Good PROVE n + 1 \in Good
  <2>1. SUFFICES ASSUME n + 1 <= Len(list) PROVE f[n + 1] \in Seq(Of)
    OBVIOUS
  <2>2. n \in Nat /\ n + 1 \in 1..Len(list) /\ n <= Len(list)
    BY <2>1
  <2>3. f[n] \in Seq(Of)
    BY <1>3, <2>2
  <2>4. f[n + 1] = IF list[n + 1] \in S THEN Append(f[n], list[n + 1]) ELSE f[n]
    <3>1. n + 1 \in 0..Len(list) /\ n + 1 # 0 /\ (n + 1) - 1 = n
      BY <2>2
    <3> QED
      BY <1>1, <3>1
  <2> HIDE DEF Of
  <2>5. list[n + 1] \in S => list[n + 1] \in Of
    BY <2>2 DEF Of
  <2> QED
    BY <2>3, <2>4, <2>5
<1>4. Only(list, S) \in Seq(Of)
  <2>1. Good = Nat
    <3> HIDE DEF Good
    <3>1. Good \subseteq Nat
      BY DEF Good
    <3> QED
      BY <1>2, <1>3, <3>1, NatSetInduction
  <2>2. Len(list) \in Nat /\ Len(list) <= Len(list)
    OBVIOUS
  <2>3. f[Len(list)] \in Seq(Of)
    <3> HIDE DEF Of
    <3> QED
      BY <2>1, <2>2
  <2> QED
    BY <1>1, <2>3
<1>5. Only(list, S) \in Seq(Event \cap S)
  BY <1>4
<1>6. ToSet(Only(list, S)) \subseteq ToSet(list)
  BY <1>4 DEF ToSet
<1>7. Only(list, S) \in Seq(Event)
  BY <1>4
<1> QED
  BY <1>5, <1>6, <1>7

----------------------------------------------------------------------------
(* The inductive invariant. *)

(* A store whose event table is of the set E. *)
StoreOf(E) ==
  [workflow   : [Workflow -> WorkflowRecord \cup {Absent}],
   task       : [Workflow -> [Task -> TaskRecord \cup {Absent}]],
   checkpoint : [Workflow -> Seq(Nat)],
   agent      : [Agent -> Data \cup {Absent}],
   artifact   : [Task -> ArtifactRecord \cup {Absent}],
   event      : E]

Typed ==
  /\ mem \in StoreOf(Seq(Event))
  /\ pg \in StoreOf(SUBSET Event)
  /\ now \in Nat
  /\ taken \subseteq Workflow \X Nat

(* Same records of workflow w in both stores, but for their dates. *)
Alike(w) ==
  /\ Undated(mem.workflow[w]) = Undated(pg.workflow[w])
  /\ \A t \in Task : Undated(mem.task[w][t]) = Undated(pg.task[w][t])
  /\ mem.checkpoint[w] = pg.checkpoint[w]

(* What each store owes to its own tables, and each to the other. *)
OwnTables ==
  /\ NoOrphans
  /\ \A t \in Task : pg.artifact[t] # Absent => pg.workflow[pg.artifact[t].workflow] # Absent

Together ==
  /\ \A w \in Workflow \ split : Alike(w)
  /\ \A t \in Task \ parted : ArtifactsAgree(t)
  /\ mem.agent = pg.agent
  /\ ToSet(mem.event) \subseteq pg.event

StoreInv == Typed /\ OwnTables /\ Together

(* A record that was written is there. *)
LEMMA RecordsExist ==
  /\ Absent \notin WorkflowRecord
  /\ Absent \notin TaskRecord
  /\ Absent \notin ArtifactRecord
<1>1. ASSUME NEW r \in WorkflowRecord \cup TaskRecord \cup ArtifactRecord, r = Absent PROVE FALSE
  <2>1. DOMAIN Absent = {"kind"}
    BY DEF Absent
  <2>2. \/ DOMAIN r = {"status", "created"}
        \/ DOMAIN r = {"status", "listed", "created"}
        \/ DOMAIN r = {"workflow", "data"}
    BY DEF WorkflowRecord, TaskRecord, ArtifactRecord
  <2>3. /\ "kind" # "status" /\ "kind" # "listed" /\ "kind" # "created"
        /\ "kind" # "workflow" /\ "kind" # "data"
    OBVIOUS
  <2> QED
    BY <1>1, <2>1, <2>2, <2>3
<1> QED
  BY <1>1

(* A row written over is a record, the one sent but for its date. *)
LEMMA WrittenOver ==
  ASSUME NEW R \in {WorkflowRecord, TaskRecord}, NEW r \in R, NEW row \in R \cup {Absent}
  PROVE  Over(row, r) \in R /\ Over(row, r) # Absent /\ Undated(Over(row, r)) = Undated(r)
<1>1. Absent \notin R
  BY RecordsExist
<1>2. CASE row = Absent
  BY <1>1, <1>2 DEF Over
<1>3. CASE row # Absent
  <2> DEFINE new == [r EXCEPT !.created = row.created]
  <2>1. Over(row, r) = new
    BY <1>3 DEF Over
  <2>2. new \in R
    BY <1>3 DEF WorkflowRecord, TaskRecord
  <2>3. [new EXCEPT !.created = "undated"] = [r EXCEPT !.created = "undated"]
    BY DEF WorkflowRecord, TaskRecord
  <2> HIDE DEF new
  <2> QED
    BY <1>1, <2>1, <2>2, <2>3 DEF Undated
<1> QED
  BY <1>2, <1>3

(* The date aside, a record tells that it is there and what its status is. *)
LEMMA UndatedTells ==
  ASSUME NEW R \in {WorkflowRecord, TaskRecord},
         NEW r \in R \cup {Absent}, NEW s \in R \cup {Absent}, Undated(r) = Undated(s)
  PROVE  /\ r = Absent <=> s = Absent
         /\ r # Absent => r.status = s.status
<1> DEFINE Date(x) == [x EXCEPT !.created = "undated"]
<1>1. ASSUME NEW x \in R
      PROVE  Date(x).status = x.status /\ "status" \in DOMAIN Date(x)
  <2>1. /\ x \in [status : Status, created : Time] => "status" \in DOMAIN x
        /\ x \in [status : Status, listed : BOOLEAN, created : Time] => "status" \in DOMAIN x
    OBVIOUS
  <2>2. "status" \in DOMAIN x
    BY <2>1 DEF WorkflowRecord, TaskRecord
  <2>3. DOMAIN Date(x) = DOMAIN x
    OBVIOUS
  <2>4. Date(x).status = x.status
    BY <2>2
  <2> QED
    BY <2>2, <2>3, <2>4
<1>2. DOMAIN Absent = {"kind"} /\ "status" # "kind"
  BY DEF Absent
<1>3. \A x \in R : Date(x) # Absent
  BY <1>1, <1>2
<1>4. \A x \in R \cup {Absent} : Undated(x) = IF x = Absent THEN x ELSE Date(x)
  BY DEF Undated
<1> HIDE DEF Date
<1> QED
  BY <1>1, <1>3, <1>4

(* One store: what it is made of determines it, and back. *)
LEMMA Tables ==
  ASSUME NEW E, NEW m
  PROVE  m \in StoreOf(E) =>
           /\ m.workflow \in [Workflow -> WorkflowRecord \cup {Absent}]
           /\ m.task \in [Workflow -> [Task -> TaskRecord \cup {Absent}]]
           /\ m.checkpoint \in [Workflow -> Seq(Nat)]
           /\ m.agent \in [Agent -> Data \cup {Absent}]
           /\ m.artifact \in [Task -> ArtifactRecord \cup {Absent}]
           /\ m.event \in E
BY DEF StoreOf

(* Two empty stores agree. *)
LEMMA InitStore == Init => StoreInv
<1> SUFFICES ASSUME Init PROVE StoreInv
  OBVIOUS
<1>1. Typed
  BY DEF Init, Typed, StoreOf, NewMemoryStore, NewPostgresStore, Empty
<1>2. OwnTables
  BY DEF Init, OwnTables, NoOrphans, NewMemoryStore, NewPostgresStore, Empty
<1>3. Together
  BY DEF Init, Together, Alike, ArtifactsAgree, MemGetArtifact, PgGetArtifact, ToSet,
         NewMemoryStore, NewPostgresStore, Empty
<1> QED
  BY <1>1, <1>2, <1>3 DEF StoreInv

(* SaveWorkflow is an upsert in both. *)
LEMMA SaveWorkflowKeeps ==
  ASSUME StoreInv, NEW w \in Workflow, NEW r \in WorkflowRecord, SaveWorkflow(w, r)
  PROVE  StoreInv'
<1> DEFINE row == Over(pg.workflow[w], r)
<1>1. mem' = [mem EXCEPT !.workflow[w] = r]
  BY DEF SaveWorkflow, OnWorkflow, Both, MemSaveWorkflow, Answer
<1>2. pg' = [pg EXCEPT !.workflow[w] = row]
  BY DEF SaveWorkflow, OnWorkflow, Both, PgSaveWorkflow, Answer
<1>3. now' = now /\ taken' = taken /\ split' = split /\ parted' = parted
  BY DEF SaveWorkflow, OnWorkflow, MemSaveWorkflow, PgSaveWorkflow, Answer, clock
<1>4. Typed
  BY DEF StoreInv
<1>w. row \in WorkflowRecord /\ row # Absent /\ Undated(row) = Undated(r)
  BY <1>4, WrittenOver, Tables DEF Typed
<1> HIDE DEF row
<1>5. Typed'
  BY <1>1, <1>2, <1>3, <1>4, <1>w DEF Typed, StoreOf
<1>6. /\ mem'.workflow = [mem.workflow EXCEPT ![w] = r]
      /\ mem'.task = mem.task /\ mem'.checkpoint = mem.checkpoint /\ mem'.agent = mem.agent
      /\ mem'.artifact = mem.artifact /\ mem'.event = mem.event
  BY <1>1, <1>4 DEF Typed, StoreOf
<1>7. /\ pg'.workflow = [pg.workflow EXCEPT ![w] = row]
      /\ pg'.task = pg.task /\ pg'.checkpoint = pg.checkpoint /\ pg'.agent = pg.agent
      /\ pg'.artifact = pg.artifact /\ pg'.event = pg.event
  BY <1>2, <1>4 DEF Typed, StoreOf
<1>8. r # Absent
  BY RecordsExist
<1>9. OwnTables'
  BY <1>3, <1>4, <1>w, <1>6, <1>7, <1>8, Tables DEF StoreInv, OwnTables, NoOrphans, Typed
<1>10. Together'
  BY <1>3, <1>4, <1>w, <1>6, <1>7, Tables
  DEF StoreInv, Together, Alike, ArtifactsAgree, MemGetArtifact, PgGetArtifact, Typed
<1> QED
  BY <1>5, <1>9, <1>10 DEF StoreInv

(* UpdateWorkflow: both stores refuse a workflow they do not have. *)
LEMMA UpdateWorkflowKeeps ==
  ASSUME StoreInv, NEW w \in Workflow, NEW r \in WorkflowRecord, UpdateWorkflow(w, r)
  PROVE  StoreInv'
<1> DEFINE row == Over(pg.workflow[w], r)
<1>1. mem' = IF mem.workflow[w] # Absent THEN [mem EXCEPT !.workflow[w] = r] ELSE mem
  BY DEF UpdateWorkflow, OnWorkflow, Both, MemUpdateWorkflow, Answer
<1>2. pg' = IF pg.workflow[w] # Absent THEN [pg EXCEPT !.workflow[w] = row] ELSE pg
  BY DEF UpdateWorkflow, OnWorkflow, Both, PgUpdateWorkflow, Answer
<1>3. now' = now /\ taken' = taken /\ parted' = parted
  BY DEF UpdateWorkflow, OnWorkflow, clock
<1>4. split' = IF (mem.workflow[w] # Absent) = (pg.workflow[w] # Absent)
                 THEN split
                 ELSE split \cup {w}
  BY DEF UpdateWorkflow, OnWorkflow, MemUpdateWorkflow, PgUpdateWorkflow, Answer
<1>5. Typed
  BY DEF StoreInv
<1>w. row \in WorkflowRecord /\ row # Absent /\ Undated(row) = Undated(r)
  BY <1>5, WrittenOver, Tables DEF Typed
<1> HIDE DEF row
<1>6. /\ mem'.workflow = IF mem.workflow[w] # Absent
                           THEN [mem.workflow EXCEPT ![w] = r]
                           ELSE mem.workflow
      /\ mem'.task = mem.task /\ mem'.checkpoint = mem.checkpoint /\ mem'.agent = mem.agent
      /\ mem'.artifact = mem.artifact /\ mem'.event = mem.event
  BY <1>1, <1>5 DEF Typed, StoreOf
<1>7. /\ pg'.workflow = IF pg.workflow[w] # Absent
                          THEN [pg.workflow EXCEPT ![w] = row]
                          ELSE pg.workflow
      /\ pg'.task = pg.task /\ pg'.checkpoint = pg.checkpoint /\ pg'.agent = pg.agent
      /\ pg'.artifact = pg.artifact /\ pg'.event = pg.event
  BY <1>2, <1>5 DEF Typed, StoreOf
<1>8. Typed'
  BY <1>1, <1>2, <1>3, <1>5, <1>w DEF Typed, StoreOf
<1>9. OwnTables'
  BY <1>3, <1>5, <1>w, <1>6, <1>7, RecordsExist, Tables
  DEF StoreInv, OwnTables, NoOrphans, Typed
<1>10. Together'
  <2>1. ASSUME NEW v \in Workflow \ split' PROVE Alike(v)'
    <3>1. Alike(v)
      BY <1>4 DEF StoreInv, Together
    <3>2. CASE v # w
      BY <1>5, <1>6, <1>7, <3>1, <3>2, Tables DEF Alike, Typed
    <3>3. CASE v = w
      <4>1. (mem.workflow[w] # Absent) <=> (pg.workflow[w] # Absent)
        BY <1>4, <3>3
      <4> QED
        BY <1>5, <1>w, <1>6, <1>7, <3>1, <3>3, <4>1, Tables DEF Alike, Typed
    <3> QED
      BY <3>2, <3>3
  <2>2. ASSUME NEW u \in Task \ parted' PROVE ArtifactsAgree(u)'
    BY <1>3, <1>6, <1>7 DEF StoreInv, Together, ArtifactsAgree, MemGetArtifact, PgGetArtifact
  <2>3. mem'.agent = pg'.agent
    BY <1>6, <1>7 DEF StoreInv, Together
  <2>4. ToSet(mem'.event) \subseteq pg'.event
    BY <1>6, <1>7 DEF StoreInv, Together
  <2> QED
    BY <2>1, <2>2, <2>3, <2>4 DEF Together
<1> QED
  BY <1>8, <1>9, <1>10 DEF StoreInv

(* SaveTask: both look for the workflow, Postgres for the dependencies     *)
(* too.                                                                    *)
LEMMA SaveTaskKeeps ==
  ASSUME StoreInv, NEW w \in Workflow, NEW t \in Task, NEW r \in TaskRecord, SaveTask(w, t, r)
  PROVE  StoreInv'
<1> DEFINE row == Over(pg.task[w][t], r)
<1>1. mem' = IF mem.workflow[w] # Absent THEN [mem EXCEPT !.task[w][t] = r] ELSE mem
  BY DEF SaveTask, OnWorkflow, Both, MemSaveTask, Answer
<1>2. pg' = IF pg.workflow[w] # Absent /\ r.listed THEN [pg EXCEPT !.task[w][t] = row] ELSE pg
  BY DEF SaveTask, OnWorkflow, Both, PgSaveTask, Answer
<1>3. now' = now /\ taken' = taken /\ parted' = parted
  BY DEF SaveTask, OnWorkflow, clock
<1>4. split' = IF (mem.workflow[w] # Absent) = (pg.workflow[w] # Absent /\ r.listed)
                 THEN split
                 ELSE split \cup {w}
  BY DEF SaveTask, OnWorkflow, MemSaveTask, PgSaveTask, Answer
<1>5. Typed
  BY DEF StoreInv
<1>w. row \in TaskRecord /\ row # Absent /\ Undated(row) = Undated(r)
  BY <1>5, WrittenOver, Tables DEF Typed
<1> HIDE DEF row
<1>6. /\ mem'.task = IF mem.workflow[w] # Absent THEN [mem.task EXCEPT ![w][t] = r] ELSE mem.task
      /\ mem'.workflow = mem.workflow /\ mem'.checkpoint = mem.checkpoint /\ mem'.agent = mem.agent
      /\ mem'.artifact = mem.artifact /\ mem'.event = mem.event
  BY <1>1, <1>5 DEF Typed, StoreOf
<1>7. /\ pg'.task = IF pg.workflow[w] # Absent /\ r.listed
                      THEN [pg.task EXCEPT ![w][t] = row]
                      ELSE pg.task
      /\ pg'.workflow = pg.workflow /\ pg'.checkpoint = pg.checkpoint /\ pg'.agent = pg.agent
      /\ pg'.artifact = pg.artifact /\ pg'.event = pg.event
  BY <1>2, <1>5 DEF Typed, StoreOf
<1>8. Typed'
  BY <1>1, <1>2, <1>3, <1>5, <1>w DEF Typed, StoreOf
<1>9. OwnTables'
  BY <1>3, <1>5, <1>w, <1>6, <1>7, RecordsExist, Tables
  DEF StoreInv, OwnTables, NoOrphans, Typed
<1>10. Together'
  <2>1. ASSUME NEW v \in Workflow \ split' PROVE Alike(v)'
    <3>1. Alike(v)
      BY <1>4 DEF StoreInv, Together
    <3>2. CASE v # w
      BY <1>5, <1>6, <1>7, <3>1, <3>2, Tables DEF Alike, Typed
    <3>3. CASE v = w
      <4>1. (mem.workflow[w] # Absent) <=> (pg.workflow[w] # Absent /\ r.listed)
        BY <1>4, <3>3
      <4>2. mem'.task[w] = IF mem.workflow[w] # Absent
                             THEN [mem.task[w] EXCEPT ![t] = r]
                             ELSE mem.task[w]
        BY <1>5, <1>6, Tables DEF Typed
      <4>3. pg'.task[w] = IF pg.workflow[w] # Absent /\ r.listed
                            THEN [pg.task[w] EXCEPT ![t] = row]
                            ELSE pg.task[w]
        BY <1>5, <1>7, Tables DEF Typed
      <4>4. \A u \in Task : Undated(mem'.task[w][u]) = Undated(pg'.task[w][u])
        <5>1. /\ mem.task[w] \in [Task -> TaskRecord \cup {Absent}]
              /\ pg.task[w] \in [Task -> TaskRecord \cup {Absent}]
          BY <1>5, Tables DEF Typed
        <5> QED
          BY <1>w, <3>1, <3>3, <4>1, <4>2, <4>3, <5>1 DEF Alike
      <4> QED
        BY <1>6, <1>7, <3>1, <3>3, <4>4 DEF Alike
    <3> QED
      BY <3>2, <3>3
  <2>2. ASSUME NEW u \in Task \ parted' PROVE ArtifactsAgree(u)'
    BY <1>3, <1>6, <1>7 DEF StoreInv, Together, ArtifactsAgree, MemGetArtifact, PgGetArtifact
  <2>3. mem'.agent = pg'.agent
    BY <1>6, <1>7 DEF StoreInv, Together
  <2>4. ToSet(mem'.event) \subseteq pg'.event
    BY <1>6, <1>7 DEF StoreInv, Together
  <2> QED
    BY <2>1, <2>2, <2>3, <2>4 DEF Together
<1> QED
  BY <1>8, <1>9, <1>10 DEF StoreInv

(* UpdateTask looks for the task only, whose workflow is there             *)
(* (NoOrphans).                                                        *)
LEMMA UpdateTaskKeeps ==
  ASSUME StoreInv, NEW w \in Workflow, NEW t \in Task, NEW r \in TaskRecord, UpdateTask(w, t, r)
  PROVE  StoreInv'
<1> DEFINE row == Over(pg.task[w][t], r)
<1>1. mem' = IF mem.task[w][t] # Absent THEN [mem EXCEPT !.task[w][t] = r] ELSE mem
  BY DEF UpdateTask, OnWorkflow, Both, MemUpdateTask, Answer
<1>2. pg' = IF pg.task[w][t] # Absent /\ r.listed THEN [pg EXCEPT !.task[w][t] = row] ELSE pg
  BY DEF UpdateTask, OnWorkflow, Both, PgUpdateTask, Answer
<1>3. now' = now /\ taken' = taken /\ parted' = parted
  BY DEF UpdateTask, OnWorkflow, clock
<1>4. split' = IF (mem.task[w][t] # Absent) = (pg.task[w][t] # Absent /\ r.listed)
                 THEN split
                 ELSE split \cup {w}
  BY DEF UpdateTask, OnWorkflow, MemUpdateTask, PgUpdateTask, Answer
<1>5. Typed
  BY DEF StoreInv
<1>w. row \in TaskRecord /\ row # Absent /\ Undated(row) = Undated(r)
  BY <1>5, WrittenOver, Tables DEF Typed
<1> HIDE DEF row
<1>6. /\ mem'.task = IF mem.task[w][t] # Absent THEN [mem.task EXCEPT ![w][t] = r] ELSE mem.task
      /\ mem'.workflow = mem.workflow /\ mem'.checkpoint = mem.checkpoint /\ mem'.agent = mem.agent
      /\ mem'.artifact = mem.artifact /\ mem'.event = mem.event
  BY <1>1, <1>5 DEF Typed, StoreOf
<1>7. /\ pg'.task = IF pg.task[w][t] # Absent /\ r.listed
                      THEN [pg.task EXCEPT ![w][t] = row]
                      ELSE pg.task
      /\ pg'.workflow = pg.workflow /\ pg'.checkpoint = pg.checkpoint /\ pg'.agent = pg.agent
      /\ pg'.artifact = pg.artifact /\ pg'.event = pg.event
  BY <1>2, <1>5 DEF Typed, StoreOf
<1>8. Typed'
  BY <1>1, <1>2, <1>3, <1>5, <1>w DEF Typed, StoreOf
<1>9. OwnTables'
  BY <1>3, <1>5, <1>w, <1>6, <1>7, RecordsExist, Tables
  DEF StoreInv, OwnTables, NoOrphans, Typed
<1>10. Together'
  <2>1. ASSUME NEW v \in Workflow \ split' PROVE Alike(v)'
    <3>1. Alike(v)
      BY <1>4 DEF StoreInv, Together
    <3>2. CASE v # w
      BY <1>5, <1>6, <1>7, <3>1, <3>2, Tables DEF Alike, Typed
    <3>3. CASE v = w
      <4>1. (mem.task[w][t] # Absent) <=> (pg.task[w][t] # Absent /\ r.listed)
        BY <1>4, <3>3
      <4>2. mem'.task[w] = IF mem.task[w][t] # Absent
                             THEN [mem.task[w] EXCEPT ![t] = r]
                             ELSE mem.task[w]
        BY <1>5, <1>6, Tables DEF Typed
      <4>3. pg'.task[w] = IF pg.task[w][t] # Absent /\ r.listed
                            THEN [pg.task[w] EXCEPT ![t] = row]
                            ELSE pg.task[w]
        BY <1>5, <1>7, Tables DEF Typed
      <4>4. \A u \in Task : Undated(mem'.task[w][u]) = Undated(pg'.task[w][u])
        <5>1. /\ mem.task[w] \in [Task -> TaskRecord \cup {Absent}]
              /\ pg.task[w] \in [Task -> TaskRecord \cup {Absent}]
          BY <1>5, Tables DEF Typed
        <5> QED
          BY <1>w, <3>1, <3>3, <4>1, <4>2, <4>3, <5>1 DEF Alike
      <4> QED
        BY <1>6, <1>7, <3>1, <3>3, <4>4 DEF Alike
    <3> QED
      BY <3>2, <3>3
  <2>2. ASSUME NEW u \in Task \ parted' PROVE ArtifactsAgree(u)'
    BY <1>3, <1>6, <1>7 DEF StoreInv, Together, ArtifactsAgree, MemGetArtifact, PgGetArtifact
  <2>3. mem'.agent = pg'.agent
    BY <1>6, <1>7 DEF StoreInv, Together
  <2>4. ToSet(mem'.event) \subseteq pg'.event
    BY <1>6, <1>7 DEF StoreInv, Together
  <2> QED
    BY <2>1, <2>2, <2>3, <2>4 DEF Together
<1> QED
  BY <1>8, <1>9, <1>10 DEF StoreInv

(* DeleteTask: both refuse a task they do not have. *)
LEMMA DeleteTaskKeeps ==
  ASSUME StoreInv, NEW w \in Workflow, NEW t \in Task, DeleteTask(w, t)
  PROVE  StoreInv'
<1>1. mem' = IF mem.task[w][t] # Absent THEN [mem EXCEPT !.task[w][t] = Absent] ELSE mem
  BY DEF DeleteTask, OnWorkflow, Both, MemDeleteTask, Answer
<1>2. pg' = IF pg.task[w][t] # Absent THEN [pg EXCEPT !.task[w][t] = Absent] ELSE pg
  BY DEF DeleteTask, OnWorkflow, Both, PgDeleteTask, Answer
<1>3. now' = now /\ taken' = taken /\ parted' = parted
  BY DEF DeleteTask, OnWorkflow, clock
<1>4. split' = IF (mem.task[w][t] # Absent) = (pg.task[w][t] # Absent)
                 THEN split
                 ELSE split \cup {w}
  BY DEF DeleteTask, OnWorkflow, MemDeleteTask, PgDeleteTask, Answer
<1>5. Typed
  BY DEF StoreInv
<1>6. /\ mem'.task = IF mem.task[w][t] # Absent
                       THEN [mem.task EXCEPT ![w][t] = Absent]
                       ELSE mem.task
      /\ mem'.workflow = mem.workflow /\ mem'.checkpoint = mem.checkpoint /\ mem'.agent = mem.agent
      /\ mem'.artifact = mem.artifact /\ mem'.event = mem.event
  BY <1>1, <1>5 DEF Typed, StoreOf
<1>7. /\ pg'.task = IF pg.task[w][t] # Absent THEN [pg.task EXCEPT ![w][t] = Absent] ELSE pg.task
      /\ pg'.workflow = pg.workflow /\ pg'.checkpoint = pg.checkpoint /\ pg'.agent = pg.agent
      /\ pg'.artifact = pg.artifact /\ pg'.event = pg.event
  BY <1>2, <1>5 DEF Typed, StoreOf
<1>8. Typed'
  BY <1>1, <1>2, <1>3, <1>5, RecordsExist
  DEF Typed, StoreOf, WorkflowRecord, TaskRecord, ArtifactRecord
<1>9. OwnTables'
  BY <1>3, <1>5, <1>6, <1>7, RecordsExist, Tables
  DEF StoreInv, OwnTables, NoOrphans, Typed
<1>10. Together'
  <2>1. ASSUME NEW v \in Workflow \ split' PROVE Alike(v)'
    <3>1. Alike(v)
      BY <1>4 DEF StoreInv, Together
    <3>2. CASE v # w
      BY <1>5, <1>6, <1>7, <3>1, <3>2, Tables DEF Alike, Typed
    <3>3. CASE v = w
      <4>1. (mem.task[w][t] # Absent) <=> (pg.task[w][t] # Absent)
        BY <1>4, <3>3
      <4>2. mem'.task[w] = IF mem.task[w][t] # Absent
                             THEN [mem.task[w] EXCEPT ![t] = Absent]
                             ELSE mem.task[w]
        BY <1>5, <1>6, Tables DEF Typed
      <4>3. pg'.task[w] = IF pg.task[w][t] # Absent
                            THEN [pg.task[w] EXCEPT ![t] = Absent]
                            ELSE pg.task[w]
        BY <1>5, <1>7, Tables DEF Typed
      <4>4. \A u \in Task : Undated(mem'.task[w][u]) = Undated(pg'.task[w][u])
        <5>1. /\ mem.task[w] \in [Task -> TaskRecord \cup {Absent}]
              /\ pg.task[w] \in [Task -> TaskRecord \cup {Absent}]
          BY <1>5, Tables DEF Typed
        <5> QED
          BY <3>1, <3>3, <4>1, <4>2, <4>3, <5>1 DEF Alike
      <4> QED
        BY <1>6, <1>7, <3>1, <3>3, <4>4 DEF Alike
    <3> QED
      BY <3>2, <3>3
  <2>2. ASSUME NEW u \in Task \ parted' PROVE ArtifactsAgree(u)'
    BY <1>3, <1>6, <1>7 DEF StoreInv, Together, ArtifactsAgree, MemGetArtifact, PgGetArtifact
  <2>3. mem'.agent = pg'.agent
    BY <1>6, <1>7 DEF StoreInv, Together
  <2>4. ToSet(mem'.event) \subseteq pg'.event
    BY <1>6, <1>7 DEF StoreInv, Together
  <2> QED
    BY <2>1, <2>2, <2>3, <2>4 DEF Together
<1> QED
  BY <1>8, <1>9, <1>10 DEF StoreInv

(* DeleteWorkflow takes tasks and checkpoints with it; Postgres refuses as *)
(* long as an artifact refers to the workflow.                             *)
LEMMA DeleteWorkflowKeeps ==
  ASSUME StoreInv, NEW w \in Workflow, DeleteWorkflow(w)
  PROVE  StoreInv'
<1>1. mem' = IF mem.workflow[w] # Absent
               THEN [mem EXCEPT !.workflow[w] = Absent,
                                !.task[w] = [u \in Task |-> Absent],
                                !.checkpoint[w] = <<>>,
                                !.event = Only(mem.event, Event \ EventsOf(w))]
               ELSE mem
  BY DEF DeleteWorkflow, OnWorkflow, Both, MemDeleteWorkflow, Answer
<1>2. pg' = IF pg.workflow[w] # Absent /\ PgListArtifactsByWorkflow(pg, w) = {}
              THEN [pg EXCEPT !.workflow[w] = Absent,
                              !.task[w] = [u \in Task |-> Absent],
                              !.checkpoint[w] = <<>>]
              ELSE pg
  BY DEF DeleteWorkflow, OnWorkflow, Both, PgDeleteWorkflow, Answer
<1>3. now' = now /\ taken' = taken /\ parted' = parted
  BY DEF DeleteWorkflow, OnWorkflow, clock
<1>4. split' = IF (mem.workflow[w] # Absent) = (pg.workflow[w] # Absent /\ PgListArtifactsByWorkflow(pg, w) = {})
                 THEN split
                 ELSE split \cup {w}
  BY DEF DeleteWorkflow, OnWorkflow, MemDeleteWorkflow, PgDeleteWorkflow, Answer
<1>5. Typed
  BY DEF StoreInv
<1>6. /\ mem'.workflow = IF mem.workflow[w] # Absent
                           THEN [mem.workflow EXCEPT ![w] = Absent]
                           ELSE mem.workflow
      /\ mem'.task = IF mem.workflow[w] # Absent
                       THEN [mem.task EXCEPT ![w] = [u \in Task |-> Absent]]
                       ELSE mem.task
      /\ mem'.checkpoint = IF mem.workflow[w] # Absent
                             THEN [mem.checkpoint EXCEPT ![w] = <<>>]
                             ELSE mem.checkpoint
      /\ mem'.event = IF mem.workflow[w] # Absent
                        THEN Only(mem.event, Event \ EventsOf(w))
                        ELSE mem.event
      /\ mem'.agent = mem.agent /\ mem'.artifact = mem.artifact
  BY <1>1, <1>5 DEF Typed, StoreOf
<1>7. /\ pg'.workflow = IF pg.workflow[w] # Absent /\ PgListArtifactsByWorkflow(pg, w) = {}
                          THEN [pg.workflow EXCEPT ![w] = Absent]
                          ELSE pg.workflow
      /\ pg'.task = IF pg.workflow[w] # Absent /\ PgListArtifactsByWorkflow(pg, w) = {}
                      THEN [pg.task EXCEPT ![w] = [u \in Task |-> Absent]]
                      ELSE pg.task
      /\ pg'.checkpoint = IF pg.workflow[w] # Absent /\ PgListArtifactsByWorkflow(pg, w) = {}
                            THEN [pg.checkpoint EXCEPT ![w] = <<>>]
                            ELSE pg.checkpoint
      /\ pg'.agent = pg.agent /\ pg'.artifact = pg.artifact /\ pg'.event = pg.event
  BY <1>2, <1>5 DEF Typed, StoreOf
<1>8. Typed'
  <2>1. Only(mem.event, Event \ EventsOf(w)) \in Seq(Event)
    BY <1>5, OnlyKeeps DEF Typed, StoreOf
  <2>2. [u \in Task |-> Absent] \in [Task -> TaskRecord \cup {Absent}]
    OBVIOUS
  <2>3. mem' \in StoreOf(Seq(Event))
    <3> DEFINE wf == [mem.workflow EXCEPT ![w] = Absent]
               ta == [mem.task EXCEPT ![w] = [u \in Task |-> Absent]]
               cp == [mem.checkpoint EXCEPT ![w] = <<>>]
    <3>1. /\ wf \in [Workflow -> WorkflowRecord \cup {Absent}]
          /\ ta \in [Workflow -> [Task -> TaskRecord \cup {Absent}]]
          /\ cp \in [Workflow -> Seq(Nat)]
      BY <1>5, <2>2, Tables DEF Typed
    <3>2. mem' = IF mem.workflow[w] # Absent
                   THEN [mem EXCEPT !.workflow = wf, !.task = ta, !.checkpoint = cp,
                                    !.event = Only(mem.event, Event \ EventsOf(w))]
                   ELSE mem
      BY <1>1, <1>5 DEF Typed, StoreOf
    <3> HIDE DEF wf, ta, cp
    <3> QED
      BY <1>5, <2>1, <3>1, <3>2 DEF Typed, StoreOf
  <2>4. pg' \in StoreOf(SUBSET Event)
    <3> DEFINE wf == [pg.workflow EXCEPT ![w] = Absent]
               ta == [pg.task EXCEPT ![w] = [u \in Task |-> Absent]]
               cp == [pg.checkpoint EXCEPT ![w] = <<>>]
    <3>1. /\ wf \in [Workflow -> WorkflowRecord \cup {Absent}]
          /\ ta \in [Workflow -> [Task -> TaskRecord \cup {Absent}]]
          /\ cp \in [Workflow -> Seq(Nat)]
      BY <1>5, <2>2, Tables DEF Typed
    <3>2. pg' = IF pg.workflow[w] # Absent /\ PgListArtifactsByWorkflow(pg, w) = {}
                  THEN [pg EXCEPT !.workflow = wf, !.task = ta, !.checkpoint = cp]
                  ELSE pg
      BY <1>2, <1>5 DEF Typed, StoreOf
    <3> HIDE DEF wf, ta, cp
    <3> QED
      BY <1>5, <3>1, <3>2 DEF Typed, StoreOf
  <2> QED
    BY <1>3, <1>5, <2>3, <2>4 DEF Typed
<1>9. OwnTables'
  <2>1. NoOrphans'
    <3>1. NoOrphans
      BY DEF StoreInv, OwnTables
    <3>2. ASSUME NEW v \in Workflow
          PROVE  mem'.workflow[v] = Absent => \A u \in Task : mem'.task[v][u] = Absent
      BY <1>5, <1>6, <3>1, Tables DEF NoOrphans, Typed
    <3>3. ASSUME NEW v \in Workflow, pg'.workflow[v] = Absent
          PROVE  pg'.checkpoint[v] = <<>> /\ \A u \in Task : pg'.task[v][u] = Absent
      <4>1. CASE v = w /\ pg.workflow[w] # Absent /\ PgListArtifactsByWorkflow(pg, w) = {}
        BY <1>5, <1>7, <4>1, Tables DEF Typed
      <4>2. CASE ~(v = w /\ pg.workflow[w] # Absent /\ PgListArtifactsByWorkflow(pg, w) = {})
        <5>1. /\ pg'.workflow[v] = pg.workflow[v] /\ pg'.checkpoint[v] = pg.checkpoint[v]
              /\ pg'.task[v] = pg.task[v]
          BY <1>5, <1>7, <4>2, Tables DEF Typed
        <5> QED
          BY <3>1, <3>3, <5>1 DEF NoOrphans
      <4> QED
        BY <4>1, <4>2
    <3> QED
      BY <3>2, <3>3 DEF NoOrphans
  <2>3. ASSUME NEW u \in Task, pg'.artifact[u] # Absent
        PROVE  pg'.workflow[pg'.artifact[u].workflow] # Absent
    <3>1. pg.artifact[u] \in ArtifactRecord /\ pg.artifact[u].workflow \in Workflow
      BY <1>5, <1>7, <2>3, Tables DEF Typed, ArtifactRecord
    <3>2. pg.workflow[pg.artifact[u].workflow] # Absent
      BY <1>7, <2>3 DEF StoreInv, OwnTables
    <3>3. PgListArtifactsByWorkflow(pg, w) = {} => pg.artifact[u].workflow # w
      BY <1>7, <2>3 DEF PgListArtifactsByWorkflow
    <3> QED
      BY <1>5, <1>7, <3>1, <3>2, <3>3, Tables DEF Typed
  <2> QED
    BY <2>1, <2>3 DEF OwnTables
<1>10. Together'
  <2>1. ASSUME NEW v \in Workflow \ split' PROVE Alike(v)'
    <3>1. Alike(v)
      BY <1>4 DEF StoreInv, Together
    <3>2. CASE v # w
      BY <1>5, <1>6, <1>7, <3>1, <3>2, Tables DEF Alike, Typed
    <3>3. CASE v = w
      <4>1. (mem.workflow[w] # Absent)
            <=> (pg.workflow[w] # Absent /\ PgListArtifactsByWorkflow(pg, w) = {})
        BY <1>4, <3>3
      <4> QED
        BY <1>5, <1>6, <1>7, <3>1, <3>3, <4>1, Tables DEF Alike, Typed
    <3> QED
      BY <3>2, <3>3
  <2>2. ASSUME NEW u \in Task \ parted' PROVE ArtifactsAgree(u)'
    BY <1>3, <1>6, <1>7 DEF StoreInv, Together, ArtifactsAgree, MemGetArtifact, PgGetArtifact
  <2>3. mem'.agent = pg'.agent
    BY <1>6, <1>7 DEF StoreInv, Together
  <2>4. ToSet(mem'.event) \subseteq pg'.event
    BY <1>5, <1>6, <1>7, OnlyKeeps DEF StoreInv, Together, Typed, StoreOf
  <2> QED
    BY <2>1, <2>2, <2>3, <2>4 DEF Together
<1> QED
  BY <1>8, <1>9, <1>10 DEF StoreInv

(* A checkpoint is stamped: neither store has heard of it. *)
LEMMA StampCheckpointKeeps ==
  ASSUME StoreInv, NEW w \in Workflow, StampCheckpoint(w)
  PROVE  StoreInv'
<1>1. /\ mem' = mem /\ pg' = pg /\ split' = split /\ parted' = parted
      /\ now' = now + 1 /\ taken' = taken \cup {<<w, now>>}
  BY DEF StampCheckpoint
<1> QED
  BY <1>1 DEF StoreInv, Typed, OwnTables, NoOrphans, Together, Alike, ArtifactsAgree,
              MemGetArtifact, PgGetArtifact

(* SaveCheckpoint: a row more, if Postgres has the workflow. *)
LEMMA SaveCheckpointKeeps ==
  ASSUME StoreInv, NEW w \in Workflow, NEW time \in Nat, SaveCheckpoint(w, time)
  PROVE  StoreInv'
<1>1. mem' = [mem EXCEPT !.checkpoint[w] = Append(mem.checkpoint[w], time)]
  BY DEF SaveCheckpoint, OnWorkflow, Both, MemSaveCheckpoint, Answer
<1>2. pg' = IF pg.workflow[w] # Absent
              THEN [pg EXCEPT !.checkpoint[w] = Append(pg.checkpoint[w], time)]
              ELSE pg
  BY DEF SaveCheckpoint, OnWorkflow, Both, PgSaveCheckpoint, Answer
<1>3. now' = now /\ taken' \subseteq taken /\ parted' = parted
  BY DEF SaveCheckpoint, OnWorkflow
<1>4. split' = IF TRUE = (pg.workflow[w] # Absent) THEN split ELSE split \cup {w}
  BY DEF SaveCheckpoint, OnWorkflow, MemSaveCheckpoint, PgSaveCheckpoint, Answer
<1>5. Typed
  BY DEF StoreInv
<1>6. /\ mem'.checkpoint = [mem.checkpoint EXCEPT ![w] = Append(mem.checkpoint[w], time)]
      /\ mem'.workflow = mem.workflow /\ mem'.task = mem.task /\ mem'.agent = mem.agent
      /\ mem'.artifact = mem.artifact /\ mem'.event = mem.event
  BY <1>1, <1>5 DEF Typed, StoreOf
<1>7. /\ pg'.checkpoint = IF pg.workflow[w] # Absent
                            THEN [pg.checkpoint EXCEPT ![w] = Append(pg.checkpoint[w], time)]
                            ELSE pg.checkpoint
      /\ pg'.workflow = pg.workflow /\ pg'.task = pg.task /\ pg'.agent = pg.agent
      /\ pg'.artifact = pg.artifact /\ pg'.event = pg.event
  BY <1>2, <1>5 DEF Typed, StoreOf
<1>8. Typed'
  <2>1. \A v \in Workflow : mem'.checkpoint[v] \in Seq(Nat) /\ pg'.checkpoint[v] \in Seq(Nat)
    BY <1>5, <1>6, <1>7, Tables DEF Typed
  <2>2. mem' \in StoreOf(Seq(Event))
    BY <1>1, <1>5, <2>1 DEF Typed, StoreOf
  <2>3. pg' \in StoreOf(SUBSET Event)
    BY <1>2, <1>5, <2>1 DEF Typed, StoreOf
  <2> QED
    BY <1>3, <1>5, <2>2, <2>3 DEF Typed
<1>9. OwnTables'
  <2>1. NoOrphans'
    BY <1>5, <1>6, <1>7, Tables DEF StoreInv, OwnTables, NoOrphans, Typed
  <2>3. ASSUME NEW u \in Task, pg'.artifact[u] # Absent
        PROVE  pg'.workflow[pg'.artifact[u].workflow] # Absent
    BY <1>7, <2>3 DEF StoreInv, OwnTables
  <2> QED
    BY <2>1, <2>3 DEF OwnTables
<1>10. Together'
  <2>1. ASSUME NEW v \in Workflow \ split' PROVE Alike(v)'
    <3>1. Alike(v)
      BY <1>4 DEF StoreInv, Together
    <3>2. CASE v # w
      BY <1>5, <1>6, <1>7, <3>1, <3>2, Tables DEF Alike, Typed
    <3>3. CASE v = w
      <4>1. (TRUE) <=> (pg.workflow[w] # Absent)
        BY <1>4, <3>3
      <4> QED
        BY <1>5, <1>6, <1>7, <3>1, <3>3, <4>1, Tables DEF Alike, Typed
    <3> QED
      BY <3>2, <3>3
  <2>2. ASSUME NEW u \in Task \ parted' PROVE ArtifactsAgree(u)'
    BY <1>3, <1>6, <1>7 DEF StoreInv, Together, ArtifactsAgree, MemGetArtifact, PgGetArtifact
  <2>3. mem'.agent = pg'.agent
    BY <1>6, <1>7 DEF StoreInv, Together
  <2>4. ToSet(mem'.event) \subseteq pg'.event
    BY <1>6, <1>7 DEF StoreInv, Together
  <2> QED
    BY <2>1, <2>2, <2>3, <2>4 DEF Together
<1> QED
  BY <1>8, <1>9, <1>10 DEF StoreInv

(* SaveAgent is an upsert in both. *)
LEMMA SaveAgentKeeps ==
  ASSUME StoreInv, NEW a \in Agent, NEW d \in Data, SaveAgent(a, d)
  PROVE  StoreInv'
<1>1. mem' = [mem EXCEPT !.agent[a] = d]
  BY DEF SaveAgent, Both, MemSaveAgent, Answer
<1>2. pg' = [pg EXCEPT !.agent[a] = d]
  BY DEF SaveAgent, Both, PgSaveAgent, Answer
<1>3. now' = now /\ taken' = taken /\ parted' = parted
  BY DEF SaveAgent, clock
<1>4. split' = split
  BY DEF SaveAgent
<1>5. Typed
  BY DEF StoreInv
<1>6. /\ mem'.agent = [mem.agent EXCEPT ![a] = d]
      /\ mem'.workflow = mem.workflow /\ mem'.task = mem.task /\ mem'.checkpoint = mem.checkpoint
      /\ mem'.artifact = mem.artifact /\ mem'.event = mem.event
  BY <1>1, <1>5 DEF Typed, StoreOf
<1>7. /\ pg'.agent = [pg.agent EXCEPT ![a] = d]
      /\ pg'.workflow = pg.workflow /\ pg'.task = pg.task /\ pg'.checkpoint = pg.checkpoint
      /\ pg'.artifact = pg.artifact /\ pg'.event = pg.event
  BY <1>2, <1>5 DEF Typed, StoreOf
<1>8. Typed'
  BY <1>1, <1>2, <1>3, <1>5, RecordsExist
  DEF Typed, StoreOf, WorkflowRecord, TaskRecord, ArtifactRecord
<1>9. OwnTables'
  BY <1>3, <1>5, <1>6, <1>7, RecordsExist, Tables
  DEF StoreInv, OwnTables, NoOrphans, Typed
<1>10. Together'
  BY <1>3, <1>4, <1>5, <1>6, <1>7, RecordsExist, Tables
  DEF StoreInv, Together, Alike, ArtifactsAgree, MemGetArtifact, PgGetArtifact, Typed
<1> QED
  BY <1>8, <1>9, <1>10 DEF StoreInv

(* SaveEvent: memory appends again what Postgres refuses to have twice. *)
LEMMA SaveEventKeeps ==
  ASSUME StoreInv, NEW e \in Event, SaveEvent(e)
  PROVE  StoreInv'
<1>1. mem' = [mem EXCEPT !.event = Append(mem.event, e)]
  BY DEF SaveEvent, Both, MemSaveEvent, Answer
<1>2. pg' = IF e \notin pg.event THEN [pg EXCEPT !.event = pg.event \cup {e}] ELSE pg
  BY DEF SaveEvent, Both, PgSaveEvent, Answer
<1>3. now' = now /\ taken' = taken /\ parted' = parted
  BY DEF SaveEvent, clock
<1>4. split' = split
  BY DEF SaveEvent
<1>5. Typed
  BY DEF StoreInv
<1>6. /\ mem'.event = Append(mem.event, e)
      /\ mem'.workflow = mem.workflow /\ mem'.task = mem.task /\ mem'.checkpoint = mem.checkpoint
      /\ mem'.agent = mem.agent /\ mem'.artifact = mem.artifact
  BY <1>1, <1>5 DEF Typed, StoreOf
<1>7. /\ pg'.event = IF e \notin pg.event THEN pg.event \cup {e} ELSE pg.event
      /\ pg'.workflow = pg.workflow /\ pg'.task = pg.task /\ pg'.checkpoint = pg.checkpoint
      /\ pg'.agent = pg.agent /\ pg'.artifact = pg.artifact
  BY <1>2, <1>5 DEF Typed, StoreOf
<1>8. Typed'
  <2>1. Append(mem.event, e) \in Seq(Event)
    BY <1>5 DEF Typed, StoreOf
  <2> QED
    BY <1>1, <1>2, <1>3, <1>5, <2>1 DEF Typed, StoreOf
<1>9. OwnTables'
  BY <1>3, <1>5, <1>6, <1>7, RecordsExist, Tables
  DEF StoreInv, OwnTables, NoOrphans, Typed
<1>10. Together'
  <2>1. \A v \in Workflow \ split' : Alike(v)'
    BY <1>4, <1>6, <1>7 DEF StoreInv, Together, Alike
  <2>2. \A u \in Task \ parted' : ArtifactsAgree(u)'
    BY <1>3, <1>6, <1>7 DEF StoreInv, Together, ArtifactsAgree, MemGetArtifact, PgGetArtifact
  <2>3. mem'.agent = pg'.agent
    BY <1>6, <1>7 DEF StoreInv, Together
  <2>4. mem.event \in Seq(Event) /\ ToSet(mem.event) \subseteq pg.event
    BY <1>5, Tables DEF StoreInv, Together, Typed
  <2>5. ToSet(Append(mem.event, e)) \subseteq pg.event \cup {e}
    BY <2>4 DEF ToSet
  <2>6. ToSet(mem'.event) \subseteq pg'.event
    BY <1>6, <1>7, <2>5
  <2> QED
    BY <2>1, <2>2, <2>3, <2>6 DEF Together
<1> QED
  BY <1>8, <1>9, <1>10 DEF StoreInv

(* SaveArtifact: memory replaces, Postgres keeps the workflow of the row   *)
(* it has, or refuses to insert one without a workflow.                    *)
LEMMA SaveArtifactKeeps ==
  ASSUME StoreInv, NEW w \in Workflow, NEW t \in Task, NEW d \in Data, SaveArtifact(w, t, d)
  PROVE  StoreInv'
<1> DEFINE row == [workflow |-> w, data |-> d]
           stays == [pg.artifact[t] EXCEPT !.data = d]
<1>1. mem' = [mem EXCEPT !.artifact[t] = row]
  BY DEF SaveArtifact, OnArtifact, Both, MemSaveArtifact, Answer
<1>2. pg' = IF pg.artifact[t] = Absent
              THEN IF pg.workflow[w] # Absent THEN [pg EXCEPT !.artifact[t] = row] ELSE pg
              ELSE [pg EXCEPT !.artifact[t] = stays]
  BY DEF SaveArtifact, OnArtifact, Both, PgSaveArtifact, Answer
<1>3. now' = now /\ taken' = taken /\ split' = split
  BY DEF SaveArtifact, OnArtifact, clock
<1>4. parted' = IF pg.artifact[t] # Absent \/ pg.workflow[w] # Absent
                  THEN parted
                  ELSE parted \cup {t}
  BY DEF SaveArtifact, OnArtifact, MemSaveArtifact, PgSaveArtifact, Answer
<1>5. Typed
  BY DEF StoreInv
<1>6. /\ mem'.artifact = [mem.artifact EXCEPT ![t] = row]
      /\ mem'.workflow = mem.workflow /\ mem'.task = mem.task /\ mem'.checkpoint = mem.checkpoint
      /\ mem'.agent = mem.agent /\ mem'.event = mem.event
  BY <1>1, <1>5 DEF Typed, StoreOf
<1>7. /\ pg'.artifact = IF pg.artifact[t] = Absent
                          THEN IF pg.workflow[w] # Absent THEN [pg.artifact EXCEPT ![t] = row]
                               ELSE pg.artifact
                          ELSE [pg.artifact EXCEPT ![t] = stays]
      /\ pg'.workflow = pg.workflow /\ pg'.task = pg.task /\ pg'.checkpoint = pg.checkpoint
      /\ pg'.agent = pg.agent /\ pg'.event = pg.event
  BY <1>2, <1>5 DEF Typed, StoreOf
<1>8. row \in ArtifactRecord /\ row # Absent
  BY RecordsExist DEF ArtifactRecord
<1>9. pg.artifact[t] # Absent =>
        /\ stays \in ArtifactRecord /\ stays # Absent
        /\ stays.workflow = pg.artifact[t].workflow /\ stays.data = d
  <2>1. pg.artifact[t] # Absent => pg.artifact[t] \in ArtifactRecord
    BY <1>5, Tables DEF Typed
  <2>2. pg.artifact[t] # Absent =>
          /\ stays \in ArtifactRecord
          /\ stays.workflow = pg.artifact[t].workflow /\ stays.data = d
    BY <2>1 DEF ArtifactRecord
  <2> QED
    BY <2>2, RecordsExist
<1>10. row.workflow = w /\ row.data = d
  OBVIOUS
<1> HIDE DEF row, stays
<1>11. Typed'
  BY <1>1, <1>2, <1>3, <1>5, <1>8, <1>9 DEF Typed, StoreOf
<1>12. OwnTables'
  <2>1. NoOrphans'
    BY <1>6, <1>7 DEF StoreInv, OwnTables, NoOrphans
  <2>3. ASSUME NEW u \in Task, pg'.artifact[u] # Absent
        PROVE  pg'.workflow[pg'.artifact[u].workflow] # Absent
    BY <1>5, <1>7, <1>9, <1>10, <2>3, Tables DEF StoreInv, OwnTables, Typed
  <2> QED
    BY <2>1, <2>3 DEF OwnTables
<1>13. Together'
  <2>1. \A v \in Workflow \ split' : Alike(v)'
    BY <1>3, <1>6, <1>7 DEF StoreInv, Together, Alike
  <2>2. ASSUME NEW u \in Task \ parted' PROVE ArtifactsAgree(u)'
    <3>1. ArtifactsAgree(u)
      BY <1>4 DEF StoreInv, Together
    <3>2. CASE u # t
      BY <1>5, <1>6, <1>7, <3>1, <3>2, Tables
      DEF ArtifactsAgree, MemGetArtifact, PgGetArtifact, Typed
    <3>3. CASE u = t
      <4>1. mem'.artifact[t] = row
        BY <1>5, <1>6, Tables DEF Typed
      <4>2. pg.artifact[t] # Absent \/ pg.workflow[w] # Absent
        BY <1>4, <3>3
      <4>3. pg.artifact \in [Task -> ArtifactRecord \cup {Absent}]
        BY <1>5, Tables DEF Typed
      <4>4. pg'.artifact[t] = row \/ (pg.artifact[t] # Absent /\ pg'.artifact[t] = stays)
        BY <1>7, <4>2, <4>3
      <4> QED
        BY <1>8, <1>9, <1>10, <3>3, <4>1, <4>4 DEF ArtifactsAgree, MemGetArtifact, PgGetArtifact
    <3> QED
      BY <3>2, <3>3
  <2> QED
    BY <1>6, <1>7, <2>1, <2>2 DEF StoreInv, Together
<1> QED
  BY <1>11, <1>12, <1>13 DEF StoreInv

(* Every call keeps the invariant. *)
LEMMA StoreInvHolds == Spec => []StoreInv
<1>1. ASSUME StoreInv, [Next]_vars PROVE StoreInv'
  <2> USE <1>1
  <2>1. ASSUME NEW w \in Workflow, NEW r \in WorkflowRecord, SaveWorkflow(w, r) \/ UpdateWorkflow(w, r)
        PROVE  StoreInv'
    BY <2>1, SaveWorkflowKeeps, UpdateWorkflowKeeps
  <2>2. ASSUME NEW w \in Workflow, NEW t \in Task, NEW r \in TaskRecord,
               SaveTask(w, t, r) \/ UpdateTask(w, t, r)
        PROVE  StoreInv'
    BY <2>2, SaveTaskKeeps, UpdateTaskKeeps
  <2>3. ASSUME NEW w \in Workflow, NEW t \in Task, DeleteTask(w, t) PROVE StoreInv'
    BY <2>3, DeleteTaskKeeps
  <2>4. ASSUME NEW w \in Workflow, DeleteWorkflow(w) \/ StampCheckpoint(w) PROVE StoreInv'
    BY <2>4, DeleteWorkflowKeeps, StampCheckpointKeeps
  <2>9. ASSUME NEW k \in taken, SaveCheckpoint(k[1], k[2]) PROVE StoreInv'
    <3>1. k[1] \in Workflow /\ k[2] \in Nat
      BY DEF StoreInv, Typed
    <3> QED
      BY <2>9, <3>1, SaveCheckpointKeeps
  <2>5. ASSUME NEW w \in Workflow, NEW t \in Task, NEW d \in Data, SaveArtifact(w, t, d)
        PROVE  StoreInv'
    BY <2>5, SaveArtifactKeeps
  <2>6. ASSUME NEW a \in Agent, NEW d \in Data, SaveAgent(a, d) PROVE StoreInv'
    BY <2>6, SaveAgentKeeps
  <2>7. ASSUME NEW e \in Event, SaveEvent(e) PROVE StoreInv'
    BY <2>7, SaveEventKeeps
  <2>8. CASE UNCHANGED vars
    BY <2>8 DEF vars, clock, StoreInv, Typed, OwnTables, NoOrphans, Together, Alike,
                ArtifactsAgree, MemGetArtifact, PgGetArtifact
  <2> QED
    BY <2>1, <2>2, <2>3, <2>4, <2>5, <2>6, <2>7, <2>8, <2>9 DEF Next
<1> QED
  BY <1>1, InitStore, PTL DEF Spec
----------------------------------------------------------------------------
(* What a program is told. *)

(* No task record outlives its workflow in either store, and no checkpoint *)
(* in Postgres: DeleteWorkflow takes them with it, SaveTask looks for the  *)
(* workflow, and UpdateTask, which does not, finds nothing to update.      *)
THEOREM NoTaskIsOrphaned == Spec => []NoOrphans
<1>1. StoreInv => NoOrphans
  BY DEF StoreInv, OwnTables
<1> QED
  BY <1>1, StoreInvHolds, PTL

(* The last row is the latest, if they came in order. *)
LEMMA LastIsLatest ==
  ASSUME NEW rows \in Seq(Nat), Ascending(rows), rows # <<>>
  PROVE  Last(rows) = Max(ToSet(rows))
<1>1. Len(rows) \in Nat /\ Len(rows) \in 1..Len(rows)
  OBVIOUS
<1>2. Last(rows) \in ToSet(rows)
  BY <1>1 DEF Last, ToSet
<1>3. \A i \in 1..Len(rows) : rows[i] \in Nat
  OBVIOUS
<1>4. ASSUME NEW x \in ToSet(rows) PROVE x \in Nat /\ x <= Last(rows)
  <2>1. PICK i \in 1..Len(rows) : x = rows[i]
    BY DEF ToSet
  <2>2. i < Len(rows) => rows[i] < rows[Len(rows)]
    BY <1>1 DEF Ascending
  <2> QED
    BY <1>1, <1>3, <2>1, <2>2 DEF Last
<1> DEFINE Greatest(x) == x \in ToSet(rows) /\ \A y \in ToSet(rows) : x >= y
<1>5. Greatest(Last(rows))
  BY <1>2, <1>4
<1>6. \A x : Greatest(x) => x = Last(rows)
  BY <1>2, <1>4
<1>7. Max(ToSet(rows)) = CHOOSE x : Greatest(x)
  BY DEF Max
<1> HIDE DEF Greatest
<1> QED
  BY <1>5, <1>6, <1>7

(* The ids of a list of pairs of an id and its record. *)
LEMMA FirstsOfPairs ==
  ASSUME NEW S, NEW f
  PROVE  {k[1] : k \in {<<x, f[x]>> : x \in S}} = S
<1> DEFINE firsts == {k[1] : k \in {<<x, f[x]>> : x \in S}}
<1>1. ASSUME NEW x \in S PROVE x \in firsts
  <2>1. <<x, f[x]>> \in {<<y, f[y]>> : y \in S} /\ <<x, f[x]>>[1] = x
    OBVIOUS
  <2> QED
    BY <2>1
<1>2. ASSUME NEW y \in firsts PROVE y \in S
  <2>1. PICK k \in {<<x, f[x]>> : x \in S} : y = k[1]
    BY <1>2
  <2>2. PICK x \in S : k = <<x, f[x]>>
    BY <2>1
  <2> QED
    BY <2>1, <2>2
<1>3. firsts = S
  <2> HIDE DEF firsts
  <2> QED
    BY <1>1, <1>2
<1> QED
  BY <1>3

(* Until a call on a workflow or an artifact was answered differently by   *)
(* the two stores, every read of it is the same but for creation times,    *)
(* which memory replaces and Postgres keeps (postgres.go:68-70, 91,        *)
(* 152-160, 199), and for the latest checkpoint of rows that did not       *)
(* arrive in the order of their times, of which memory takes the last and  *)
(* Postgres the latest.                                                    *)
THEOREM StoresAgreeUntilSplit == Spec => []AgreeUntilSplit
<1>1. ASSUME StoreInv PROVE AgreeUntilSplit
  <2> USE <1>1
  <2>1. Typed
    BY DEF StoreInv
  <2>a. ASSUME NEW w \in Workflow, Alike(w)
        PROVE  /\ mem.workflow[w] = Absent <=> pg.workflow[w] = Absent
               /\ \A t \in Task : mem.task[w][t] = Absent <=> pg.task[w][t] = Absent
               /\ \A t \in Task : mem.task[w][t] # Absent =>
                    mem.task[w][t].status = pg.task[w][t].status
    <3>1. /\ mem.workflow[w] \in WorkflowRecord \cup {Absent}
          /\ pg.workflow[w] \in WorkflowRecord \cup {Absent}
          /\ \A t \in Task : /\ mem.task[w][t] \in TaskRecord \cup {Absent}
                            /\ pg.task[w][t] \in TaskRecord \cup {Absent}
      BY <2>1, Tables DEF Typed
    <3> QED
      BY <2>a, <3>1, UndatedTells DEF Alike
  <2>2. ASSUME NEW w \in Workflow \ split PROVE ReadsAgree(w)
    <3>1. Alike(w)
      BY DEF StoreInv, Together
    <3>2. Ascending(mem.checkpoint[w]) =>
            MemGetLatestCheckpoint(mem, w) = PgGetLatestCheckpoint(pg, w)
      <4>1. mem.checkpoint[w] \in Seq(Nat)
        BY <2>1, Tables DEF Typed
      <4> QED
        BY <3>1, <4>1, LastIsLatest DEF Alike, MemGetLatestCheckpoint, PgGetLatestCheckpoint
    <3>3. {k[1] : k \in MemGetWorkflowTasks(mem, w)} = {k[1] : k \in PgGetWorkflowTasks(pg, w)}
      <4>1. {k[1] : k \in MemGetWorkflowTasks(mem, w)} = {t \in Task : mem.task[w][t] # Absent}
        <5> DEFINE S == {t \in Task : mem.task[w][t] # Absent}
                   f == mem.task[w]
        <5>1. MemGetWorkflowTasks(mem, w) = {<<t, f[t]>> : t \in S}
          BY DEF MemGetWorkflowTasks
        <5> HIDE DEF S, f
        <5>2. {k[1] : k \in MemGetWorkflowTasks(mem, w)} = S
          BY <5>1, FirstsOfPairs
        <5> QED
          BY <5>2 DEF S
      <4>2. {k[1] : k \in PgGetWorkflowTasks(pg, w)} = {t \in Task : pg.task[w][t] # Absent}
        <5> DEFINE S == {t \in Task : pg.task[w][t] # Absent}
                   f == pg.task[w]
        <5>1. PgGetWorkflowTasks(pg, w) = {<<t, f[t]>> : t \in S}
          BY DEF PgGetWorkflowTasks
        <5> HIDE DEF S, f
        <5>2. {k[1] : k \in PgGetWorkflowTasks(pg, w)} = S
          BY <5>1, FirstsOfPairs
        <5> QED
          BY <5>2 DEF S
      <4> QED
        BY <2>a, <3>1, <4>1, <4>2
    <3> QED
      BY <3>1, <3>2, <3>3 DEF Alike, ReadsAgree, MemGetWorkflow, PgGetWorkflow, MemGetTask,
                              PgGetTask
  <2>3. \A t \in Task \ parted : ArtifactsAgree(t)
    BY DEF StoreInv, Together
  <2>4. /\ \A a \in Agent : MemGetAgent(mem, a) = PgGetAgent(pg, a)
        /\ MemListAgents(mem) = PgListAgents(pg)
    BY DEF StoreInv, Together, MemGetAgent, PgGetAgent, MemListAgents, PgListAgents
  <2>5. parted = {} => MemListAllArtifacts(mem) = PgListAllArtifacts(pg)
    BY <2>3
    DEF ArtifactsAgree, MemGetArtifact, PgGetArtifact, MemListAllArtifacts, PgListAllArtifacts
  <2>6. ASSUME split = {}
        PROVE  /\ {k[1] : k \in MemListWorkflows(mem)} = {k[1] : k \in PgListWorkflows(pg)}
               /\ \A s \in Status : MemListTasksByStatus(mem, s) = PgListTasksByStatus(pg, s)
    <3>1. \A w \in Workflow : Alike(w)
      BY <2>6 DEF StoreInv, Together
    <3>2. /\ {k[1] : k \in MemListWorkflows(mem)} = {w \in Workflow : mem.workflow[w] # Absent}
          /\ {k[1] : k \in PgListWorkflows(pg)} = {w \in Workflow : pg.workflow[w] # Absent}
      <4> DEFINE S == {w \in Workflow : mem.workflow[w] # Absent}
                 T == {w \in Workflow : pg.workflow[w] # Absent}
                 f == mem.workflow
                 g == pg.workflow
      <4>1. /\ MemListWorkflows(mem) = {<<w, f[w]>> : w \in S}
            /\ PgListWorkflows(pg) = {<<w, g[w]>> : w \in T}
        BY DEF MemListWorkflows, PgListWorkflows
      <4> HIDE DEF S, T, f, g
      <4>2. {k[1] : k \in MemListWorkflows(mem)} = S
        BY <4>1, FirstsOfPairs
      <4>3. {k[1] : k \in PgListWorkflows(pg)} = T
        BY <4>1, FirstsOfPairs
      <4> QED
        BY <4>2, <4>3 DEF S, T
    <3>3. \A w \in Workflow : mem.workflow[w] = Absent <=> pg.workflow[w] = Absent
      BY <2>a, <3>1
    <3>4. \A w \in Workflow, t \in Task :
            /\ mem.task[w][t] = Absent <=> pg.task[w][t] = Absent
            /\ mem.task[w][t] # Absent => mem.task[w][t].status = pg.task[w][t].status
      BY <2>a, <3>1
    <3>5. \A s \in Status : MemListTasksByStatus(mem, s) = PgListTasksByStatus(pg, s)
      BY <3>4 DEF MemListTasksByStatus, PgListTasksByStatus
    <3> QED
      BY <3>2, <3>3, <3>5
  <2> QED
    BY <2>2, <2>3, <2>4, <2>5, <2>6 DEF AgreeUntilSplit
<1> QED
  BY <1>1, StoreInvHolds, PTL

(* Postgres never forgets: the workflow of an artifact stays, and what     *)
(* artifact or event the memory store has Postgres has, unless it refused  *)
(* the artifact.                                                           *)
THEOREM PostgresForgetsNothing == Spec => []PostgresKeeps
<1>1. ASSUME StoreInv PROVE PostgresKeeps
  <2> USE <1>1
  <2>1. \A w \in Workflow : PgListArtifactsByWorkflow(pg, w) # {} => pg.workflow[w] # Absent
    BY DEF StoreInv, OwnTables, PgListArtifactsByWorkflow
  <2>2. \A w \in Workflow : MemListArtifactsByWorkflow(mem, w) \ parted \subseteq PgListAllArtifacts(pg)
    BY DEF StoreInv, Together, ArtifactsAgree, MemGetArtifact, PgGetArtifact,
           MemListArtifactsByWorkflow, PgListAllArtifacts
  <2> QED
    BY <2>1, <2>2 DEF StoreInv, Together, PostgresKeeps
<1> QED
  BY <1>1, StoreInvHolds, PTL

(* In a list whose times ascend, what is later than an entry is what       *)
(* follows it.                                                             *)
LEMMA LaterIsBehind ==
  ASSUME NEW own \in Seq(Event),
         \A i, j \in DOMAIN own : i < j => TimeOf[own[i]] < TimeOf[own[j]],
         NEW i \in 1..Len(own)
  PROVE  Cardinality({f \in ToSet(own) : TimeOf[f] > TimeOf[own[i]]}) = Len(own) - i
<1> DEFINE behind == (i + 1)..Len(own)
           later == {f \in ToSet(own) : TimeOf[f] > TimeOf[own[i]]}
           at == [j \in behind |-> own[j]]
<1>1. Len(own) \in Nat /\ i \in Nat /\ DOMAIN own = 1..Len(own)
  OBVIOUS
<1>2. \A j \in 1..Len(own) : own[j] \in Event /\ TimeOf[own[j]] \in Nat
  BY EventAssumption
<1>3. \A j \in 1..Len(own) : TimeOf[own[j]] > TimeOf[own[i]] <=> j > i
  <2>1. ASSUME NEW j \in 1..Len(own) PROVE TimeOf[own[j]] > TimeOf[own[i]] <=> j > i
    <3>1. j < i \/ j = i \/ i < j
      BY <1>1
    <3>2. j < i => TimeOf[own[j]] < TimeOf[own[i]]
      BY <1>1
    <3>3. i < j => TimeOf[own[i]] < TimeOf[own[j]]
      BY <1>1
    <3> QED
      BY <1>1, <1>2, <3>1, <3>2, <3>3
  <2> QED
    BY <2>1
<1>4. \A j \in behind : j \in 1..Len(own) /\ j > i
  BY <1>1
<1>5. at \in Bijection(behind, later)
  <2>1. \A j \in behind : own[j] \in later
    BY <1>1, <1>3, <1>4 DEF ToSet
  <2>2. ASSUME NEW j \in behind, NEW k \in behind, own[j] = own[k] PROVE j = k
    <3>1. j < k \/ j = k \/ k < j
      BY <1>1
    <3>2. j < k => TimeOf[own[j]] < TimeOf[own[k]]
      BY <1>1, <1>4
    <3>3. k < j => TimeOf[own[k]] < TimeOf[own[j]]
      BY <1>1, <1>4
    <3> QED
      BY <1>2, <1>4, <2>2, <3>1, <3>2, <3>3
  <2>3. ASSUME NEW f \in later PROVE \E j \in behind : own[j] = f
    <3>1. PICK j \in 1..Len(own) : f = own[j]
      BY <1>1 DEF ToSet
    <3>2. j > i
      BY <1>3, <3>1
    <3> QED
      BY <1>1, <3>1, <3>2
  <2> HIDE DEF behind, later
  <2> QED
    BY <2>1, <2>2, <2>3 DEF Bijection, Injection, Surjection, IsInjective
<1>6. IsFiniteSet(behind) /\ Cardinality(behind) = Len(own) - i
  BY <1>1, FS_Interval
<1> HIDE DEF behind, later, at
<1>7. Cardinality(later) = Cardinality(behind)
  <2>1. ExistsBijection(behind, later)
    BY <1>5 DEF ExistsBijection
  <2> QED
    BY <1>6, <2>1, FS_Bijection
<1> QED
  BY <1>6, <1>7 DEF later

(* Min of two numbers. *)
LEMMA MinOfTwo ==
  ASSUME NEW a \in Nat, NEW b \in Nat
  PROVE  Min({a, b}) = IF a <= b THEN a ELSE b
<1> DEFINE Least(x) == x \in {a, b} /\ \A y \in {a, b} : x <= y
<1>1. Least(IF a <= b THEN a ELSE b)
  OBVIOUS
<1>2. \A x, y : Least(x) /\ Least(y) => x = y
  OBVIOUS
<1>3. Min({a, b}) = CHOOSE x : Least(x)
  BY DEF Min
<1> HIDE DEF Least
<1> QED
  BY <1>1, <1>2, <1>3

(* The page is the last entries of the list. *)
LEMMA PageIsTail ==
  ASSUME NEW own \in Seq(Event), NEW limit \in Nat
  PROVE  ToSet(SubSeq(own, Len(own) - Min({Len(own), limit}) + 1, Len(own)))
           = {own[i] : i \in {j \in 1..Len(own) : Len(own) - j < limit}}
<1> DEFINE L == Len(own)
           shown == IF L <= limit THEN L ELSE limit
           first == L - shown + 1
           page == SubSeq(own, first, L)
<1>1. L \in Nat /\ Min({Len(own), limit}) = shown
  BY MinOfTwo
<1>2. shown \in Nat /\ shown <= L /\ first \in Nat /\ first >= 1
  BY <1>1
<1>3. Len(page) = shown /\ \A k \in 1..shown : page[k] = own[first + k - 1]
  <2> HIDE DEF first, shown
  <2>1. first = L - shown + 1
    BY DEF first
  <2> HIDE DEF L
  <2>2. first - 1 \in Nat /\ L \in Nat /\ first \in Nat
    BY <1>1, <1>2
  <2>3. page = [k \in 1..(L - first + 1) |-> own[first + k - 1]]
    BY <2>2 DEF L
  <2> QED
    BY <1>1, <1>2, <2>1, <2>3
<1>4. DOMAIN page = 1..shown
  BY <1>1, <1>2, <1>3
<1>5. \A j \in 1..L : L - j < limit <=> first <= j
  BY <1>1
<1>6. ASSUME NEW x \in ToSet(page) PROVE \E j \in 1..L : L - j < limit /\ x = own[j]
  <2>1. PICK k \in 1..shown : x = page[k]
    BY <1>4 DEF ToSet
  <2> HIDE DEF page
  <2>2. first + k - 1 \in 1..L /\ first <= first + k - 1
    BY <1>1, <1>2, <2>1
  <2> HIDE DEF first, shown, L
  <2> QED
    BY <1>3, <1>5, <2>1, <2>2
<1>7. ASSUME NEW j \in 1..L, L - j < limit PROVE own[j] \in ToSet(page)
  <2> DEFINE k == j - first + 1
  <2>1. first <= j
    BY <1>5, <1>7
  <2>2. k \in 1..shown /\ first + k - 1 = j
    <3>1. first = L - shown + 1
      OBVIOUS
    <3> HIDE DEF first, shown, L
    <3> QED
      BY <1>1, <1>2, <2>1, <3>1
  <2> HIDE DEF k, first, shown, L, page
  <2>3. page[k] = own[j]
    BY <1>3, <2>2
  <2> QED
    BY <1>4, <2>2, <2>3 DEF ToSet
<1> HIDE DEF shown, first, page
<1>8. ToSet(page) = {own[i] : i \in {j \in 1..L : L - j < limit}}
  BY <1>6, <1>7
<1> QED
  BY <1>1, <1>8 DEF first, page

(* A page of events is the same from both stores when events arrived in    *)
(* the order of their timestamps and none was lost: the last of the list   *)
(* are then those that few others are later than, for every size of page.  *)
THEOREM PagesAreAlike == Spec => []PagesAgree
<1>1. ASSUME StoreInv PROVE PagesAgree
  <2>1. SUFFICES ASSUME NEW w \in Workflow \cup {AllWorkflows},
                        NEW own, own = Only(mem.event, EventsOf(w)),
                        \A i, j \in DOMAIN own : i < j => TimeOf[own[i]] < TimeOf[own[j]],
                        ToSet(own) = pg.event \cap EventsOf(w)
                 PROVE  MemListEvents(mem, w, PageSize) = PgListEvents(pg, w, PageSize)
    BY DEF PagesAgree
  <2>2. mem.event \in Seq(Event)
    BY <1>1, Tables DEF StoreInv, Typed
  <2>3. own \in Seq(Event)
    BY <2>1, <2>2, OnlyKeeps
  <2>4. PageSize \in Nat
    BY EventAssumption
  <2>5. MemListEvents(mem, w, PageSize)
          = ToSet(SubSeq(own, Len(own) - Min({Len(own), PageSize}) + 1, Len(own)))
    BY <2>1 DEF MemListEvents
  <2>6. MemListEvents(mem, w, PageSize)
          = {own[i] : i \in {j \in 1..Len(own) : Len(own) - j < PageSize}}
    BY <2>3, <2>4, <2>5, PageIsTail
  <2>7. PgListEvents(pg, w, PageSize)
          = {e \in ToSet(own) : Cardinality({f \in ToSet(own) : TimeOf[f] > TimeOf[e]}) < PageSize}
    BY <2>1 DEF PgListEvents
  <2>8. \A i \in 1..Len(own) :
          Cardinality({f \in ToSet(own) : TimeOf[f] > TimeOf[own[i]]}) = Len(own) - i
    BY <2>1, <2>3, LaterIsBehind
  <2>9. ToSet(own) = {own[i] : i \in 1..Len(own)}
    BY <2>3 DEF ToSet
  <2> QED
    BY <2>6, <2>7, <2>8, <2>9
<1> QED
  BY <1>1, StoreInvHolds, PTL
=============================================================================
