------------------------------- MODULE Store -------------------------------
(***************************************************************************)
(* The two implementations of the Store interface of                       *)
(* internal/store/store.go, side by side: every step is one call, answered *)
(* by the memory store (memory.go) and by the Postgres store (postgres.go) *)
(* on the tables of migrations/.  An operation maps the state of a store   *)
(* to [ok, store]: whether the call returns nil, and the store after it.   *)
(* The contents of a record are abstracted to what a store looks at and to *)
(* what it does not write alike (the creation time); how Postgres encodes  *)
(* values (JSON, microseconds) is left out.  A read that returns an error  *)
(* answers Absent.                                                         *)
(***************************************************************************)
EXTENDS Naturals, Sequences, SequencesExt, FiniteSetsExt

CONSTANTS
  Workflow,        \* workflow ids
  Task,            \* task ids; the executor's artifact of task t is art-t
  Status,          \* statuses of workflow and task records
  Time,            \* creation times a caller may send
  Agent,           \* agent ids
  Data,            \* contents of agents and artifacts
  Event,           \* event ids
  WorkflowOfEvent, \* the workflow of each event
  TimeOf,          \* the timestamp of each event
  PageSize,        \* the limit ListEvents is called with
  MaxCheckpoints,  \* bound on the checkpoints made
  MaxEvents        \* bound on the events the memory store holds

ASSUME EventAssumption ==
  /\ WorkflowOfEvent \in [Event -> Workflow]
  /\ TimeOf \in [Event -> Nat]
  /\ PageSize \in Nat \ {0}   \* 0 and less stand for 200

Absent == [kind |-> "absent"]   \* no such record

WorkflowRecord == [status : Status, created : Time]

(* A task record: its status, whether Dependencies is a slice or nil, and  *)
(* CreatedAt.                                                              *)
TaskRecord == [status : Status, listed : BOOLEAN, created : Time]
ArtifactRecord == [workflow : Workflow, data : Data]

VARIABLES
  mem,    \* the memory store
  pg,     \* the Postgres store
  now,    \* the clock checkpoints are stamped with
  taken,  \* checkpoints on their way: the workflow, and the time it was stamped with
  split,  \* workflows on which the stores have answered a call differently
  parted  \* artifacts on which they have

clock == <<now, taken>>
vars == <<mem, pg, clock, split, parted>>

(* Both start empty: maps without entries, tables without rows. *)
Empty(noEvents) ==
  [workflow   |-> [w \in Workflow |-> Absent],
   task       |-> [w \in Workflow |-> [t \in Task |-> Absent]],
   checkpoint |-> [w \in Workflow |-> <<>>],
   agent      |-> [a \in Agent |-> Absent],
   artifact   |-> [t \in Task |-> Absent],
   event      |-> noEvents]

NewMemoryStore == Empty(<<>>)
NewPostgresStore == Empty({})

Init ==
  /\ mem = NewMemoryStore
  /\ pg = NewPostgresStore
  /\ now = 0
  /\ taken = {}
  /\ split = {}
  /\ parted = {}

Answer(accepted, old, new) ==
  [ok |-> accepted, store |-> IF accepted THEN new ELSE old]

(* The events ListEvents is asked for: of one workflow, or of all.         *)
AllWorkflows == ""
EventsOf(w) == {e \in Event : w = AllWorkflows \/ WorkflowOfEvent[e] = w}
----------------------------------------------------------------------------
(* The memory store: maps behind one mutex. *)

(* The events of a list that are in S, in their order: the loops over      *)
(* m.events.  (SelectSeq, as a function the provers can reason about.)     *)
Only(list, S) ==
  LET kept[i \in 0..Len(list)] ==
        IF i = 0 THEN <<>>
        ELSE IF list[i] \in S THEN Append(kept[i - 1], list[i]) ELSE kept[i - 1]
  IN  kept[Len(list)]

MemSaveWorkflow(m, w, r) == Answer(TRUE, m, [m EXCEPT !.workflow[w] = r])

MemUpdateWorkflow(m, w, r) ==
  Answer(m.workflow[w] # Absent, m, [m EXCEPT !.workflow[w] = r])

(* Mutant of MemSaveTask: the workflow is not looked up. *)
MemSaveTaskAnyway(m, w, t, r) == Answer(TRUE, m, [m EXCEPT !.task[w][t] = r])

MemSaveTask(m, w, t, r) ==
  Answer(m.workflow[w] # Absent, m, [m EXCEPT !.task[w][t] = r])

MemUpdateTask(m, w, t, r) ==
  Answer(m.task[w][t] # Absent, m, [m EXCEPT !.task[w][t] = r])

MemDeleteTask(m, w, t) ==
  Answer(m.task[w][t] # Absent, m, [m EXCEPT !.task[w][t] = Absent])

MemSaveAgent(m, a, d) == Answer(TRUE, m, [m EXCEPT !.agent[a] = d])

MemSaveArtifact(m, w, t, d) ==
  Answer(TRUE, m, [m EXCEPT !.artifact[t] = [workflow |-> w, data |-> d]])

MemSaveCheckpoint(m, w, time) ==
  Answer(TRUE, m, [m EXCEPT !.checkpoint[w] = Append(@, time)])

MemDeleteWorkflow(m, w) ==
  Answer(m.workflow[w] # Absent, m,
         [m EXCEPT !.workflow[w] = Absent,
                   !.task[w] = [t \in Task |-> Absent],
                   !.checkpoint[w] = <<>>,
                   !.event = Only(@, Event \ EventsOf(w))])

MemSaveEvent(m, e) == Answer(TRUE, m, [m EXCEPT !.event = Append(@, e)])

MemGetWorkflow(m, w) == m.workflow[w]
MemGetTask(m, w, t) == m.task[w][t]
MemGetWorkflowTasks(m, w) ==
  {<<t, m.task[w][t]>> : t \in {u \in Task : m.task[w][u] # Absent}}
MemListTasksByStatus(m, s) ==
  {k \in Workflow \X Task :
    m.task[k[1]][k[2]] # Absent /\ m.task[k[1]][k[2]].status = s}
MemListWorkflows(m) == {<<w, m.workflow[w]>> : w \in {v \in Workflow : m.workflow[v] # Absent}}

(* Mutant of MemGetLatestCheckpoint: the first of the list. *)
MemGetFirstCheckpoint(m, w) == IF m.checkpoint[w] = <<>> THEN <<>> ELSE <<Head(m.checkpoint[w])>>

MemGetLatestCheckpoint(m, w) == IF m.checkpoint[w] = <<>> THEN <<>> ELSE <<Last(m.checkpoint[w])>>

MemGetAgent(m, a) == m.agent[a]
MemListAgents(m) == {<<a, m.agent[a]>> : a \in {b \in Agent : m.agent[b] # Absent}}
MemGetArtifact(m, t) == m.artifact[t]
MemListArtifactsByWorkflow(m, w) ==
  {t \in Task : m.artifact[t] # Absent /\ m.artifact[t].workflow = w}
MemListAllArtifacts(m) == {t \in Task : m.artifact[t] # Absent}

(* Mutant of MemListEvents: the oldest events of the list. *)
MemListOldest(m, w, limit) ==
  LET own == Only(m.event, EventsOf(w))
  IN  ToSet(SubSeq(own, 1, Min({Len(own), limit})))

(* The last limit events of the list, whatever their timestamps; they are  *)
(* sorted by timestamp afterwards, here a set.                             *)
MemListEvents(m, w, limit) ==
  LET own == Only(m.event, EventsOf(w))
  IN  ToSet(SubSeq(own, Len(own) - Min({Len(own), limit}) + 1, Len(own)))
----------------------------------------------------------------------------
(* The Postgres store: one statement per call, on the tables of            *)
(* migrations/.  Dependencies is NOT NULL and pgx sends a nil slice as     *)
(* NULL; tasks and checkpoints refer to a workflow and are deleted with    *)
(* it; artifacts refer to a workflow and keep it from being deleted.       *)

(* ON CONFLICT DO UPDATE, and UPDATE: no statement sets created_at again.  *)
Over(row, r) == IF row = Absent THEN r ELSE [r EXCEPT !.created = row.created]

PgSaveWorkflow(p, w, r) == Answer(TRUE, p, [p EXCEPT !.workflow[w] = Over(@, r)])

PgUpdateWorkflow(p, w, r) ==
  Answer(p.workflow[w] # Absent, p, [p EXCEPT !.workflow[w] = Over(@, r)])

PgSaveTask(p, w, t, r) ==
  Answer(p.workflow[w] # Absent /\ r.listed, p, [p EXCEPT !.task[w][t] = Over(@, r)])

PgUpdateTask(p, w, t, r) ==
  Answer(p.task[w][t] # Absent /\ r.listed, p, [p EXCEPT !.task[w][t] = Over(@, r)])

PgDeleteTask(p, w, t) ==
  Answer(p.task[w][t] # Absent, p, [p EXCEPT !.task[w][t] = Absent])

PgSaveAgent(p, a, d) == Answer(TRUE, p, [p EXCEPT !.agent[a] = d])

(* On conflict the row keeps its workflow, and no reference is checked.    *)
(* (It keeps its created_at too; artifacts have no date here.)             *)
PgSaveArtifact(p, w, t, d) ==
  IF p.artifact[t] = Absent
    THEN Answer(p.workflow[w] # Absent, p,
                [p EXCEPT !.artifact[t] = [workflow |-> w, data |-> d]])
    ELSE Answer(TRUE, p, [p EXCEPT !.artifact[t] = [@ EXCEPT !.data = d]])

PgSaveCheckpoint(p, w, time) ==
  Answer(p.workflow[w] # Absent, p, [p EXCEPT !.checkpoint[w] = Append(@, time)])

PgListArtifactsByWorkflow(p, w) ==
  {t \in Task : p.artifact[t] # Absent /\ p.artifact[t].workflow = w}

(* Mutant of PgDeleteWorkflow: artifacts do not keep the row. *)
PgDeleteAnyway(p, w) ==
  Answer(p.workflow[w] # Absent, p,
         [p EXCEPT !.workflow[w] = Absent, !.task[w] = [t \in Task |-> Absent], !.checkpoint[w] = <<>>])

PgDeleteWorkflow(p, w) ==
  Answer(p.workflow[w] # Absent /\ PgListArtifactsByWorkflow(p, w) = {}, p,
         [p EXCEPT !.workflow[w] = Absent,
                   !.task[w] = [t \in Task |-> Absent],
                   !.checkpoint[w] = <<>>])

PgSaveEvent(p, e) == Answer(e \notin p.event, p, [p EXCEPT !.event = @ \cup {e}])

PgGetWorkflow(p, w) == p.workflow[w]
PgGetTask(p, w, t) == p.task[w][t]
PgGetWorkflowTasks(p, w) ==
  {<<t, p.task[w][t]>> : t \in {u \in Task : p.task[w][u] # Absent}}
PgListTasksByStatus(p, s) ==
  {k \in Workflow \X Task :
    p.task[k[1]][k[2]] # Absent /\ p.task[k[1]][k[2]].status = s}
PgListWorkflows(p) == {<<w, p.workflow[w]>> : w \in {v \in Workflow : p.workflow[v] # Absent}}

PgGetLatestCheckpoint(p, w) ==
  IF p.checkpoint[w] = <<>> THEN <<>> ELSE <<Max(ToSet(p.checkpoint[w]))>>

PgGetAgent(p, a) == p.agent[a]
PgListAgents(p) == {<<a, p.agent[a]>> : a \in {b \in Agent : p.agent[b] # Absent}}
PgGetArtifact(p, t) == p.artifact[t]
PgListAllArtifacts(p) == {t \in Task : p.artifact[t] # Absent}

PgListEvents(p, w, limit) ==
  LET own == p.event \cap EventsOf(w)
  IN  {e \in own : Cardinality({f \in own : TimeOf[f] > TimeOf[e]}) < limit}
----------------------------------------------------------------------------
(* One call, answered by both; the caller of one of them sees one answer.  *)
Both(m, p) == mem' = m.store /\ pg' = p.store

OnWorkflow(w, m, p) ==
  /\ Both(m, p)
  /\ split' = IF m.ok = p.ok THEN split ELSE split \cup {w}
  /\ UNCHANGED parted

OnArtifact(t, m, p) ==
  /\ Both(m, p)
  /\ parted' = IF m.ok = p.ok THEN parted ELSE parted \cup {t}
  /\ UNCHANGED split

SaveWorkflow(w, r) ==
  /\ OnWorkflow(w, MemSaveWorkflow(mem, w, r), PgSaveWorkflow(pg, w, r))
  /\ UNCHANGED clock

UpdateWorkflow(w, r) ==
  /\ OnWorkflow(w, MemUpdateWorkflow(mem, w, r), PgUpdateWorkflow(pg, w, r))
  /\ UNCHANGED clock

SaveTask(w, t, r) ==
  /\ OnWorkflow(w, MemSaveTask(mem, w, t, r), PgSaveTask(pg, w, t, r))
  /\ UNCHANGED clock

UpdateTask(w, t, r) ==
  /\ OnWorkflow(w, MemUpdateTask(mem, w, t, r), PgUpdateTask(pg, w, t, r))
  /\ UNCHANGED clock

DeleteTask(w, t) ==
  /\ OnWorkflow(w, MemDeleteTask(mem, w, t), PgDeleteTask(pg, w, t))
  /\ UNCHANGED clock

DeleteWorkflow(w) ==
  /\ OnWorkflow(w, MemDeleteWorkflow(mem, w), PgDeleteWorkflow(pg, w))
  /\ UNCHANGED clock

(* executeWorkflow stamps a checkpoint before it calls SaveCheckpoint:     *)
(* with two runs of a workflow the calls may arrive in another order.      *)
StampCheckpoint(w) ==
  /\ now < MaxCheckpoints
  /\ now' = now + 1
  /\ taken' = taken \cup {<<w, now>>}
  /\ UNCHANGED <<mem, pg, split, parted>>

SaveCheckpoint(w, time) ==
  /\ taken' = taken \ {<<w, time>>}
  /\ OnWorkflow(w, MemSaveCheckpoint(mem, w, time), PgSaveCheckpoint(pg, w, time))
  /\ UNCHANGED now

SaveArtifact(w, t, d) ==
  /\ OnArtifact(t, MemSaveArtifact(mem, w, t, d), PgSaveArtifact(pg, w, t, d))
  /\ UNCHANGED clock

SaveAgent(a, d) ==
  /\ Both(MemSaveAgent(mem, a, d), PgSaveAgent(pg, a, d))
  /\ UNCHANGED <<clock, split, parted>>

(* The audit logger only logs an error of SaveEvent. *)
SaveEvent(e) ==
  /\ Len(mem.event) < MaxEvents
  /\ Both(MemSaveEvent(mem, e), PgSaveEvent(pg, e))
  /\ UNCHANGED <<clock, split, parted>>

Next ==
  \/ \E w \in Workflow, r \in WorkflowRecord : SaveWorkflow(w, r) \/ UpdateWorkflow(w, r)
  \/ \E w \in Workflow, t \in Task, r \in TaskRecord : SaveTask(w, t, r) \/ UpdateTask(w, t, r)
  \/ \E w \in Workflow, t \in Task : DeleteTask(w, t)
  \/ \E w \in Workflow : DeleteWorkflow(w) \/ StampCheckpoint(w)
  \/ \E k \in taken : SaveCheckpoint(k[1], k[2])
  \/ \E w \in Workflow, t \in Task, d \in Data : SaveArtifact(w, t, d)
  \/ \E a \in Agent, d \in Data : SaveAgent(a, d)
  \/ \E e \in Event : SaveEvent(e)

Spec == Init /\ [][Next]_vars
----------------------------------------------------------------------------
(* Every task record belongs to a stored workflow, in both stores, and in  *)
(* Postgres every checkpoint too: no task of a deleted workflow is found   *)
(* when its id is used again.  UpdateTask relies on it: it never looks for *)
(* the workflow.  (The memory store does keep the artifacts of a deleted   *)
(* workflow, memory.go:369-387, and takes a checkpoint of one, 310-322.)   *)
NoOrphans ==
  \A w \in Workflow :
    /\ mem.workflow[w] = Absent => \A t \in Task : mem.task[w][t] = Absent
    /\ pg.workflow[w] = Absent =>
         pg.checkpoint[w] = <<>> /\ \A t \in Task : pg.task[w][t] = Absent

(* A record but for its creation time. *)
Undated(r) == IF r = Absent THEN r ELSE [r EXCEPT !.created = "undated"]

(* The rows arrived in the order they were stamped in. *)
Ascending(rows) == \A i, j \in DOMAIN rows : i < j => rows[i] < rows[j]

ReadsAgree(w) ==
  /\ Undated(MemGetWorkflow(mem, w)) = Undated(PgGetWorkflow(pg, w))
  /\ \A t \in Task : Undated(MemGetTask(mem, w, t)) = Undated(PgGetTask(pg, w, t))
  /\ {k[1] : k \in MemGetWorkflowTasks(mem, w)} = {k[1] : k \in PgGetWorkflowTasks(pg, w)}
  /\ Ascending(mem.checkpoint[w]) =>
       MemGetLatestCheckpoint(mem, w) = PgGetLatestCheckpoint(pg, w)

ArtifactsAgree(t) ==
  LET m == MemGetArtifact(mem, t)
      p == PgGetArtifact(pg, t)
  IN  (m = Absent) = (p = Absent) /\ (m # Absent => m.data = p.data)

(* Until a call on a workflow was answered differently by the two stores,  *)
(* every read of it is the same but for two things that do part silently:  *)
(* the creation time, which memory replaces (memory.go:39, 126) and        *)
(* Postgres keeps (postgres.go:68-70, 91, 152-160, 199), and the latest    *)
(* checkpoint when the calls of two runs arrived out of the order of their *)
(* times.  So are the lists.  Left out: which workflow an artifact belongs *)
(* to when two workflows have a task of that id (memory moves it, Postgres *)
(* does not).                                                              *)
AgreeUntilSplit ==
  /\ \A w \in Workflow \ split : ReadsAgree(w)
  /\ \A t \in Task \ parted : ArtifactsAgree(t)
  /\ \A a \in Agent : MemGetAgent(mem, a) = PgGetAgent(pg, a)
  /\ MemListAgents(mem) = PgListAgents(pg)
  /\ parted = {} => MemListAllArtifacts(mem) = PgListAllArtifacts(pg)
  /\ split = {} =>
       /\ {k[1] : k \in MemListWorkflows(mem)} = {k[1] : k \in PgListWorkflows(pg)}
       /\ \A s \in Status : MemListTasksByStatus(mem, s) = PgListTasksByStatus(pg, s)

(* Postgres never forgets: an artifact or an event it has stays, and so    *)
(* does the workflow of an artifact; whatever artifact or event the memory *)
(* store has of a workflow Postgres has too, unless it refused it.         *)
PostgresKeeps ==
  /\ \A w \in Workflow : PgListArtifactsByWorkflow(pg, w) # {} => pg.workflow[w] # Absent
  /\ \A w \in Workflow : MemListArtifactsByWorkflow(mem, w) \ parted \subseteq PgListAllArtifacts(pg)
  /\ ToSet(mem.event) \subseteq pg.event

(* A page of events is the same from both stores when the bus delivered    *)
(* the events in the order of their timestamps and neither store has lost  *)
(* or refused one: the memory store goes by arrival, Postgres by time.     *)
PagesAgree ==
  \A w \in Workflow \cup {AllWorkflows} :
    LET own == Only(mem.event, EventsOf(w))
    IN  /\ \A i, j \in DOMAIN own : i < j => TimeOf[own[i]] < TimeOf[own[j]]
        /\ ToSet(own) = pg.event \cap EventsOf(w)
        => MemListEvents(mem, w, PageSize) = PgListEvents(pg, w, PageSize)
=============================================================================
