----------------------------- MODULE ApiProofs -----------------------------
(***************************************************************************)
(* For any number of workflows, tasks, requests and executions, whichever  *)
(* calls of the store err and whenever the process ends: a RUNNING record  *)
(* has an owner, unless a process ended or the last calls of a goroutine   *)
(* erred; a run that nothing came across can be cancelled, finds its       *)
(* agents and, but for those calls, leaves its verdict in the record; a    *)
(* request that was alone did what it answers.                             *)
(***************************************************************************)
EXTENDS Api, TLAPS

Stored == [status : Statuses, body : Nat]

Resting == {"idle", "refused", "done", "killed"}

Place ==
  Resting \cup {"read", "ready", "saveWorkflow", "saveTasks", "running", "leaving", "tail", "tailWrite"}

RunType ==
  [pc    : Place,
   wf    : Workflow \cup {None},
   body  : Nat,
   tasks : UNION {[S -> Nat] : S \in SUBSET Task},
   todo  : SUBSET Task,
   err   : BOOLEAN]

(* The records of the store and what the executions know of them. *)
RecordsOK ==
  /\ wfRec \in [Workflow -> {Absent} \cup Stored]
  /\ taskRec \in [Workflow -> [Task -> Nat]]
  /\ left \subseteq Workflow

RunsOK ==
  /\ run \in [Exec -> RunType]
  /\ \A e \in Exec :
       /\ run[e].pc \notin Resting => run[e].wf \in Workflow
       /\ run[e].pc \in {"saveTasks", "running"} => run[e].todo \subseteq DOMAIN run[e].tasks

(* Executions that will still write the record, or read it to see whether  *)
(* they must: not those that leave Execute with a success, which have      *)
(* written COMPLETED.                                                      *)
Owes(e) ==
  \/ run[e].pc \in {"running", "tail", "tailWrite"}
  \/ run[e].pc = "leaving" /\ run[e].err

Owned(w) == w \in left \/ \E e \in Exec : Owes(e) /\ run[e].wf = w

AllOwned == \A w \in Workflow : wfRec[w].status = "RUNNING" => Owned(w)

OwnerInv == RecordsOK /\ RunsOK /\ AllOwned
----------------------------------------------------------------------------
LEMMA InvInitially == Init => OwnerInv
<1> SUFFICES ASSUME Init PROVE OwnerInv
  OBVIOUS
<1>1. RecordsOK
  BY DEF Init, RecordsOK
<1>2. [t \in {} |-> 0] \in UNION {[S -> Nat] : S \in SUBSET Task}
  <2>1. [t \in {} |-> 0] \in [{} -> Nat]
    OBVIOUS
  <2> QED BY <2>1
<1>3. Goroutine("idle") \in RunType
  BY <1>2 DEF Goroutine, RunType, Place, Resting
<1>4. \A e \in Exec : run[e] = Goroutine("idle")
  BY DEF Init
<1>5. RunsOK
  BY <1>3, <1>4 DEF Init, RunsOK, Goroutine, Resting
<1>6. AllOwned
  BY DEF Init, AllOwned, Absent, None
<1> QED BY <1>1, <1>5, <1>6 DEF OwnerInv

(* An execution that has ended. *)
LEMMA EndTyped ==
  ASSUME NEW pc \in Resting
  PROVE  /\ Goroutine(pc) \in RunType
         /\ Goroutine(pc).pc = pc
         /\ Goroutine(pc).wf = None
<1>1. [t \in {} |-> 0] \in UNION {[S -> Nat] : S \in SUBSET Task}
  <2>1. [t \in {} |-> 0] \in [{} -> Nat]
    OBVIOUS
  <2> QED BY <2>1
<1> QED BY <1>1 DEF Goroutine, RunType, Place

(* What Put does to the records. *)
LEMMA PutKeeps ==
  ASSUME RecordsOK, NEW v \in Workflow, NEW rec \in {Absent} \cup Stored, Put(v, rec)
  PROVE  /\ wfRec' \in [Workflow -> {Absent} \cup Stored]
         /\ left' \subseteq Workflow
         /\ wfRec'[v] = rec
         /\ \A w \in Workflow \ {v} : wfRec'[w] = wfRec[w] /\ (w \in left => w \in left')
  BY DEF RecordsOK, Put

LEMMA TaskWritten ==
  ASSUME RecordsOK, NEW v, NEW t, NEW x \in Nat,
         taskRec' = [taskRec EXCEPT ![v][t] = x] \/ taskRec' = taskRec
  PROVE  taskRec' \in [Workflow -> [Task -> Nat]]
<1> SUFFICES ASSUME v \in Workflow, taskRec' = [taskRec EXCEPT ![v][t] = x]
             PROVE  taskRec' \in [Workflow -> [Task -> Nat]]
  BY DEF RecordsOK
<1>1. taskRec[v] \in [Task -> Nat]
  BY DEF RecordsOK
<1>2. [taskRec[v] EXCEPT ![t] = x] \in [Task -> Nat]
  BY <1>1
<1>3. taskRec' = [taskRec EXCEPT ![v] = [taskRec[v] EXCEPT ![t] = x]]
  BY DEF RecordsOK
<1> QED BY <1>2, <1>3 DEF RecordsOK

(* A step of no execution that writes RUNNING nowhere. *)
LEMMA OthersKeep ==
  ASSUME OwnerInv, run' = run, RecordsOK',
         \A w \in Workflow : wfRec'[w].status = "RUNNING" =>
            wfRec[w].status = "RUNNING" /\ (w \in left => w \in left')
  PROVE  OwnerInv'
<1>1. RunsOK'
  BY DEF OwnerInv, RunsOK
<1>2. AllOwned'
  BY DEF OwnerInv, AllOwned, Owned, Owes
<1> QED BY <1>1, <1>2 DEF OwnerInv

(* A step of one execution: a record that is RUNNING afterwards was so and *)
(* keeps its owner, or the execution owns it now.                          *)
LEMMA ExecKeeps ==
  ASSUME OwnerInv, RecordsOK', NEW e \in Exec,
         NEW r \in RunType, run' = [run EXCEPT ![e] = r],
         r.pc \notin Resting => r.wf \in Workflow,
         r.pc \in {"saveTasks", "running"} => r.todo \subseteq DOMAIN r.tasks,
         \A w \in Workflow : wfRec'[w].status = "RUNNING" =>
            \/ Owes(e)' /\ r.wf = w
            \/ /\ wfRec[w].status = "RUNNING"
               /\ w \in left => w \in left'
               /\ Owes(e) => run[e].wf # w
  PROVE  OwnerInv'
<1>1. /\ run'[e] = r
      /\ \A d \in Exec \ {e} : run'[d] = run[d]
      /\ run' \in [Exec -> RunType]
  BY DEF OwnerInv, RunsOK
<1>2. RunsOK'
  BY <1>1 DEF OwnerInv, RunsOK
<1>3. ASSUME NEW w \in Workflow, wfRec'[w].status = "RUNNING"
      PROVE  Owned(w)'
  <2>1. CASE Owes(e)' /\ r.wf = w
    BY <2>1, <1>1 DEF Owned
  <2>2. CASE /\ wfRec[w].status = "RUNNING"
             /\ w \in left => w \in left'
             /\ Owes(e) => run[e].wf # w
    <3>1. Owned(w)
      BY <2>2 DEF OwnerInv, AllOwned
    <3>2. CASE w \in left
      BY <2>2, <3>2 DEF Owned
    <3>3. ASSUME NEW d \in Exec, Owes(d), run[d].wf = w PROVE Owned(w)'
      <4>1. d # e
        BY <2>2, <3>3
      <4>2. run'[d] = run[d]
        BY <1>1, <4>1
      <4> QED BY <3>3, <4>2 DEF Owned, Owes
    <3> QED BY <3>1, <3>2, <3>3 DEF Owned
  <2> QED BY <1>3, <2>1, <2>2
<1> QED BY <1>2, <1>3 DEF OwnerInv, AllOwned
----------------------------------------------------------------------------
LEMMA RequestKeeps ==
  ASSUME OwnerInv, NEW r \in Request, RequestStep(r)
  PROVE  OwnerInv'
<1>1. RecordsOK
  BY DEF OwnerInv
<1>2. r \in Nat
  BY SetsAssumption DEF Request
<1>3. ASSUME NEW w \in Workflow, NEW rec \in {Absent} \cup Stored, Put(w, rec), run' = run,
             rec.status # "RUNNING", taskRec' \in [Workflow -> [Task -> Nat]]
      PROVE  OwnerInv'
  <2>1. /\ RecordsOK'
        /\ wfRec'[w] = rec
        /\ \A v \in Workflow \ {w} : wfRec'[v] = wfRec[v] /\ (v \in left => v \in left')
    BY <1>1, <1>3, PutKeeps DEF RecordsOK
  <2> QED BY <1>3, <2>1, OthersKeep
<1>4. ASSUME UNCHANGED <<wfRec, left, run>>, taskRec' \in [Workflow -> [Task -> Nat]]
      PROVE  OwnerInv'
  <2>1. RecordsOK'
    BY <1>1, <1>4 DEF RecordsOK
  <2> QED BY <1>4, <2>1, OthersKeep
<1>5. [status |-> "PENDING", body |-> r] \in Stored
  BY <1>2 DEF Stored, Statuses
<1>6. ASSUME NEW w \in Workflow, NEW S \in Bodies, CreateWorkflow(r, w, S) \/ UpdateWorkflow(r, w, S)
      PROVE  OwnerInv'
  <2>1. /\ Put(w, [status |-> "PENDING", body |-> r])
        /\ run' = run
        /\ taskRec' = taskRec
    BY <1>6 DEF CreateWorkflow, UpdateWorkflow, RequestFrame
  <2> QED BY <1>1, <1>3, <1>5, <2>1 DEF RecordsOK
<1>7. ASSUME NEW w \in Workflow, DeleteWorkflow(r, w) PROVE OwnerInv'
  <2>1. /\ Put(w, Absent)
        /\ run' = run
        /\ taskRec' = [taskRec EXCEPT ![w] = [t \in Task |-> 0]]
    BY <1>7 DEF DeleteWorkflow, RequestFrame
  <2>2. taskRec' \in [Workflow -> [Task -> Nat]]
    BY <1>1, <2>1 DEF RecordsOK
  <2>3. Absent.status # "RUNNING"
    BY DEF Absent, None
  <2> QED BY <1>3, <2>1, <2>2, <2>3
<1>8. ASSUME NEW t \in Task, NEW b \in BOOLEAN, WriteTask(r, t, b) PROVE OwnerInv'
  <2>1. /\ taskRec' = [taskRec EXCEPT ![req[r].wf][t] = r] \/ taskRec' = taskRec
        /\ UNCHANGED <<wfRec, left, run>>
    BY <1>8 DEF WriteTask, RequestFrame
  <2>2. taskRec' \in [Workflow -> [Task -> Nat]]
    BY <1>1, <1>2, <2>1, TaskWritten
  <2> QED BY <1>4, <2>1, <2>2
<1>9. ASSUME NEW t \in Task, CreateTask(r, t) \/ LookUpTask(r, t) \/ UpdateTask(r, t)
      PROVE  OwnerInv'
  <2>1. CASE \E b \in BOOLEAN : WriteTask(r, t, b)
    BY <1>8, <2>1
  <2>2. CASE UNCHANGED <<wfRec, taskRec, left, run>>
    BY <1>1, <1>4, <2>2 DEF RecordsOK
  <2> QED BY <1>9, <2>1, <2>2 DEF CreateTask, LookUpTask, UpdateTask, SaveTaskOf, RequestFrame, records
<1>10. ASSUME NEW t \in Task, DeleteTask(r, t) PROVE OwnerInv'
  <2>1. /\ taskRec' = [taskRec EXCEPT ![req[r].wf][t] = 0] \/ taskRec' = taskRec
        /\ UNCHANGED <<wfRec, left, run>>
    BY <1>10 DEF DeleteTask, RequestFrame
  <2>2. taskRec' \in [Workflow -> [Task -> Nat]]
    BY <1>1, <2>1, TaskWritten
  <2> QED BY <1>4, <2>1, <2>2
<1>11. ASSUME ListExisting(r) \/ Respond(r) \/ RequestErrs(r) PROVE OwnerInv'
  <2>1. UNCHANGED <<wfRec, taskRec, left, run>>
    BY <1>11 DEF ListExisting, Respond, RequestErrs, RequestFrame, records
  <2> QED BY <1>1, <1>4, <2>1 DEF RecordsOK
<1> QED BY <1>6, <1>7, <1>9, <1>10, <1>11 DEF RequestStep
----------------------------------------------------------------------------
(* Steps of an execution: how its record changes. *)
LEMMA GoTyped ==
  ASSUME NEW r \in RunType, NEW pc \in Place
  PROVE  LET q == [r EXCEPT !.pc = pc]
         IN  /\ q \in RunType
             /\ q.pc = pc /\ q.wf = r.wf /\ q.tasks = r.tasks /\ q.todo = r.todo /\ q.err = r.err
  BY DEF RunType

LEMMA FailTyped ==
  ASSUME NEW r \in RunType
  PROVE  LET q == [r EXCEPT !.pc = "leaving", !.err = TRUE]
         IN  /\ q \in RunType
             /\ q.pc = "leaving" /\ q.wf = r.wf /\ q.err
  BY DEF RunType, Place

LEMMA RunTyped ==
  ASSUME OwnerInv, NEW e \in Exec
  PROVE  /\ run \in [Exec -> RunType]
         /\ run[e] \in RunType
         /\ run[e].pc \notin Resting => run[e].wf \in Workflow
         /\ run[e].tasks \in UNION {[S -> Nat] : S \in SUBSET Task}
         /\ run[e].body \in Nat
         /\ run[e].pc \in {"saveTasks", "running"} => run[e].todo \subseteq DOMAIN run[e].tasks
         /\ RecordsOK
  BY DEF OwnerInv, RunsOK, RunType

(* A step that only moves the execution on, without losing what it owes.   *)
LEMMA MoveKeeps ==
  ASSUME OwnerInv, NEW e \in Exec, NEW pc \in Place \ Resting,
         RunGoTo(e, pc),
         run[e].pc \notin Resting, pc \notin {"saveTasks", "running"},
         UNCHANGED <<wfRec, taskRec, left>>,
         Owes(e) => (pc \in {"tail", "tailWrite"} \/ (pc = "leaving" /\ run[e].err))
  PROVE  OwnerInv'
<1> DEFINE q == [run[e] EXCEPT !.pc = pc]
<1>1. q \in RunType /\ q.pc = pc /\ q.wf = run[e].wf /\ q.err = run[e].err
  BY RunTyped, GoTyped
<1>2. run' = [run EXCEPT ![e] = q]
  BY RunTyped DEF RunGoTo
<1>3. RecordsOK'
  BY RunTyped DEF RecordsOK
<1>4. Owes(e) => Owes(e)'
  <2>1. run'[e].pc = pc /\ run'[e].err = run[e].err
    BY <1>1, <1>2, RunTyped
  <2> QED BY <2>1 DEF Owes
<1>5. run[e].wf \in Workflow
  BY RunTyped
<1>6. \A w \in Workflow : wfRec'[w].status = "RUNNING" =>
        \/ Owes(e)' /\ q.wf = w
        \/ wfRec[w].status = "RUNNING" /\ (w \in left => w \in left') /\ (Owes(e) => run[e].wf # w)
  BY <1>1, <1>4
<1>7. q.pc \notin {"saveTasks", "running"} /\ q.wf \in Workflow
  BY <1>1, <1>5
<1> HIDE DEF q
<1> QED BY <1>1, <1>2, <1>3, <1>6, <1>7, ExecKeeps

(* An execution that fails goes on to the tail of the API's goroutine.     *)
LEMMA FailKeeps ==
  ASSUME OwnerInv, NEW e \in Exec, Fails(e), run[e].pc \notin Resting,
         RecordsOK',
         \A w \in Workflow : wfRec'[w].status = "RUNNING" =>
           wfRec[w].status = "RUNNING" /\ (w \in left => w \in left')
  PROVE  OwnerInv'
<1> DEFINE q == [run[e] EXCEPT !.pc = "leaving", !.err = TRUE]
<1>1. q \in RunType /\ q.pc = "leaving" /\ q.wf = run[e].wf /\ q.err
  BY RunTyped, FailTyped
<1>2. run' = [run EXCEPT ![e] = q]
  BY RunTyped DEF Fails
<1>3. Owes(e)'
  <2>1. run'[e] = q
    BY <1>2, RunTyped
  <2> QED BY <1>1, <2>1 DEF Owes
<1> HIDE DEF q
<1> QED BY <1>1, <1>2, <1>3, ExecKeeps, RunTyped

(* An execution that ends owes nothing, or not for a RUNNING record.       *)
LEMMA EndKeeps ==
  ASSUME OwnerInv, NEW e \in Exec, NEW pc \in Resting, RunEnds(e, pc), RecordsOK',
         \A w \in Workflow : wfRec'[w].status = "RUNNING" =>
            /\ wfRec[w].status = "RUNNING"
            /\ w \in left => w \in left'
            /\ Owes(e) => run[e].wf # w
  PROVE  OwnerInv'
<1>1. Goroutine(pc) \in RunType /\ Goroutine(pc).pc = pc
  BY EndTyped
<1>2. run' = [run EXCEPT ![e] = Goroutine(pc)]
  BY DEF RunEnds
<1>3. pc \notin {"saveTasks", "running"}
  BY DEF Resting
<1> QED BY <1>1, <1>2, <1>3, ExecKeeps

(* UpdateWorkflow and SaveWorkflow of an execution with another status     *)
(* than RUNNING.                                                           *)
LEMMA PutByExec ==
  ASSUME OwnerInv, NEW e \in Exec, run[e].pc \notin Resting, taskRec' = taskRec,
         NEW status \in Statuses, NEW b \in Nat,
         Put(run[e].wf, [status |-> status, body |-> b])
  PROVE  /\ RecordsOK'
         /\ wfRec'[run[e].wf].status = status
         /\ \A w \in Workflow \ {run[e].wf} : wfRec'[w] = wfRec[w] /\ (w \in left => w \in left')
<1>1. [status |-> status, body |-> b] \in Stored
  BY DEF Stored
<1> QED BY <1>1, RunTyped, PutKeeps DEF RecordsOK
----------------------------------------------------------------------------
LEMMA GetWorkflowKeeps ==
  ASSUME OwnerInv, NEW e \in Exec, NEW w \in Workflow, GetWorkflow(e, w)
  PROVE  OwnerInv'
<1> DEFINE q == [run[e] EXCEPT !.pc = "read", !.wf = w, !.body = wfRec[w].body]
<1>1. /\ run' = [run EXCEPT ![e] = q] /\ UNCHANGED <<wfRec, taskRec, left>>
      /\ run[e].pc = "idle" /\ wfRec[w] # Absent
  BY RunTyped DEF GetWorkflow, ReadOnly
<1>2. wfRec[w].body \in Nat
  BY <1>1 DEF OwnerInv, RecordsOK, Stored
<1>3. q \in RunType /\ q.pc = "read" /\ q.wf = w
  BY <1>2, RunTyped DEF RunType, Place
<1>4. RecordsOK' /\ ~Owes(e)
  BY <1>1 DEF OwnerInv, RecordsOK, Owes
<1> HIDE DEF q
<1> QED BY <1>1, <1>3, <1>4, ExecKeeps

LEMMA GetTasksKeeps ==
  ASSUME OwnerInv, NEW e \in Exec, GetTasks(e)
  PROVE  OwnerInv'
<1> DEFINE S == {t \in Task : taskRec[run[e].wf][t] # 0}
           known == [t \in S |-> taskRec[run[e].wf][t]]
           q == [run[e] EXCEPT !.pc = "ready", !.tasks = known]
<1>1. /\ UNCHANGED <<wfRec, taskRec, left>>
      /\ run[e].pc = "read"
      /\ RunEnds(e, "refused") \/ run' = [run EXCEPT ![e] = q]
  BY RunTyped DEF GetTasks, ReadOnly
<1>2. RecordsOK' /\ ~Owes(e)
  BY <1>1 DEF OwnerInv, RecordsOK, Owes
<1>3. CASE RunEnds(e, "refused")
  BY <1>1, <1>2, <1>3, EndKeeps DEF Resting
<1>4. CASE run' = [run EXCEPT ![e] = q]
  <2>1. run[e].wf \in Workflow
    BY <1>1, RunTyped DEF Resting
  <2>2. \A t \in S : taskRec[run[e].wf][t] \in Nat
    BY <2>1 DEF OwnerInv, RecordsOK
  <2>3. known \in [S -> Nat] /\ S \in SUBSET Task
    BY <2>2
  <2> HIDE DEF known, S
  <2>4. known \in UNION {[U -> Nat] : U \in SUBSET Task}
    BY <2>3
  <2>5. q \in RunType /\ q.pc = "ready" /\ q.wf = run[e].wf
    BY <2>4, RunTyped DEF RunType, Place
  <2> HIDE DEF q
  <2> QED BY <1>1, <1>2, <1>4, <2>1, <2>5, ExecKeeps
<1> QED BY <1>1, <1>3, <1>4

LEMMA SaveWorkflowKeeps ==
  ASSUME OwnerInv, NEW e \in Exec, SaveWorkflow(e)
  PROVE  OwnerInv'
<1> DEFINE q == [run[e] EXCEPT !.pc = "saveTasks", !.todo = DOMAIN run[e].tasks]
<1>1. run[e].pc = "saveWorkflow" /\ run[e].pc \notin Resting /\ taskRec' = taskRec
  BY DEF SaveWorkflow, Resting
<1>2. CASE /\ Put(run[e].wf, [status |-> "PENDING", body |-> run[e].body])
           /\ run' = [run EXCEPT ![e] = q]
  <2>1. /\ RecordsOK'
        /\ wfRec'[run[e].wf].status = "PENDING"
        /\ \A w \in Workflow \ {run[e].wf} : wfRec'[w] = wfRec[w] /\ (w \in left => w \in left')
    BY <1>1, <1>2, RunTyped, PutByExec DEF Statuses
  <2>2. DOMAIN run[e].tasks \in SUBSET Task
    BY RunTyped
  <2>3. q \in RunType /\ q.pc = "saveTasks" /\ q.wf = run[e].wf /\ q.tasks = run[e].tasks
        /\ q.todo = DOMAIN run[e].tasks
    <3>1. run[e] \in RunType /\ "saveTasks" \in Place
      BY RunTyped DEF Place
    <3> QED BY <2>2, <3>1 DEF RunType
  <2>4. ~Owes(e) /\ run[e].wf \in Workflow
    BY <1>1, RunTyped DEF Owes, Resting
  <2>5. \A w \in Workflow : wfRec'[w].status = "RUNNING" =>
          wfRec[w].status = "RUNNING" /\ (w \in left => w \in left')
    BY <2>1
  <2>6. q.wf \in Workflow /\ q.todo \subseteq DOMAIN q.tasks
    BY <2>3, <2>4
  <2> HIDE DEF q
  <2> QED BY <1>2, <2>1, <2>3, <2>4, <2>5, <2>6, ExecKeeps
<1>3. CASE Fails(e) /\ UNCHANGED <<wfRec, left>>
  <2>1. RecordsOK'
    BY <1>1, <1>3 DEF OwnerInv, RecordsOK
  <2> QED BY <1>1, <1>3, <2>1, FailKeeps
<1> QED BY <1>2, <1>3, RunTyped DEF SaveWorkflow

(* A task record is written, and the task is done with. *)
TaskDone(e, t) ==
  /\ t \in run[e].todo
  /\ taskRec' = [taskRec EXCEPT ![run[e].wf][t] = run[e].tasks[t]]
  /\ run' = [run EXCEPT ![e].todo = @ \ {t}]
  /\ UNCHANGED <<wfRec, left>>

LEMMA TaskKeeps ==
  ASSUME OwnerInv, NEW e \in Exec, NEW t, run[e].pc \in {"saveTasks", "running"}, TaskDone(e, t)
  PROVE  OwnerInv'
<1> DEFINE q == [run[e] EXCEPT !.todo = run[e].todo \ {t}]
<1>1. run[e].tasks[t] \in Nat /\ t \in run[e].todo /\ UNCHANGED <<wfRec, left>>
  BY RunTyped DEF TaskDone
<1>2. RecordsOK'
  <2>1. taskRec' \in [Workflow -> [Task -> Nat]]
    BY <1>1, RunTyped, TaskWritten DEF TaskDone
  <2> QED BY <1>1, <2>1, RunTyped DEF RecordsOK
<1>3. run' = [run EXCEPT ![e] = q]
  BY RunTyped DEF TaskDone
<1>4. /\ q \in RunType
      /\ q.pc = run[e].pc /\ q.wf = run[e].wf /\ q.tasks = run[e].tasks /\ q.err = run[e].err
      /\ q.todo = run[e].todo \ {t}
  BY RunTyped DEF RunType
<1>5. q.pc \notin Resting /\ q.wf \in Workflow /\ q.todo \subseteq DOMAIN q.tasks
  BY <1>4, RunTyped DEF Resting
<1>6. Owes(e) => Owes(e)'
  <2>1. run'[e] = q
    BY <1>3, RunTyped
  <2> QED BY <1>4, <2>1 DEF Owes
<1>7. \A w \in Workflow : wfRec'[w].status = "RUNNING" =>
        \/ Owes(e)' /\ q.wf = w
        \/ wfRec[w].status = "RUNNING" /\ (w \in left => w \in left') /\ (Owes(e) => run[e].wf # w)
  BY <1>1, <1>4, <1>6
<1> HIDE DEF q
<1> QED BY <1>2, <1>3, <1>4, <1>5, <1>7, ExecKeeps, ZenonT(60)

LEMMA SaveTaskKeeps ==
  ASSUME OwnerInv, NEW e \in Exec, NEW t \in Task, SaveTask(e, t)
  PROVE  OwnerInv'
<1>1. run[e].pc = "saveTasks"
  BY DEF SaveTask
<1>2. CASE TaskDone(e, t)
  BY <1>1, <1>2, TaskKeeps
<1>3. CASE Fails(e) /\ UNCHANGED <<wfRec, taskRec, left>>
  <2>1. RecordsOK' /\ run[e].pc \notin Resting
    BY <1>1, <1>3 DEF OwnerInv, RecordsOK, Resting
  <2> QED BY <1>3, <2>1, FailKeeps
<1> QED BY <1>2, <1>3 DEF SaveTask, TaskDone

LEMMA StartWorkflowKeeps ==
  ASSUME OwnerInv, NEW e \in Exec, StartWorkflow(e)
  PROVE  OwnerInv'
<1> DEFINE q == [run[e] EXCEPT !.pc = "running", !.todo = DOMAIN run[e].tasks]
<1>1. run[e].pc = "saveTasks" /\ run[e].pc \notin Resting /\ taskRec' = taskRec
  BY DEF StartWorkflow, Store, Resting
<1>2. CASE /\ Put(run[e].wf, [status |-> "RUNNING", body |-> run[e].body])
           /\ run' = [run EXCEPT ![e] = q]
  <2>2. /\ RecordsOK'
        /\ \A w \in Workflow \ {run[e].wf} : wfRec'[w] = wfRec[w] /\ (w \in left => w \in left')
    BY <1>1, <1>2, RunTyped, PutByExec DEF Statuses
  <2>3. DOMAIN run[e].tasks \in SUBSET Task
    BY RunTyped
  <2>4. q \in RunType /\ q.pc = "running" /\ q.wf = run[e].wf /\ q.tasks = run[e].tasks
        /\ q.todo = DOMAIN run[e].tasks
    <3>1. run[e] \in RunType /\ "running" \in Place
      BY RunTyped DEF Place
    <3> QED BY <2>3, <3>1 DEF RunType
  <2>5. Owes(e)' /\ run[e].wf \in Workflow
    <3>1. run'[e] = q
      BY <1>2, RunTyped
    <3> QED BY <1>1, <2>4, <3>1, RunTyped DEF Owes
  <2>6. ~Owes(e)
    BY <1>1 DEF Owes
  <2>7. \A w \in Workflow : wfRec'[w].status = "RUNNING" =>
          \/ Owes(e)' /\ q.wf = w
          \/ wfRec[w].status = "RUNNING" /\ (w \in left => w \in left') /\ (Owes(e) => run[e].wf # w)
    BY <2>2, <2>4, <2>5, <2>6
  <2>8. q.wf \in Workflow /\ q.todo \subseteq DOMAIN q.tasks
    BY <2>4, <2>5
  <2> HIDE DEF q
  <2> QED BY <1>2, <2>2, <2>4, <2>7, <2>8, ExecKeeps, ZenonT(60)
<1>3. CASE Fails(e) /\ UNCHANGED <<wfRec, left>>
  <2>1. RecordsOK'
    BY <1>1, <1>3 DEF OwnerInv, RecordsOK
  <2> QED BY <1>1, <1>3, <2>1, FailKeeps
<1> QED BY <1>2, <1>3, RunTyped DEF StartWorkflow, Store

LEMMA RunTaskKeeps ==
  ASSUME OwnerInv, NEW e \in Exec, NEW t \in Task, RunTask(e, t)
  PROVE  OwnerInv'
<1>1. TaskDone(e, t) /\ run[e].pc = "running"
  BY DEF RunTask, TaskDone
<1> QED BY <1>1, TaskKeeps

LEMMA StageFailsKeeps ==
  ASSUME OwnerInv, NEW e \in Exec, StageFails(e)
  PROVE  OwnerInv'
<1>1. run[e].pc = "running" /\ run[e].pc \notin Resting /\ taskRec' = taskRec /\ Fails(e)
  BY DEF StageFails, Store, Resting
<1>2. CASE Put(run[e].wf, [status |-> "FAILED", body |-> run[e].body])
  BY <1>1, <1>2, RunTyped, PutByExec, FailKeeps DEF Statuses
<1>3. CASE UNCHANGED <<wfRec, left>>
  <2>1. RecordsOK'
    BY <1>1, <1>3 DEF OwnerInv, RecordsOK
  <2> QED BY <1>1, <1>3, <2>1, FailKeeps
<1> QED BY <1>2, <1>3 DEF StageFails, Store

LEMMA CompleteWorkflowKeeps ==
  ASSUME OwnerInv, NEW e \in Exec, CompleteWorkflow(e)
  PROVE  OwnerInv'
<1> DEFINE q == [run[e] EXCEPT !.pc = "leaving"]
<1>1. run[e].pc = "running" /\ run[e].pc \notin Resting /\ taskRec' = taskRec
  BY DEF CompleteWorkflow, Store, Resting
<1>2. CASE /\ Put(run[e].wf, [status |-> "COMPLETED", body |-> run[e].body])
           /\ run' = [run EXCEPT ![e] = q]
  <2>2. /\ RecordsOK'
        /\ wfRec'[run[e].wf].status = "COMPLETED"
        /\ \A w \in Workflow \ {run[e].wf} : wfRec'[w] = wfRec[w] /\ (w \in left => w \in left')
    BY <1>1, <1>2, RunTyped, PutByExec DEF Statuses
  <2>3. q \in RunType /\ q.pc = "leaving" /\ q.wf = run[e].wf
    BY RunTyped, GoTyped DEF Place
  <2>4. run[e].wf \in Workflow
    BY <1>1, RunTyped
  <2> HIDE DEF q
  <2> QED BY <1>2, <2>2, <2>3, <2>4, ExecKeeps, ZenonT(60)
<1>3. CASE Fails(e) /\ UNCHANGED <<wfRec, left>>
  <2>1. RecordsOK'
    BY <1>1, <1>3 DEF OwnerInv, RecordsOK
  <2> QED BY <1>1, <1>3, <2>1, FailKeeps
<1> QED BY <1>2, <1>3, RunTyped DEF CompleteWorkflow, Store, RunGoTo

LEMMA LeaveKeeps ==
  ASSUME OwnerInv, NEW e \in Exec, Leave(e)
  PROVE  OwnerInv'
<1>1. run[e].pc = "leaving" /\ UNCHANGED <<wfRec, taskRec, left>>
  BY DEF Leave, records
<1>2. RecordsOK' /\ run[e].pc \notin Resting
  BY <1>1 DEF OwnerInv, RecordsOK, Resting
<1>3. CASE run[e].err
  BY <1>1, <1>2, <1>3, MoveKeeps DEF Leave, Place, Resting
<1>4. CASE ~run[e].err
  <2>1. RunEnds(e, "done") /\ ~Owes(e)
    BY <1>1, <1>4 DEF Leave, Owes
  <2> QED BY <1>1, <1>2, <2>1, EndKeeps DEF Resting
<1> QED BY <1>3, <1>4

(* An execution whose verdict is lost leaves its workflow behind. *)
LEMMA LostKeeps ==
  ASSUME OwnerInv, NEW e \in Exec, VerdictLost(e), taskRec' = taskRec, run[e].pc \notin Resting
  PROVE  OwnerInv'
<1> DEFINE v == run[e].wf
           q == Goroutine("done")
<1>1. /\ wfRec' = wfRec /\ left' = left \cup {v}
      /\ run' = [run EXCEPT ![e] = q]
  BY DEF VerdictLost, RunEnds
<1>2. v \in Workflow /\ q \in RunType /\ q.pc = "done"
  BY RunTyped, EndTyped DEF Resting
<1>3. RecordsOK'
  BY <1>1, <1>2, RunTyped DEF RecordsOK
<1>4. RunsOK'
  <2>1. run'[e] = q /\ run' \in [Exec -> RunType] /\ \A d \in Exec \ {e} : run'[d] = run[d]
    BY <1>1, <1>2, RunTyped
  <2>2. q.pc \in Resting /\ q.pc \notin {"saveTasks", "running"}
    BY <1>2 DEF Resting
  <2> HIDE DEF q
  <2> QED BY <2>1, <2>2 DEF OwnerInv, RunsOK
<1>5. AllOwned'
  <2>1. ASSUME NEW w \in Workflow, wfRec[w].status = "RUNNING" PROVE Owned(w)'
    <3>1. CASE w \in left \cup {v}
      BY <1>1, <3>1 DEF Owned
    <3>2. CASE w \notin left \cup {v}
      <4>1. PICK d \in Exec : Owes(d) /\ run[d].wf = w
        BY <2>1, <3>2 DEF OwnerInv, AllOwned, Owned
      <4>2. d # e
        BY <3>2, <4>1
      <4>3. run'[d] = run[d]
        BY <1>1, <4>2, RunTyped
      <4> QED BY <4>1, <4>3 DEF Owned, Owes
    <3> QED BY <3>1, <3>2
  <2> QED BY <1>1, <2>1 DEF AllOwned
<1> QED BY <1>3, <1>4, <1>5 DEF OwnerInv

LEMMA TailReadKeeps ==
  ASSUME OwnerInv, NEW e \in Exec, TailRead(e)
  PROVE  OwnerInv'
<1> DEFINE v == run[e].wf
           q == [run[e] EXCEPT !.pc = "tailWrite", !.body = wfRec[v].body]
           settled == wfRec[v] = Absent \/ wfRec[v].status = "FAILED"
<1>1. run[e].pc = "tail" /\ run[e].pc \notin Resting /\ taskRec' = taskRec
  BY DEF TailRead, Resting
<1>2. v \in Workflow
  BY <1>1, RunTyped
<1>3. CASE settled /\ RunEnds(e, "done") /\ UNCHANGED <<wfRec, left>>
  <2>1. RecordsOK' /\ wfRec[v].status # "RUNNING"
    BY <1>1, <1>3, RunTyped DEF RecordsOK, Absent, None
  <2> QED BY <1>3, <2>1, EndKeeps DEF Resting
<1>4. CASE ~ settled /\ run' = [run EXCEPT ![e] = q] /\ UNCHANGED <<wfRec, left>>
  <2>1. RecordsOK'
    BY <1>1, <1>4, RunTyped DEF RecordsOK
  <2>2. wfRec[v].body \in Nat
    BY <1>2, <1>4, RunTyped DEF RecordsOK, Stored
  <2>3. q \in RunType /\ q.pc = "tailWrite" /\ q.wf = v
    BY <2>2, RunTyped DEF RunType, Place
  <2>4. Owes(e)'
    <3>1. run'[e] = q
      BY <1>4, RunTyped
    <3> QED BY <2>3, <3>1 DEF Owes
  <2> HIDE DEF q, v
  <2> QED BY <1>2, <1>4, <2>1, <2>3, <2>4, ExecKeeps DEF v
<1>5. CASE VerdictLost(e)
  BY <1>1, <1>5, LostKeeps
<1> QED BY <1>3, <1>4, <1>5, RunTyped DEF TailRead

LEMMA TailWriteKeeps ==
  ASSUME OwnerInv, NEW e \in Exec, TailWrite(e)
  PROVE  OwnerInv'
<1>1. run[e].pc = "tailWrite" /\ run[e].pc \notin Resting /\ taskRec' = taskRec
  BY DEF TailWrite, Resting
<1>2. run[e].wf \in Workflow
  BY <1>1, RunTyped
<1>3. CASE Put(run[e].wf, [status |-> "FAILED", body |-> run[e].body]) /\ RunEnds(e, "done")
  <2>1. /\ RecordsOK'
        /\ wfRec'[run[e].wf].status = "FAILED"
        /\ \A w \in Workflow \ {run[e].wf} : wfRec'[w] = wfRec[w] /\ (w \in left => w \in left')
    BY <1>1, <1>3, RunTyped, PutByExec DEF Statuses
  <2> QED BY <1>2, <1>3, <2>1, EndKeeps DEF Resting
<1>4. CASE wfRec[run[e].wf] = Absent /\ RunEnds(e, "done") /\ UNCHANGED <<wfRec, left>>
  <2>1. RecordsOK' /\ wfRec'[run[e].wf].status # "RUNNING"
    BY <1>1, <1>4 DEF OwnerInv, RecordsOK, Absent, None
  <2> QED BY <1>4, <2>1, EndKeeps DEF Resting
<1>5. CASE VerdictLost(e)
  BY <1>1, <1>5, LostKeeps
<1> QED BY <1>3, <1>4, <1>5 DEF TailWrite

LEMMA RunKeeps ==
  ASSUME OwnerInv, NEW e \in Exec, RunStep(e)
  PROVE  OwnerInv'
<1>1. ASSUME Register(e) PROVE OwnerInv'
  <2>1. /\ run[e].pc = "ready"
        /\ RunGoTo(e, "saveWorkflow")
        /\ UNCHANGED <<wfRec, taskRec, left>>
    BY <1>1 DEF Register
  <2>2. run[e].pc \notin Resting /\ ~Owes(e) /\ "saveWorkflow" \in Place \ Resting
    BY <2>1 DEF Place, Resting, Owes
  <2> QED BY <2>1, <2>2, MoveKeeps
<1>2. ASSUME StageCancelled(e) PROVE OwnerInv'
  <2>1. Fails(e) /\ UNCHANGED <<wfRec, taskRec, left>> /\ run[e].pc = "running"
    BY <1>2 DEF StageCancelled, ReadOnly
  <2>2. RecordsOK' /\ run[e].pc \notin Resting
    BY <2>1 DEF OwnerInv, RecordsOK, Resting
  <2> QED BY <2>1, <2>2, FailKeeps
<1> QED BY <1>1, <1>2, GetTasksKeeps, SaveWorkflowKeeps, SaveTaskKeeps, StartWorkflowKeeps, RunTaskKeeps,
           StageFailsKeeps, CompleteWorkflowKeeps, LeaveKeeps, TailReadKeeps, TailWriteKeeps
        DEF RunStep
----------------------------------------------------------------------------
(* When the process ends, what is RUNNING is left so. *)
LEMMA ExitKeeps == ASSUME OwnerInv, Exit PROVE OwnerInv'
<1>1. /\ run' = [e \in Exec |-> IF e \in InFlight THEN Goroutine("killed") ELSE run[e]]
      /\ left' = {w \in Workflow : wfRec[w].status = "RUNNING"}
      /\ UNCHANGED <<wfRec, taskRec>>
  BY DEF Exit, records
<1>2. RecordsOK' /\ AllOwned'
  BY <1>1 DEF OwnerInv, RecordsOK, AllOwned, Owned
<1>3. Goroutine("killed") \in RunType /\ Goroutine("killed").pc = "killed"
  BY EndTyped DEF Resting
<1>4. \A e \in Exec : run[e] \in RunType /\ run'[e] \in {Goroutine("killed"), run[e]}
  BY <1>1 DEF OwnerInv, RunsOK
<1>5. run' \in [Exec -> RunType]
  BY <1>1, <1>3, <1>4
<1>6. RunsOK'
  BY <1>3, <1>4, <1>5 DEF OwnerInv, RunsOK, Resting
<1> QED BY <1>2, <1>6 DEF OwnerInv

LEMMA InvStep == OwnerInv /\ [Next]_vars => OwnerInv'
<1> SUFFICES ASSUME OwnerInv, [Next]_vars PROVE OwnerInv'
  OBVIOUS
<1>1. ASSUME UNCHANGED <<wfRec, taskRec, left, run>> PROVE OwnerInv'
  BY <1>1, OthersKeep DEF OwnerInv, RecordsOK
<1>2. CASE UNCHANGED vars
  BY <1>1, <1>2 DEF vars, records
<1>3. CASE \E w \in Workflow : CancelWorkflow(w)
  BY <1>1, <1>3 DEF CancelWorkflow, records
<1>4. CASE Shutdown \/ WaitReturns \/ Restart
  BY <1>1, <1>4 DEF Shutdown, WaitReturns, ProcStep, Restart, records
<1> QED BY <1>2, <1>3, <1>4, RequestKeeps, GetWorkflowKeeps, RunKeeps, ExitKeeps DEF Next

(* A workflow that is RUNNING is being executed, or nobody wrote it since  *)
(* a process ended (main.go:128-160) or since the goroutine of the API met *)
(* an error of the store in its own calls (server.go:853, 857), whatever   *)
(* Execute met in its calls (executor.go:166-353).                         *)
THEOREM RunningIsOwned == Spec => []RunningHasOwner
<1>1. OwnerInv => RunningHasOwner
  <2> SUFFICES ASSUME OwnerInv, NEW w \in Workflow, wfRec[w].status = "RUNNING"
               PROVE  w \in left \/ \E e \in InExecute \cup InTail : run[e].wf = w
    BY DEF RunningHasOwner
  <2>1. Owned(w)
    BY DEF OwnerInv, AllOwned
  <2>2. \A e \in Exec : Owes(e) => e \in InExecute \cup InTail
    BY DEF Owes, InExecute, InTail
  <2> QED BY <2>1, <2>2 DEF Owned
<1> QED BY <1>1, InvInitially, InvStep, PTL DEF Spec
----------------------------------------------------------------------------
(* Who works on a workflow alone.  A step that writes the rows of a        *)
(* workflow disturbs everybody else who works on it, so what an actor that *)
(* is not disturbed has found or written there is still so.                *)

Steps == {"idle", "tasks", "found", "delete", "ok", "error", "deleted", "lost"}

RequestType ==
  [step : Steps,
   kind : {None, "create", "update"},
   wf   : Workflow \cup {None},
   todo : SUBSET Task,
   seen : SUBSET Task,
   at   : Task \cup {None}]

RequestsOK ==
  /\ req \in [Request -> RequestType]
  /\ cancels \in [Workflow -> Exec \cup {0}]
  /\ \A r \in Active :
       /\ req[r].wf \in Workflow
       /\ req[r].step = "found" => req[r].at \in req[r].todo

ApiOK == OwnerInv /\ RequestsOK

OfWorkflow(a) == IF a[1] = "request" THEN req[a[2]].wf ELSE run[a[2]].wf

SameRecords(w) == wfRec'[w] = wfRec[w] /\ taskRec'[w] = taskRec[w] /\ cancels'[w] = cancels[w]

(* A step of me. *)
Meets(me) ==
  \A a \in Actors :
    a \notin disturbed' => a \notin disturbed /\ (a # me => SameRecords(OfWorkflow(a)))

LEMMA ActorFacts ==
  ASSUME ApiOK
  PROVE  /\ \A r \in Active : <<"request", r>> \in Actors /\ OfWorkflow(<<"request", r>>) = req[r].wf
         /\ \A e \in InFlight : <<"exec", e>> \in Actors /\ OfWorkflow(<<"exec", e>>) = run[e].wf
         /\ \A a \in Actors : OfWorkflow(a) \in Workflow
<1>1. ASSUME NEW r \in Active
      PROVE  <<"request", r>> \in Actors /\ OfWorkflow(<<"request", r>>) = req[r].wf
  BY DEF Actors, OfWorkflow
<1>2. ASSUME NEW e \in InFlight
      PROVE  <<"exec", e>> \in Actors /\ OfWorkflow(<<"exec", e>>) = run[e].wf
  BY DEF Actors, OfWorkflow
<1>3. \A r \in Active : req[r].wf \in Workflow
  BY DEF ApiOK, RequestsOK
<1>4. \A e \in InFlight : run[e].wf \in Workflow
  BY DEF ApiOK, OwnerInv, RunsOK, Resting, InFlight, InExecute, InTail
<1>5. ASSUME NEW a \in Actors PROVE OfWorkflow(a) \in Workflow
  <2>1. CASE \E r \in Active : a = <<"request", r>>
    BY <1>1, <1>3, <2>1
  <2>2. CASE \E e \in InFlight : a = <<"exec", e>>
    BY <1>2, <1>4, <2>2
  <2> QED BY <2>1, <2>2 DEF Actors
<1> QED BY <1>1, <1>2, <1>5

LEMMA TouchMeets ==
  ASSUME ApiOK, NEW v, NEW me, Touch(v, me), \A w \in Workflow \ {v} : SameRecords(w)
  PROVE  Meets(me)
<1>1. SUFFICES ASSUME NEW a \in Actors, a \notin disturbed'
               PROVE  a \notin disturbed /\ (a # me => SameRecords(OfWorkflow(a)))
  BY DEF Meets
<1>2. a \notin disturbed /\ ~ (WorksOn(a, v) /\ a # me)
  BY <1>1 DEF Touch
<1>3. WorksOn(a, v) <=> v = OfWorkflow(a)
  BY DEF WorksOn, OfWorkflow
<1>4. OfWorkflow(a) \in Workflow
  BY ActorFacts
<1> QED BY <1>2, <1>3, <1>4

LEMMA QuietMeets ==
  ASSUME ApiOK, NEW me, disturbed' = disturbed, \A w \in Workflow : SameRecords(w)
  PROVE  Meets(me)
  BY ActorFacts DEF Meets

LEMMA RequestMeets ==
  ASSUME ApiOK, NEW r \in Request, RequestStep(r)
  PROVE  Meets(<<"request", r>>)
<1> DEFINE me == <<"request", r>>
           v == req[r].wf
<1>1. cancels' = cancels
  BY DEF RequestStep, CreateWorkflow, UpdateWorkflow, CreateTask, LookUpTask, UpdateTask, SaveTaskOf,
         WriteTask, DeleteTask, ListExisting, Respond, RequestErrs, DeleteWorkflow, RequestFrame
<1>2. wfRec \in [Workflow -> {Absent} \cup Stored] /\ taskRec \in [Workflow -> [Task -> Nat]]
  BY DEF ApiOK, OwnerInv, RecordsOK
<1>3. ASSUME NEW w \in Workflow, NEW rec, Put(w, rec), Touch(w, me), taskRec' = taskRec
      PROVE  Meets(me)
  <2>1. \A u \in Workflow \ {w} : SameRecords(u)
    BY <1>1, <1>2, <1>3 DEF Put, SameRecords
  <2> QED BY <1>3, <2>1, TouchMeets
<1>4. ASSUME NEW t, NEW x, taskRec' = [taskRec EXCEPT ![v][t] = x], wfRec' = wfRec, Touch(v, me)
      PROVE  Meets(me)
  <2>1. \A u \in Workflow \ {v} : SameRecords(u)
    BY <1>1, <1>2, <1>4 DEF SameRecords
  <2> QED BY <1>4, <2>1, TouchMeets
<1>5. ASSUME UNCHANGED <<wfRec, taskRec, disturbed>> PROVE Meets(me)
  <2>1. \A u \in Workflow : SameRecords(u)
    BY <1>1, <1>5 DEF SameRecords
  <2> QED BY <1>5, <2>1, QuietMeets
<1>6. ASSUME NEW w \in Workflow, NEW S \in Bodies, CreateWorkflow(r, w, S) \/ UpdateWorkflow(r, w, S)
      PROVE  Meets(me)
  BY <1>3, <1>6 DEF CreateWorkflow, UpdateWorkflow
<1>7. ASSUME NEW t \in Task, NEW b \in BOOLEAN, WriteTask(r, t, b) PROVE Meets(me)
  BY <1>4, <1>5, <1>7 DEF WriteTask
<1>8. ASSUME NEW t \in Task, CreateTask(r, t) \/ LookUpTask(r, t) \/ UpdateTask(r, t)
      PROVE  Meets(me)
  <2>1. \/ \E b \in BOOLEAN : WriteTask(r, t, b)
        \/ UNCHANGED <<wfRec, taskRec, disturbed>>
    BY <1>8 DEF CreateTask, LookUpTask, UpdateTask, SaveTaskOf
  <2> QED BY <1>5, <1>7, <2>1
<1>9. ASSUME NEW t \in Task, DeleteTask(r, t) PROVE Meets(me)
  BY <1>4, <1>5, <1>9 DEF DeleteTask
<1>10. ASSUME ListExisting(r) \/ Respond(r) \/ RequestErrs(r) PROVE Meets(me)
  BY <1>5, <1>10 DEF ListExisting, Respond, RequestErrs, records
<1>11. ASSUME NEW w \in Workflow, DeleteWorkflow(r, w) PROVE Meets(me)
  <2>1. Put(w, Absent) /\ Touch(w, me) /\ taskRec' = [taskRec EXCEPT ![w] = [t \in Task |-> 0]]
    BY <1>11 DEF DeleteWorkflow
  <2>2. \A u \in Workflow \ {w} : SameRecords(u)
    BY <1>1, <1>2, <2>1 DEF Put, SameRecords
  <2> QED BY <2>1, <2>2, TouchMeets
<1> QED BY <1>6, <1>8, <1>9, <1>10, <1>11 DEF RequestStep

LEMMA RunMeets ==
  ASSUME ApiOK, NEW e \in Exec, RunStep(e) \/ \E w \in Workflow : GetWorkflow(e, w)
  PROVE  Meets(<<"exec", e>>)
<1> DEFINE me == <<"exec", e>>
           v == run[e].wf
<1>1. /\ wfRec \in [Workflow -> {Absent} \cup Stored]
      /\ taskRec \in [Workflow -> [Task -> Nat]]
      /\ cancels \in [Workflow -> Exec \cup {0}]
  BY DEF ApiOK, OwnerInv, RecordsOK, RequestsOK
<1>2. ASSUME UNCHANGED <<wfRec, taskRec, cancels, disturbed>> PROVE Meets(me)
  <2>1. \A u \in Workflow : SameRecords(u)
    BY <1>2 DEF SameRecords
  <2> QED BY <1>2, <2>1, QuietMeets
<1>3. ASSUME Touch(v, me),
             \/ \E rec : Put(v, rec)
             \/ wfRec' = wfRec,
             \/ \E t, x : taskRec' = [taskRec EXCEPT ![v][t] = x]
             \/ taskRec' = taskRec,
             \/ \E x : cancels' = [cancels EXCEPT ![v] = x]
             \/ cancels' = cancels
      PROVE  Meets(me)
  <2>1. ASSUME NEW u \in Workflow \ {v} PROVE SameRecords(u)
    <3>1. wfRec'[u] = wfRec[u]
      BY <1>1, <1>3 DEF Put
    <3>2. taskRec'[u] = taskRec[u]
      BY <1>1, <1>3
    <3>3. cancels'[u] = cancels[u]
      BY <1>1, <1>3
    <3> QED BY <3>1, <3>2, <3>3 DEF SameRecords
  <2> QED BY <1>3, <2>1, TouchMeets
<1>4. ASSUME NEW w \in Workflow, GetWorkflow(e, w) PROVE Meets(me)
  BY <1>2, <1>4 DEF GetWorkflow, ReadOnly
<1>5. CASE GetTasks(e) \/ StageCancelled(e) \/ TailRead(e)
  BY <1>2, <1>5 DEF GetTasks, StageCancelled, TailRead, VerdictLost, ReadOnly
<1>6. CASE Register(e)
  BY <1>3, <1>6 DEF Register
<1>7. CASE SaveWorkflow(e)
  BY <1>2, <1>3, <1>7 DEF SaveWorkflow
<1>8. ASSUME NEW t \in Task, SaveTask(e, t) \/ RunTask(e, t) PROVE Meets(me)
  BY <1>2, <1>3, <1>8 DEF SaveTask, RunTask
<1>9. CASE StartWorkflow(e) \/ StageFails(e) \/ CompleteWorkflow(e)
  <2>1. \/ /\ \E rec : Put(v, rec)
           /\ Touch(v, me)
           /\ UNCHANGED <<taskRec, cancels>>
        \/ UNCHANGED <<wfRec, taskRec, cancels, disturbed>>
    BY <1>9 DEF StartWorkflow, StageFails, CompleteWorkflow, Store
  <2> QED BY <1>2, <1>3, <2>1
<1>10. CASE Leave(e)
  BY <1>3, <1>10 DEF Leave, records
<1>11. CASE TailWrite(e)
  BY <1>2, <1>3, <1>11 DEF TailWrite, VerdictLost
<1> QED BY <1>4, <1>5, <1>6, <1>7, <1>8, <1>9, <1>10, <1>11 DEF RunStep
----------------------------------------------------------------------------
(* What the steps of a request and of an execution do to it. *)

(* A request only changes its own handler. *)
LEMMA RequestShape ==
  ASSUME ApiOK, NEW r \in Request, RequestStep(r)
  PROVE  /\ UNCHANGED <<run, cancels, cancelled, proc, restarts>>
         /\ \A q \in Request \ {r} : req'[q] = req[q]
         /\ registry \subseteq registry' /\ agentRec \subseteq agentRec'
         /\ req'[r] \in RequestType
         /\ r \in Active' => req'[r].wf \in Workflow
         /\ req'[r].step = "found" => req'[r].at \in req'[r].todo
         /\ req'[r].step # "idle"
<1> DEFINE me == <<"request", r>>
           Goal == /\ UNCHANGED <<run, cancels, cancelled, proc, restarts>>
                   /\ \A q \in Request \ {r} : req'[q] = req[q]
                   /\ registry \subseteq registry' /\ agentRec \subseteq agentRec'
                   /\ req'[r] \in RequestType
                   /\ r \in Active' => req'[r].wf \in Workflow
                   /\ req'[r].step = "found" => req'[r].at \in req'[r].todo
                   /\ req'[r].step # "idle"
<1>1. /\ req \in [Request -> RequestType]
      /\ r \in Active => req[r].wf \in Workflow
      /\ req[r].step = "found" => req[r].at \in req[r].todo
  BY DEF ApiOK, RequestsOK, Active
<1>2. ASSUME NEW h \in RequestType, req' = [req EXCEPT ![r] = h],
             RequestFrame, registry \subseteq registry', agentRec \subseteq agentRec',
             h.step \in {"tasks", "found", "delete"} => h.wf \in Workflow,
             h.step = "found" => h.at \in h.todo,
             h.step # "idle"
      PROVE  Goal
  <2>1. req'[r] = h /\ \A q \in Request \ {r} : req'[q] = req[q]
    BY <1>1, <1>2
  <2> QED BY <1>2, <2>1 DEF RequestFrame, ProcessFrame, Active
<1>3. ASSUME NEW code \in {"ok", "error", "deleted"}, Answer(r, code),
             RequestFrame, registry \subseteq registry', agentRec \subseteq agentRec'
      PROVE  Goal
  <2>1. Handler(code) \in RequestType /\ Handler(code).step = code
    BY DEF Handler, RequestType, Steps
  <2>2. code \notin {"tasks", "found", "delete", "idle"}
    OBVIOUS
  <2> HIDE DEF Goal
  <2> QED BY <1>2, <1>3, <2>1, <2>2 DEF Answer
<1>4. ASSUME NEW w \in Workflow, NEW S \in Bodies, CreateWorkflow(r, w, S) \/ UpdateWorkflow(r, w, S)
      PROVE  Goal
  <2>1. S \in SUBSET Task
    BY SetsAssumption
  <2> DEFINE K == {"create", "update"}
             H(kind) == [step |-> "tasks", kind |-> kind, wf |-> w, todo |-> S, seen |-> S, at |-> None]
  <2>2. \A kind \in K : H(kind) \in RequestType /\ H(kind).step = "tasks" /\ H(kind).wf = w
    BY <2>1 DEF RequestType, Steps
  <2>3. /\ \E kind \in K : req' = [req EXCEPT ![r] = H(kind)]
        /\ RequestFrame /\ registry' = registry /\ agentRec' = agentRec
    BY <1>4 DEF CreateWorkflow, UpdateWorkflow, Take
  <2> HIDE DEF Goal, H, K
  <2> QED BY <1>2, <2>2, <2>3
<1>5. ASSUME NEW t \in Task, NEW b \in BOOLEAN, WriteTask(r, t, b), r \in Active,
             registry \subseteq registry', agentRec \subseteq agentRec'
      PROVE  Goal
  <2> DEFINE h == [req[r] EXCEPT !.todo = req[r].todo \ {t}, !.step = "tasks", !.at = None]
  <2>1. h \in RequestType /\ h.step = "tasks" /\ h.wf = req[r].wf
    BY <1>1 DEF RequestType, Steps
  <2>2. RequestFrame
    BY <1>5 DEF WriteTask
  <2>3. req' = [req EXCEPT ![r] = h] \/ Answer(r, "error")
    BY <1>1, <1>5 DEF WriteTask
  <2> HIDE DEF Goal, h
  <2> QED BY <1>1, <1>2, <1>3, <1>5, <2>1, <2>2, <2>3
<1>6. ASSUME NEW t \in Task, CreateTask(r, t) \/ UpdateTask(r, t) PROVE Goal
  <2>1. r \in Active /\ registry \subseteq registry' /\ agentRec \subseteq agentRec'
    BY <1>6 DEF CreateTask, UpdateTask, RegisterAgent, Active
  <2>2. \E b \in BOOLEAN : WriteTask(r, t, b)
    BY <1>6 DEF CreateTask, UpdateTask, SaveTaskOf
  <2> HIDE DEF Goal
  <2> QED BY <1>5, <2>1, <2>2
<1>7. ASSUME NEW t \in Task, LookUpTask(r, t) PROVE Goal
  <2>1. r \in Active /\ registry \subseteq registry' /\ agentRec \subseteq agentRec'
        /\ t \in req[r].todo
    BY <1>7 DEF LookUpTask, RegisterAgent, Active
  <2> DEFINE h == [req[r] EXCEPT !.step = "found", !.at = t]
  <2>2. h \in RequestType /\ h.step = "found" /\ h.wf = req[r].wf /\ h.at = t /\ h.todo = req[r].todo
    BY <1>1 DEF RequestType, Steps
  <2>3. \/ \E b \in BOOLEAN : WriteTask(r, t, b)
        \/ req' = [req EXCEPT ![r] = h] /\ RequestFrame
    BY <1>1, <1>7 DEF LookUpTask, SaveTaskOf
  <2> HIDE DEF Goal, h
  <2> QED BY <1>1, <1>2, <1>5, <2>1, <2>2, <2>3
<1>8. ASSUME NEW t \in Task, DeleteTask(r, t) PROVE Goal
  <2> DEFINE h == [req[r] EXCEPT !.todo = req[r].todo \ {t}]
  <2>1. req[r].step = "delete" /\ RequestFrame /\ registry' = registry /\ agentRec' = agentRec
    BY <1>8 DEF DeleteTask
  <2>2. h \in RequestType /\ h.step = "delete" /\ h.wf = req[r].wf
    BY <1>1, <2>1 DEF RequestType, Steps
  <2>3. req' = [req EXCEPT ![r] = h] \/ Answer(r, "error")
    BY <1>1, <1>8 DEF DeleteTask
  <2>4. r \in Active
    BY <2>1 DEF Active
  <2> HIDE DEF Goal, h
  <2> QED BY <1>1, <1>2, <1>3, <2>1, <2>2, <2>3, <2>4
<1>9. ASSUME ListExisting(r) PROVE Goal
  <2> DEFINE T == {t \in Task : taskRec[req[r].wf][t] # 0} \ req[r].seen
             h == [req[r] EXCEPT !.step = "delete", !.todo = T]
  <2>1. /\ req[r].step = "tasks" /\ RequestFrame /\ registry' = registry /\ agentRec' = agentRec
        /\ req' = [req EXCEPT ![r] = h]
    BY <1>1, <1>9 DEF ListExisting, records
  <2>2. T \subseteq Task
    OBVIOUS
  <2> HIDE DEF T
  <2>3. h \in RequestType /\ h.step = "delete" /\ h.wf = req[r].wf
    BY <1>1, <2>2 DEF RequestType, Steps
  <2>4. r \in Active
    BY <2>1 DEF Active
  <2> HIDE DEF Goal, h
  <2> QED BY <1>1, <1>2, <2>1, <2>3, <2>4
<1>10. ASSUME Respond(r) \/ RequestErrs(r) \/ \E w \in Workflow : DeleteWorkflow(r, w) PROVE Goal
  <2>1. /\ \E code \in {"ok", "error", "deleted"} : Answer(r, code)
        /\ RequestFrame /\ registry' = registry /\ agentRec' = agentRec
    BY <1>10 DEF Respond, RequestErrs, DeleteWorkflow, records
  <2> HIDE DEF Goal
  <2> QED BY <1>3, <2>1
<1> HIDE DEF Goal
<1>11. Goal
  BY <1>4, <1>6, <1>7, <1>8, <1>9, <1>10 DEF RequestStep
<1> QED BY <1>11 DEF Goal

(* An execution reads the tasks it will run, with their agents ...         *)
Reads(e) ==
  LET w == run[e].wf
      S == {t \in Task : taskRec[w][t] # 0}
  IN  /\ run[e].pc = "read"
      /\ UNCHANGED <<wfRec, taskRec, cancels>>
      /\ \/ run'[e] = Goroutine("refused")
         \/ /\ run'[e].pc = "ready" /\ run'[e].wf = w
            /\ run'[e].tasks = [t \in S |-> taskRec[w][t]]
            /\ \A t \in S \cap WithAgent : <<w, t>> \in registry'

(* ... enters Execute ... *)
Enters(e) ==
  /\ run[e].pc = "ready" /\ run'[e].pc = "saveWorkflow"
  /\ UNCHANGED <<wfRec, taskRec>>
  /\ cancels' = [cancels EXCEPT ![run[e].wf] = e]

(* ... writes records there ... *)
Works(e) ==
  LET w == run[e].wf
  IN  /\ \/ run[e].pc = "saveWorkflow" /\ run'[e].pc = "saveTasks" /\ wfRec'[w] # Absent
         \/ /\ run[e].pc \in {"saveWorkflow", "saveTasks", "running"}
            /\ run'[e].pc \in {"saveTasks", "running", "leaving"}
            /\ run'[e].pc = "leaving" => run'[e].err \/ wfRec'[w].status = "COMPLETED"
            /\ wfRec[w] # Absent => wfRec'[w] # Absent
      /\ cancels' = cancels
      /\ \/ taskRec' = taskRec
         \/ \E t \in DOMAIN run[e].tasks : taskRec' = [taskRec EXCEPT ![w][t] = run[e].tasks[t]]

(* ... leaves it ... *)
Leaves(e) ==
  /\ run[e].pc = "leaving"
  /\ UNCHANGED <<wfRec, taskRec>>
  /\ cancels' = [cancels EXCEPT ![run[e].wf] = 0]
  /\ IF run[e].err THEN run'[e].pc = "tail" /\ run'[e].err ELSE run'[e] = Goroutine("done")

(* ... and looks after it. *)
LooksAfter(e) ==
  LET w == run[e].wf
  IN  /\ UNCHANGED <<taskRec, cancels>>
      /\ \/ /\ run[e].pc = "tail" /\ run'[e].pc = "tailWrite" /\ run'[e].err = run[e].err
            /\ wfRec' = wfRec
         \/ /\ run[e].pc = "tail" /\ run'[e] = Goroutine("done") /\ wfRec' = wfRec
            /\ wfRec[w] = Absent \/ wfRec[w].status = "FAILED"
         \/ /\ run[e].pc = "tailWrite" /\ run'[e] = Goroutine("done")
            /\ wfRec[w] # Absent => wfRec'[w].status = "FAILED"
         \/ /\ run[e].pc \in {"tail", "tailWrite"} /\ run'[e] = Goroutine("done")
            /\ wfRec' = wfRec /\ w \in left'

LEMMA RunShape ==
  ASSUME ApiOK, NEW e \in Exec, RunStep(e)
  PROVE  /\ UNCHANGED <<req, agentRec>> /\ registry \subseteq registry'
         /\ \A d \in Exec \ {e} : run'[d] = run[d]
         /\ run'[e].pc \notin Resting => run'[e].wf = run[e].wf
         /\ run'[e].pc \notin Resting /\ run[e].pc # "read" => run'[e].tasks = run[e].tasks
         /\ Reads(e) \/ Enters(e) \/ Works(e) \/ Leaves(e) \/ LooksAfter(e)
<1> DEFINE Goal == /\ UNCHANGED <<req, agentRec>> /\ registry \subseteq registry'
                   /\ \A d \in Exec \ {e} : run'[d] = run[d]
                   /\ run'[e].pc \notin Resting => run'[e].wf = run[e].wf
                   /\ run'[e].pc \notin Resting /\ run[e].pc # "read" => run'[e].tasks = run[e].tasks
                   /\ Reads(e) \/ Enters(e) \/ Works(e) \/ Leaves(e) \/ LooksAfter(e)
           w == run[e].wf
<1>1. OwnerInv /\ run[e] \in RunType /\ run \in [Exec -> RunType]
      /\ wfRec \in [Workflow -> {Absent} \cup Stored]
      /\ (run[e].pc \notin Resting => w \in Workflow)
      /\ (run[e].pc \in {"saveTasks", "running"} => run[e].todo \subseteq DOMAIN run[e].tasks)
  BY RunTyped DEF ApiOK, RecordsOK
<1>2. \A pc \in Resting : Goroutine(pc).pc = pc
  BY EndTyped
<1>3. /\ UNCHANGED <<req, agentRec>>
      /\ registry \subseteq registry'
  BY DEF RunStep, GetTasks, Register, SaveWorkflow, StartWorkflow, SaveTask, RunTask, StageFails,
         StageCancelled, CompleteWorkflow, Store, Leave, TailRead, TailWrite, ExecFrame, records
<1>4. ASSUME NEW q, run' = [run EXCEPT ![e] = q],
             q.pc \in Resting \/ (q.wf = w /\ (q.tasks = run[e].tasks \/ run[e].pc = "read")),
             run'[e] = q => Reads(e) \/ Enters(e) \/ Works(e) \/ Leaves(e) \/ LooksAfter(e)
      PROVE  Goal
  <2>1. run'[e] = q /\ \A d \in Exec \ {e} : run'[d] = run[d]
    BY <1>1, <1>4
  <2> HIDE DEF w
  <2> QED BY <1>3, <1>4, <2>1 DEF w
<1> DEFINE failed == [run[e] EXCEPT !.pc = "leaving", !.err = TRUE]
<1>5. failed.pc = "leaving" /\ failed.err /\ failed.wf = w /\ failed.tasks = run[e].tasks
  BY <1>1 DEF RunType
<1>6. ASSUME Fails(e), run[e].pc \in {"saveWorkflow", "saveTasks", "running"},
             cancels' = cancels, taskRec' = taskRec,
             wfRec[w] # Absent => wfRec'[w] # Absent
      PROVE  Goal
  <2>1. run' = [run EXCEPT ![e] = failed]
    BY <1>1, <1>6 DEF Fails
  <2>2. run'[e] = failed => Works(e)
    <3> HIDE DEF failed
    <3> QED BY <1>5, <1>6 DEF Works
  <2> HIDE DEF Goal, failed
  <2> QED BY <1>4, <1>5, <2>1, <2>2
<1>7. ASSUME GetTasks(e) PROVE Goal
  <2> DEFINE S == {t \in Task : taskRec[w][t] # 0}
             known == [t \in S |-> taskRec[w][t]]
             q == [run[e] EXCEPT !.pc = "ready", !.tasks = known]
  <2>1. /\ UNCHANGED <<wfRec, taskRec, cancels>>
        /\ run[e].pc = "read"
        /\ \/ RunEnds(e, "refused")
           \/ run' = [run EXCEPT ![e] = q] /\ registry' = registry \cup AgentsToRegister(w, S)
    BY <1>1, <1>7 DEF GetTasks, ReadOnly
  <2>2. CASE RunEnds(e, "refused")
    <3>1. run' = [run EXCEPT ![e] = Goroutine("refused")] /\ Goroutine("refused").pc \in Resting
      BY <1>2, <2>2 DEF RunEnds, Resting
    <3>2. run'[e] = Goroutine("refused") => Reads(e)
      BY <2>1 DEF Reads
    <3> HIDE DEF Goal
    <3> QED BY <1>4, <3>1, <3>2
  <2>3. CASE run' = [run EXCEPT ![e] = q] /\ registry' = registry \cup AgentsToRegister(w, S)
    <3>1. q.pc = "ready" /\ q.wf = w /\ q.tasks = known
      BY <1>1 DEF RunType
    <3>2. \A t \in S \cap WithAgent : <<w, t>> \in registry'
      BY <2>3 DEF AgentsToRegister
    <3>3. run'[e] = q => Reads(e)
      <4> HIDE DEF q
      <4> QED BY <2>1, <3>1, <3>2 DEF Reads
    <3> HIDE DEF Goal, q
    <3> QED BY <1>4, <2>1, <2>3, <3>1, <3>3
  <2> QED BY <2>1, <2>2, <2>3
<1>8. ASSUME Register(e) PROVE Goal
  <2> DEFINE q == [run[e] EXCEPT !.pc = "saveWorkflow"]
  <2>1. /\ run' = [run EXCEPT ![e] = q]
        /\ run[e].pc = "ready" /\ UNCHANGED <<wfRec, taskRec>>
        /\ cancels' = [cancels EXCEPT ![w] = e]
    BY <1>1, <1>8 DEF Register, RunGoTo
  <2>2. q.pc = "saveWorkflow" /\ q.wf = w /\ q.tasks = run[e].tasks
    BY <1>1 DEF RunType
  <2> HIDE DEF q
  <2>3. run'[e] = q => Enters(e)
    BY <2>1, <2>2 DEF Enters
  <2> HIDE DEF Goal
  <2> QED BY <1>4, <2>1, <2>2, <2>3
<1>9. ASSUME SaveWorkflow(e) PROVE Goal
  <2> DEFINE q == [run[e] EXCEPT !.pc = "saveTasks", !.todo = DOMAIN run[e].tasks]
             rec == [status |-> "PENDING", body |-> run[e].body]
  <2>1. run[e].pc = "saveWorkflow" /\ UNCHANGED <<taskRec, cancels>>
    BY <1>9 DEF SaveWorkflow
  <2>2. CASE run' = [run EXCEPT ![e] = q] /\ wfRec' = [wfRec EXCEPT ![w] = rec]
    <3>1. q.pc = "saveTasks" /\ q.wf = w /\ q.tasks = run[e].tasks
      BY <1>1 DEF RunType
    <3>2. wfRec'[w] # Absent
      <4>1. wfRec'[w] = rec /\ rec.status = "PENDING"
        BY <1>1, <2>1, <2>2 DEF Resting
      <4> QED BY <4>1 DEF Absent, None
    <3> HIDE DEF q
    <3>3. run'[e] = q => Works(e)
      BY <2>1, <3>1, <3>2 DEF Works
    <3> HIDE DEF Goal
    <3> QED BY <1>4, <2>2, <3>1, <3>3
  <2>3. CASE Fails(e) /\ wfRec' = wfRec
    BY <1>6, <2>1, <2>3
  <2> QED BY <1>1, <1>9, <2>2, <2>3 DEF SaveWorkflow, Put
<1>10. ASSUME NEW t \in Task, SaveTask(e, t) \/ RunTask(e, t) PROVE Goal
  <2> DEFINE q == [run[e] EXCEPT !.todo = run[e].todo \ {t}]
  <2>1. run[e].pc \in {"saveTasks", "running"} /\ cancels' = cancels /\ wfRec' = wfRec
        /\ t \in run[e].todo
    BY <1>10 DEF SaveTask, RunTask
  <2>2. \/ taskRec' = [taskRec EXCEPT ![w][t] = run[e].tasks[t]] /\ run' = [run EXCEPT ![e] = q]
        \/ Fails(e) /\ taskRec' = taskRec
    BY <1>1, <1>10 DEF SaveTask, RunTask
  <2>3. q.pc = run[e].pc /\ q.wf = w /\ q.tasks = run[e].tasks
    BY <1>1 DEF RunType
  <2>4. CASE taskRec' = [taskRec EXCEPT ![w][t] = run[e].tasks[t]] /\ run' = [run EXCEPT ![e] = q]
    <3>1. t \in DOMAIN run[e].tasks
      BY <1>1, <2>1
    <3> HIDE DEF q
    <3>2. run'[e] = q => Works(e)
      BY <2>1, <2>3, <2>4, <3>1 DEF Works
    <3> HIDE DEF Goal
    <3> QED BY <1>4, <2>3, <2>4, <3>2
  <2>5. CASE Fails(e) /\ taskRec' = taskRec
    BY <1>6, <2>1, <2>5
  <2> QED BY <2>2, <2>4, <2>5
<1>11. ASSUME StageCancelled(e) PROVE Goal
  <2>1. Fails(e) /\ run[e].pc = "running" /\ UNCHANGED <<wfRec, taskRec, cancels>>
    BY <1>11 DEF StageCancelled, ReadOnly
  <2> QED BY <1>6, <2>1
<1>12. \A status \in Statuses : \A b : wfRec' = [wfRec EXCEPT ![w] = [status |-> status, body |-> b]]
          /\ w \in Workflow => wfRec'[w] # Absent /\ wfRec'[w].status = status
  <2> SUFFICES ASSUME NEW status \in Statuses, NEW b,
                      wfRec' = [wfRec EXCEPT ![w] = [status |-> status, body |-> b]], w \in Workflow
               PROVE  wfRec'[w] # Absent /\ wfRec'[w].status = status
    OBVIOUS
  <2>1. wfRec'[w] = [status |-> status, body |-> b]
    BY <1>1
  <2>2. status # None
    BY DEF Statuses, None
  <2> QED BY <2>1, <2>2 DEF Absent
<1>13. ASSUME StageFails(e) PROVE Goal
  <2>1. Fails(e) /\ run[e].pc = "running" /\ UNCHANGED <<taskRec, cancels>>
        /\ (wfRec' = wfRec \/ wfRec' = [wfRec EXCEPT ![w] = [status |-> "FAILED", body |-> run[e].body]])
    BY <1>13 DEF StageFails, Store, Put
  <2>2. wfRec[w] # Absent => wfRec'[w] # Absent
    BY <1>1, <1>12, <2>1 DEF Statuses, Resting
  <2> QED BY <1>6, <2>1, <2>2
<1>14. ASSUME StartWorkflow(e) \/ CompleteWorkflow(e) PROVE Goal
  <2>1. run[e].pc \in {"saveTasks", "running"} /\ UNCHANGED <<taskRec, cancels>>
    BY <1>14 DEF StartWorkflow, CompleteWorkflow, Store
  <2>2. CASE Fails(e) /\ wfRec' = wfRec
    BY <1>6, <2>1, <2>2
  <2>3. CASE /\ \/ wfRec' = [wfRec EXCEPT ![w] = [status |-> "RUNNING", body |-> run[e].body]]
                   /\ run' = [run EXCEPT ![e].pc = "running", ![e].todo = DOMAIN run[e].tasks]
                \/ wfRec' = [wfRec EXCEPT ![w] = [status |-> "COMPLETED", body |-> run[e].body]]
                   /\ run' = [run EXCEPT ![e].pc = "leaving"]
    <3>1. PICK q : /\ run' = [run EXCEPT ![e] = q]
                   /\ q.wf = w /\ q.tasks = run[e].tasks
                   /\ \/ q.pc = "running"
                      \/ q.pc = "leaving"
                         /\ wfRec' = [wfRec EXCEPT ![w] = [status |-> "COMPLETED", body |-> run[e].body]]
      <4> DEFINE q1 == [run[e] EXCEPT !.pc = "running", !.todo = DOMAIN run[e].tasks]
                 q2 == [run[e] EXCEPT !.pc = "leaving"]
      <4>1. q1.pc = "running" /\ q1.wf = w /\ q1.tasks = run[e].tasks
        BY <1>1 DEF RunType
      <4>2. q2.pc = "leaving" /\ q2.wf = w /\ q2.tasks = run[e].tasks
        BY <1>1 DEF RunType
      <4>3. \/ run' = [run EXCEPT ![e] = q1]
            \/ /\ run' = [run EXCEPT ![e] = q2]
               /\ wfRec' = [wfRec EXCEPT ![w] = [status |-> "COMPLETED", body |-> run[e].body]]
        BY <1>1, <2>3
      <4> HIDE DEF q1, q2
      <4> QED BY <4>1, <4>2, <4>3
    <3>2. w \in Workflow
      BY <1>1, <2>1 DEF Resting
    <3>3. wfRec'[w] # Absent
      BY <1>12, <2>3, <3>2 DEF Statuses
    <3>4. q.pc = "leaving" => wfRec'[w].status = "COMPLETED"
      BY <1>12, <3>1, <3>2 DEF Statuses
    <3>5. run'[e] = q => Works(e)
      BY <2>1, <3>1, <3>3, <3>4 DEF Works
    <3> HIDE DEF Goal
    <3> QED BY <1>4, <3>1, <3>5
  <2> QED BY <1>14, <2>2, <2>3 DEF StartWorkflow, CompleteWorkflow, Store, Put, RunGoTo
<1>15. ASSUME Leave(e) PROVE Goal
  <2> DEFINE q == [run[e] EXCEPT !.pc = "tail"]
  <2>1. /\ run[e].pc = "leaving" /\ UNCHANGED <<wfRec, taskRec>>
        /\ cancels' = [cancels EXCEPT ![w] = 0]
    BY <1>15 DEF Leave, records
  <2>2. q.pc = "tail" /\ q.wf = w /\ q.tasks = run[e].tasks /\ q.err = run[e].err
    BY <1>1 DEF RunType
  <2>3. CASE run[e].err
    <3>1. run' = [run EXCEPT ![e] = q]
      BY <1>1, <1>15, <2>3 DEF Leave, RunGoTo
    <3> HIDE DEF q
    <3>2. run'[e] = q => Leaves(e)
      BY <2>1, <2>2, <2>3 DEF Leaves
    <3> HIDE DEF Goal
    <3> QED BY <1>4, <2>2, <3>1, <3>2
  <2>4. CASE ~ run[e].err
    <3>1. run' = [run EXCEPT ![e] = Goroutine("done")] /\ Goroutine("done").pc \in Resting
      BY <1>2, <1>15, <2>4 DEF Leave, RunEnds, Resting
    <3>2. run'[e] = Goroutine("done") => Leaves(e)
      BY <2>1, <2>4 DEF Leaves
    <3> HIDE DEF Goal
    <3> QED BY <1>4, <3>1, <3>2
  <2> QED BY <2>3, <2>4
<1>16. ASSUME RunEnds(e, "done"), run'[e] = Goroutine("done") => LooksAfter(e) PROVE Goal
  <2>1. run' = [run EXCEPT ![e] = Goroutine("done")] /\ Goroutine("done").pc \in Resting
    BY <1>2, <1>16 DEF RunEnds, Resting
  <2> HIDE DEF Goal
  <2> QED BY <1>4, <1>16, <2>1
<1>17. ASSUME TailRead(e) PROVE Goal
  <2> DEFINE q == [run[e] EXCEPT !.pc = "tailWrite", !.body = wfRec[w].body]
             settled == wfRec[w] = Absent \/ wfRec[w].status = "FAILED"
  <2>1. run[e].pc = "tail" /\ UNCHANGED <<wfRec, taskRec, cancels>>
    BY <1>17 DEF TailRead, VerdictLost
  <2>2. q.pc = "tailWrite" /\ q.wf = w /\ q.tasks = run[e].tasks /\ q.err = run[e].err
    BY <1>1 DEF RunType
  <2>3. CASE RunEnds(e, "done") /\ (settled \/ w \in left')
    <3>1. run'[e] = Goroutine("done") => LooksAfter(e)
      BY <2>1, <2>3 DEF LooksAfter
    <3> HIDE DEF Goal
    <3> QED BY <1>16, <2>3, <3>1
  <2>4. CASE run' = [run EXCEPT ![e] = q]
    <3> HIDE DEF q
    <3>1. run'[e] = q => LooksAfter(e)
      BY <2>1, <2>2 DEF LooksAfter
    <3> HIDE DEF Goal
    <3> QED BY <1>4, <2>2, <2>4, <3>1
  <2> QED BY <1>1, <1>17, <2>3, <2>4 DEF TailRead, VerdictLost
<1>18. ASSUME TailWrite(e) PROVE Goal
  <2>1. run[e].pc = "tailWrite" /\ UNCHANGED <<taskRec, cancels>> /\ RunEnds(e, "done")
    BY <1>18 DEF TailWrite, VerdictLost
  <2>2. \/ wfRec[w] # Absent => wfRec' = [wfRec EXCEPT ![w] = [status |-> "FAILED", body |-> run[e].body]]
        \/ wfRec' = wfRec /\ w \in left'
    BY <1>18 DEF TailWrite, VerdictLost, Put
  <2>3. (wfRec[w] # Absent => wfRec'[w].status = "FAILED") \/ (wfRec' = wfRec /\ w \in left')
    BY <1>1, <1>12, <2>1, <2>2 DEF Statuses, Resting
  <2>4. run'[e] = Goroutine("done") => LooksAfter(e)
    BY <2>1, <2>3 DEF LooksAfter
  <2> HIDE DEF Goal
  <2> QED BY <1>16, <2>1, <2>4
<1> HIDE DEF Goal
<1>19. Goal
  BY <1>7, <1>8, <1>9, <1>10, <1>11, <1>13, <1>14, <1>15, <1>17, <1>18 DEF RunStep
<1> QED BY <1>19 DEF Goal

LEMMA GetShape ==
  ASSUME ApiOK, NEW e \in Exec, NEW w \in Workflow, GetWorkflow(e, w)
  PROVE  /\ UNCHANGED <<req, wfRec, taskRec, agentRec, registry, cancels>>
         /\ \A d \in Exec \ {e} : run'[d] = run[d]
         /\ run[e].pc = "idle" /\ run'[e].pc = "read" /\ run'[e].tasks = run[e].tasks
<1> DEFINE q == [run[e] EXCEPT !.pc = "read", !.wf = w, !.body = wfRec[w].body]
<1>1. OwnerInv /\ run \in [Exec -> RunType] /\ run[e] \in RunType
  BY RunTyped DEF ApiOK
<1>2. /\ UNCHANGED <<req, wfRec, taskRec, agentRec, registry, cancels>>
      /\ run' = [run EXCEPT ![e] = q] /\ run[e].pc = "idle"
  BY <1>1 DEF GetWorkflow, ReadOnly, ExecFrame
<1>3. q.pc = "read" /\ q.tasks = run[e].tasks
  BY <1>1 DEF RunType
<1> HIDE DEF q
<1> QED BY <1>1, <1>2, <1>3

(* The steps that change no record, no handler and no execution.           *)
Idle == UNCHANGED <<records, registry, req, run, cancels, disturbed>>

LEMMA OtherSteps ==
  ASSUME [Next]_vars
  PROVE  \/ \E r \in Request : RequestStep(r)
         \/ \E e \in Exec : RunStep(e) \/ \E w \in Workflow : GetWorkflow(e, w)
         \/ Exit
         \/ Idle
<1>1. CASE \E w \in Workflow : CancelWorkflow(w)
  BY <1>1 DEF CancelWorkflow, Idle
<1>2. CASE Shutdown \/ WaitReturns \/ Restart
  BY <1>2 DEF Shutdown, WaitReturns, Restart, ProcStep, Idle
<1>3. CASE UNCHANGED vars
  BY <1>3 DEF vars, Idle
<1> QED BY <1>1, <1>2, <1>3 DEF Next

LEMMA ExitShape ==
  ASSUME ApiOK, Exit
  PROVE  /\ UNCHANGED records
         /\ cancels' = [w \in Workflow |-> 0]
         /\ \A e \in Exec : /\ run'[e].pc \in Resting
                            /\ run'[e] = Goroutine("killed") \/ run'[e] = run[e]
         /\ \A r \in Request : /\ r \notin Active'
                               /\ req'[r] \in RequestType
                               /\ req'[r].step = "idle" => req[r].step = "idle"
<1>1. /\ UNCHANGED records
      /\ cancels' = [w \in Workflow |-> 0]
      /\ run' = [e \in Exec |-> IF e \in InFlight THEN Goroutine("killed") ELSE run[e]]
      /\ req' = [r \in Request |-> IF r \in Active THEN Handler("lost") ELSE req[r]]
  BY DEF Exit
<1>2. ASSUME NEW e \in Exec
      PROVE  run'[e].pc \in Resting /\ (run'[e] = Goroutine("killed") \/ run'[e] = run[e])
  <2>1. Goroutine("killed").pc = "killed"
    BY EndTyped DEF Resting
  <2>2. run[e].pc \in Place
    BY RunTyped DEF ApiOK, RunType
  <2>3. e \notin InFlight => run[e].pc \in Resting
    BY <2>2 DEF InFlight, InExecute, InTail, Place
  <2> QED BY <1>1, <2>1, <2>3 DEF Resting
<1>3. ASSUME NEW r \in Request
      PROVE  /\ r \notin Active'
             /\ req'[r] \in RequestType
             /\ req'[r].step = "idle" => req[r].step = "idle"
  <2>1. Handler("lost") \in RequestType /\ Handler("lost").step = "lost"
    BY DEF Handler, RequestType, Steps
  <2>2. req[r] \in RequestType
    BY DEF ApiOK, RequestsOK
  <2>3. CASE r \in Active
    BY <1>1, <2>1, <2>3 DEF Active
  <2>4. CASE r \notin Active
    BY <1>1, <2>2, <2>4 DEF Active
  <2> QED BY <2>3, <2>4
<1> QED BY <1>1, <1>2, <1>3

LEMMA ApiOKInitially == Init => ApiOK
<1> SUFFICES ASSUME Init PROVE ApiOK
  OBVIOUS
<1>1. Handler("idle") \in RequestType /\ Handler("idle").step = "idle"
  BY DEF Handler, RequestType, Steps
<1>2. RequestsOK
  BY <1>1 DEF Init, RequestsOK, Active
<1> QED BY <1>2, InvInitially DEF ApiOK

LEMMA ApiOKStep ==
  ASSUME ApiOK, [Next]_vars
  PROVE  ApiOK'
<1>1. OwnerInv'
  BY InvStep DEF ApiOK
<1>2. CASE \E r \in Request : RequestStep(r)
  <2>1. PICK r \in Request : RequestStep(r)
    BY <1>2
  <2>2. /\ cancels' = cancels
        /\ \A q \in Request \ {r} : req'[q] = req[q]
        /\ req'[r] \in RequestType
        /\ r \in Active' => req'[r].wf \in Workflow
        /\ req'[r].step = "found" => req'[r].at \in req'[r].todo
    BY <2>1, RequestShape
  <2>3. DOMAIN req' = Request /\ req' = [q \in Request |-> req'[q]]
    BY <2>1 DEF ApiOK, RequestsOK, RequestStep, CreateWorkflow, UpdateWorkflow, Take, CreateTask,
         LookUpTask, UpdateTask, SaveTaskOf, WriteTask, DeleteTask, ListExisting, Respond, RequestErrs,
         DeleteWorkflow, Answer
  <2>4. req' \in [Request -> RequestType]
    BY <2>2, <2>3 DEF ApiOK, RequestsOK
  <2>5. \A q \in Active' : /\ req'[q].wf \in Workflow
                           /\ req'[q].step = "found" => req'[q].at \in req'[q].todo
    BY <2>2 DEF ApiOK, RequestsOK, Active
  <2> QED BY <1>1, <2>2, <2>4, <2>5 DEF ApiOK, RequestsOK
<1>3. CASE \E e \in Exec : RunStep(e)
  <2>1. PICK e \in Exec : RunStep(e)
    BY <1>3
  <2>2. req' = req /\ (Reads(e) \/ Enters(e) \/ Works(e) \/ Leaves(e) \/ LooksAfter(e))
    BY <2>1, RunShape
  <2>3. cancels' \in [Workflow -> Exec \cup {0}]
    BY <2>2 DEF ApiOK, RequestsOK, Reads, Enters, Works, Leaves, LooksAfter
  <2> QED BY <1>1, <2>2, <2>3 DEF ApiOK, RequestsOK, Active
<1>4. CASE \E e \in Exec, w \in Workflow : GetWorkflow(e, w)
  <2>1. req' = req /\ cancels' = cancels
    BY <1>4, GetShape
  <2> QED BY <1>1, <2>1 DEF ApiOK, RequestsOK, Active
<1>5. CASE Exit
  <2>1. req' = [r \in Request |-> req'[r]]
    BY <1>5 DEF Exit
  <2>2. req' \in [Request -> RequestType] /\ Active' = {} /\ cancels' \in [Workflow -> Exec \cup {0}]
    BY <1>5, <2>1, ExitShape DEF Active
  <2> QED BY <1>1, <2>2 DEF ApiOK, RequestsOK
<1>6. CASE Idle
  BY <1>1, <1>6 DEF ApiOK, RequestsOK, Active, Idle
<1> QED BY <1>2, <1>3, <1>4, <1>5, <1>6, OtherSteps

(* What an actor that is alone knows after a step of me. *)
LEMMA StillAlone ==
  ASSUME ApiOK, NEW me, Meets(me)
  PROVE  /\ \A e \in InFlight : <<"exec", e>> \notin disturbed' =>
              /\ <<"exec", e>> \notin disturbed
              /\ <<"exec", e>> # me => SameRecords(run[e].wf)
         /\ \A r \in Active : <<"request", r>> \notin disturbed' =>
              /\ <<"request", r>> \notin disturbed
              /\ <<"request", r>> # me => SameRecords(req[r].wf)
  BY ActorFacts DEF Meets
----------------------------------------------------------------------------
LEMMA CancellableStep ==
  ASSUME ApiOK, Cancellable, [Next]_vars
  PROVE  Cancellable'
<1>1. /\ cancels \in [Workflow -> Exec \cup {0}]
      /\ \A e \in Exec : run[e].pc \notin Resting => run[e].wf \in Workflow
      /\ \A e \in InExecute : e \in Exec /\ e \in InFlight /\ run[e].pc \notin Resting
      /\ 0 \notin Exec
  BY SetsAssumption DEF ApiOK, RequestsOK, OwnerInv, RunsOK, InExecute, InFlight, Resting, Exec
<1>2. CASE \E r \in Request : RequestStep(r)
  <2>1. PICK r \in Request : RequestStep(r)
    BY <1>2
  <2>2. run' = run /\ cancels' = cancels
    BY <2>1, RequestShape
  <2>3. \A e \in InExecute : <<"exec", e>> \notin disturbed' => <<"exec", e>> \notin disturbed
    BY <1>1, <2>1, RequestMeets, StillAlone
  <2> QED BY <2>2, <2>3 DEF Cancellable, InExecute
<1>3. CASE \E e \in Exec : RunStep(e) \/ \E w \in Workflow : GetWorkflow(e, w)
  <2>1. PICK e \in Exec : RunStep(e) \/ \E w \in Workflow : GetWorkflow(e, w)
    BY <1>3
  <2>2. \A d \in InExecute : <<"exec", d>> \notin disturbed' =>
          <<"exec", d>> \notin disturbed /\ (d # e => SameRecords(run[d].wf))
    <3>1. Meets(<<"exec", e>>)
      BY <2>1, RunMeets
    <3>2. \A d : d # e => <<"exec", d>> # <<"exec", e>>
      OBVIOUS
    <3> QED BY <1>1, <3>1, <3>2, StillAlone
  <2>3. \A d \in Exec \ {e} : run'[d] = run[d]
    BY <2>1, RunShape, GetShape
  <2>4. \/ cancels' = cancels /\ e \notin InExecute /\ e \notin InExecute'
        \/ Enters(e) /\ run'[e].wf = run[e].wf
        \/ Works(e) /\ run'[e].wf = run[e].wf
        \/ Leaves(e)
    <3>1. CASE RunStep(e)
      <4>1. Goroutine("refused").pc = "refused" /\ Goroutine("done").pc = "done"
        BY EndTyped DEF Resting
      <4>2. Works(e) \/ Enters(e) => run'[e].pc \notin Resting
        BY DEF Works, Enters, Resting
      <4>3. Reads(e) \/ LooksAfter(e) => cancels' = cancels /\ e \notin InExecute /\ e \notin InExecute'
        BY <4>1 DEF Reads, LooksAfter, InExecute
      <4> QED BY <3>1, <4>2, <4>3, RunShape
    <3>2. CASE \E w \in Workflow : GetWorkflow(e, w)
      BY <3>2, GetShape DEF InExecute
    <3> QED BY <2>1, <3>1, <3>2
  <2>5. CASE cancels' = cancels /\ e \notin InExecute /\ e \notin InExecute'
    <3>1. InExecute' = InExecute /\ \A d \in InExecute : run'[d].wf = run[d].wf
      BY <2>3, <2>5 DEF InExecute
    <3> QED BY <2>2, <2>5, <3>1 DEF Cancellable
  <2>6. CASE Enters(e) /\ run'[e].wf = run[e].wf
    <3>1. /\ cancels' = [cancels EXCEPT ![run[e].wf] = e]
          /\ run[e].wf \in Workflow /\ e \notin InExecute
          /\ InExecute' = InExecute \cup {e}
      BY <1>1, <2>3, <2>6 DEF Enters, InExecute, Resting
    <3>2. ASSUME NEW w \in Workflow, cancels'[w] # 0
          PROVE  cancels'[w] \in InExecute' /\ run'[cancels'[w]].wf = w
      <4>1. CASE w = run[e].wf
        BY <1>1, <2>6, <3>1, <4>1
      <4>2. CASE w # run[e].wf
        BY <1>1, <2>3, <3>1, <3>2, <4>2 DEF Cancellable, InExecute
      <4> QED BY <4>1, <4>2
    <3>3. ASSUME NEW d \in InExecute', <<"exec", d>> \notin disturbed'
          PROVE  cancels'[run'[d].wf] = d
      <4>1. CASE d = e
        BY <1>1, <2>6, <3>1, <4>1
      <4>2. CASE d # e
        BY <2>2, <2>3, <3>1, <3>3, <4>2 DEF Cancellable, SameRecords, InExecute
      <4> QED BY <4>1, <4>2
    <3> QED BY <3>2, <3>3 DEF Cancellable
  <2>7. CASE Works(e) /\ run'[e].wf = run[e].wf
    <3>1. cancels' = cancels /\ InExecute' \subseteq InExecute /\ InExecute \subseteq InExecute'
      BY <2>3, <2>7 DEF Works, InExecute
    <3>2. \A d \in InExecute : run'[d].wf = run[d].wf
      BY <2>3, <2>7 DEF InExecute
    <3> QED BY <2>2, <3>1, <3>2 DEF Cancellable
  <2>8. CASE Leaves(e)
    <3>1. /\ cancels' = [cancels EXCEPT ![run[e].wf] = 0]
          /\ run[e].wf \in Workflow /\ e \in InExecute
          /\ InExecute' = InExecute \ {e}
      <4>1. Goroutine("done").pc = "done"
        BY EndTyped DEF Resting
      <4>2. run'[e].pc \in {"tail", "done"}
        BY <2>8, <4>1 DEF Leaves
      <4> QED BY <1>1, <2>3, <2>8, <4>2 DEF Leaves, InExecute, Resting
    <3>2. ASSUME NEW w \in Workflow, cancels'[w] # 0
          PROVE  cancels'[w] \in InExecute' /\ run'[cancels'[w]].wf = w
      <4>1. w # run[e].wf /\ cancels'[w] = cancels[w]
        BY <1>1, <3>1, <3>2
      <4>2. cancels[w] \in InExecute /\ run[cancels[w]].wf = w
        BY <3>2, <4>1 DEF Cancellable
      <4> QED BY <2>3, <3>1, <4>1, <4>2 DEF InExecute
    <3>3. ASSUME NEW d \in InExecute', <<"exec", d>> \notin disturbed'
          PROVE  cancels'[run'[d].wf] = d
      BY <2>2, <2>3, <3>1, <3>3 DEF Cancellable, SameRecords, InExecute
    <3> QED BY <3>2, <3>3 DEF Cancellable
  <2> QED BY <2>4, <2>5, <2>6, <2>7, <2>8
<1>4. CASE Exit
  <2>1. InExecute' = {} /\ \A w \in Workflow : cancels'[w] = 0
    BY <1>4, ExitShape DEF InExecute, Resting
  <2> QED BY <2>1 DEF Cancellable
<1>5. CASE Idle
  BY <1>5 DEF Idle, Cancellable, InExecute
<1> QED BY <1>2, <1>3, <1>4, <1>5, OtherSteps

(* workflowCancels reaches runs: an entry is that of a run inside Execute  *)
(* of that workflow, and a run that nothing came across has its entry      *)
(* (executor.go:123-164).                                   *)
THEOREM RunsAreCancellable == Spec => []Cancellable
<1>1. Init => Cancellable
  BY DEF Init, Cancellable, InExecute, Goroutine
<1>2. ApiOK /\ Cancellable /\ [Next]_vars => ApiOK' /\ Cancellable'
  BY ApiOKStep, CancellableStep
<1> QED BY <1>1, <1>2, ApiOKInitially, PTL DEF Spec
----------------------------------------------------------------------------
(* Agents: those of the tasks an execution has read are registered, and    *)
(* unless SaveAgent fails those of every task are in the store, which a    *)
(* restart leaves alone.                                                   *)

Inside == {"ready", "saveWorkflow", "saveTasks", "running", "leaving"}

AgentsKnown ==
  /\ \A e \in Exec, t \in WithAgent :
       run[e].pc \in Inside /\ t \in DOMAIN run[e].tasks => <<run[e].wf, t>> \in registry
  /\ "SaveAgent" \notin Faults =>
       /\ \A w \in Workflow, t \in WithAgent : taskRec[w][t] # 0 => <<w, t>> \in agentRec
       /\ \A e \in Exec, t \in WithAgent :
            run[e].pc \in Inside /\ t \in DOMAIN run[e].tasks => <<run[e].wf, t>> \in agentRec

(* What a request may do to the task records. *)
LEMMA RequestWrites ==
  ASSUME ApiOK, NEW r \in Request, RequestStep(r), NEW w \in Workflow, NEW t \in Task
  PROVE  \/ taskRec'[w][t] = taskRec[w][t]
         \/ taskRec'[w][t] = 0
         \/ /\ taskRec'[w][t] = r
            /\ t \in WithAgent /\ "SaveAgent" \notin Faults => <<w, t>> \in agentRec' \/ taskRec[w][t] # 0
<1> DEFINE v == req[r].wf
           Goal == \/ taskRec'[w][t] = taskRec[w][t]
                   \/ taskRec'[w][t] = 0
                   \/ /\ taskRec'[w][t] = r
                      /\ t \in WithAgent /\ "SaveAgent" \notin Faults =>
                           <<w, t>> \in agentRec' \/ taskRec[w][t] # 0
<1>1. taskRec \in [Workflow -> [Task -> Nat]]
  BY DEF ApiOK, OwnerInv, RecordsOK
<1>2. ASSUME taskRec' = taskRec PROVE Goal
  BY <1>2
<1>3. ASSUME NEW u \in Task, NEW x, taskRec' = [taskRec EXCEPT ![v][u] = x], ~ (v = w /\ u = t)
      PROVE  taskRec'[w][t] = taskRec[w][t]
  BY <1>1, <1>3
<1>4. ASSUME NEW x, taskRec' = [taskRec EXCEPT ![w][t] = x]
      PROVE  taskRec'[w][t] = x
  BY <1>1, <1>4
<1>5. ASSUME NEW u \in Task, CreateTask(r, u) \/ LookUpTask(r, u) \/ UpdateTask(r, u) PROVE Goal
  <2>1. \/ taskRec' = taskRec
        \/ taskRec' = [taskRec EXCEPT ![v][u] = r] /\ RegisterAgent(v, u)
        \/ taskRec' = [taskRec EXCEPT ![v][u] = r] /\ taskRec[v][u] # 0
    BY <1>5 DEF CreateTask, LookUpTask, UpdateTask, SaveTaskOf, WriteTask
  <2>2. CASE taskRec' = [taskRec EXCEPT ![v][u] = r] /\ v = w /\ u = t
    <3>1. taskRec'[w][t] = r
      BY <1>4, <2>2
    <3>2. RegisterAgent(w, t) /\ t \in WithAgent /\ "SaveAgent" \notin Faults => <<w, t>> \in agentRec'
      BY DEF RegisterAgent
    <3>3. taskRec' = taskRec \/ RegisterAgent(w, t) \/ taskRec[w][t] # 0
      BY <2>1, <2>2
    <3> QED BY <3>1, <3>2, <3>3
  <2>3. CASE taskRec' = [taskRec EXCEPT ![v][u] = r] /\ ~ (v = w /\ u = t)
    BY <1>3, <2>3
  <2> QED BY <1>2, <2>1, <2>2, <2>3
<1>6. ASSUME NEW u \in Task, DeleteTask(r, u) PROVE Goal
  <2>1. taskRec' = taskRec \/ taskRec' = [taskRec EXCEPT ![v][u] = 0]
    BY <1>6 DEF DeleteTask
  <2> QED BY <1>2, <1>3, <1>4, <2>1
<1>7. ASSUME NEW u \in Workflow, DeleteWorkflow(r, u) PROVE Goal
  <2>1. taskRec' = [taskRec EXCEPT ![u] = [s \in Task |-> 0]]
    BY <1>7 DEF DeleteWorkflow
  <2> QED BY <1>1, <2>1
<1>8. ASSUME ListExisting(r) \/ Respond(r) \/ RequestErrs(r) PROVE Goal
  BY <1>2, <1>8 DEF ListExisting, Respond, RequestErrs, records
<1>9. ASSUME NEW u \in Workflow, NEW S \in Bodies, CreateWorkflow(r, u, S) \/ UpdateWorkflow(r, u, S)
      PROVE  Goal
  BY <1>2, <1>9 DEF CreateWorkflow, UpdateWorkflow
<1> HIDE DEF Goal
<1>10. Goal
  BY <1>5, <1>6, <1>7, <1>8, <1>9 DEF RequestStep
<1> QED BY <1>10 DEF Goal

(* What an execution may do to them. *)
LEMMA RunWrites ==
  ASSUME ApiOK, NEW e \in Exec, RunStep(e), NEW w \in Workflow, NEW t \in Task
  PROVE  \/ taskRec'[w][t] = taskRec[w][t]
         \/ /\ run[e].pc \in Inside /\ w = run[e].wf /\ t \in DOMAIN run[e].tasks
            /\ taskRec'[w][t] = run[e].tasks[t]
<1>1. taskRec \in [Workflow -> [Task -> Nat]]
  BY DEF ApiOK, OwnerInv, RecordsOK
<1>2. \/ taskRec' = taskRec
      \/ /\ run[e].pc \in Inside
         /\ \E u \in DOMAIN run[e].tasks : taskRec' = [taskRec EXCEPT ![run[e].wf][u] = run[e].tasks[u]]
  BY RunShape DEF Reads, Enters, Works, Leaves, LooksAfter, Inside
<1>3. CASE taskRec' = taskRec
  BY <1>3
<1>4. ASSUME run[e].pc \in Inside, NEW u \in DOMAIN run[e].tasks,
             taskRec' = [taskRec EXCEPT ![run[e].wf][u] = run[e].tasks[u]]
      PROVE  \/ taskRec'[w][t] = taskRec[w][t]
             \/ w = run[e].wf /\ t = u /\ taskRec'[w][t] = run[e].tasks[u]
  <2> DEFINE v == run[e].wf
             value == run[e].tasks[u]
  <2>1. taskRec' = [taskRec EXCEPT ![v][u] = value]
    BY <1>4
  <2> HIDE DEF v, value
  <2>2. \/ taskRec'[w][t] = taskRec[w][t]
        \/ w = v /\ t = u /\ taskRec'[w][t] = value
    BY <1>1, <2>1
  <2> QED
    BY <2>2 DEF v, value
<1> QED
  BY <1>2, <1>3, <1>4

LEMMA AgentsKnownStep ==
  ASSUME ApiOK, AgentsKnown, [Next]_vars
  PROVE  AgentsKnown'
<1>1. CASE \E r \in Request : RequestStep(r)
  <2>1. PICK r \in Request : RequestStep(r)
    BY <1>1
  <2>2. run' = run /\ registry \subseteq registry' /\ agentRec \subseteq agentRec'
    BY <2>1, RequestShape
  <2>3. ASSUME "SaveAgent" \notin Faults, NEW w \in Workflow, NEW t \in WithAgent, taskRec'[w][t] # 0
        PROVE  <<w, t>> \in agentRec'
    BY <2>1, <2>2, <2>3, RequestWrites, SetsAssumption DEF AgentsKnown
  <2> QED BY <2>2, <2>3 DEF AgentsKnown
<1>2. CASE \E e \in Exec : RunStep(e)
  <2>1. PICK e \in Exec : RunStep(e)
    BY <1>2
  <2>2. agentRec' = agentRec /\ registry \subseteq registry' /\ \A d \in Exec \ {e} : run'[d] = run[d]
    BY <2>1, RunShape
  <2>3. \/ run'[e].pc \notin Inside
        \/ Reads(e) /\ run'[e].wf = run[e].wf
        \/ run[e].pc \in Inside /\ run'[e].wf = run[e].wf /\ run'[e].tasks = run[e].tasks
    <3>1. Goroutine("refused").pc = "refused" /\ Goroutine("done").pc = "done"
      BY EndTyped DEF Resting
    <3>2. Inside \cap Resting = {}
      BY DEF Inside, Resting
    <3>3. Leaves(e) \/ LooksAfter(e) => run'[e].pc \notin Inside
      BY <3>1 DEF Leaves, LooksAfter, Inside
    <3>4. Enters(e) \/ Works(e) => run[e].pc \in Inside /\ run[e].pc # "read"
      BY DEF Enters, Works, Inside
    <3>5. Reads(e) => run'[e].pc \notin Inside \/ run'[e].pc = "ready"
      BY <3>1 DEF Reads, Inside
    <3> QED BY <2>1, <3>2, <3>3, <3>4, <3>5, RunShape
  <2>4. ASSUME "SaveAgent" \notin Faults, NEW w \in Workflow, NEW t \in WithAgent, taskRec'[w][t] # 0
        PROVE  <<w, t>> \in agentRec'
    BY <2>1, <2>2, <2>4, RunWrites, SetsAssumption DEF AgentsKnown
  <2>5. ASSUME NEW d \in Exec, NEW t \in WithAgent, run'[d].pc \in Inside, t \in DOMAIN run'[d].tasks
        PROVE  /\ <<run'[d].wf, t>> \in registry'
               /\ "SaveAgent" \notin Faults => <<run'[d].wf, t>> \in agentRec'
    <3>1. CASE d # e
      BY <2>2, <2>5, <3>1 DEF AgentsKnown
    <3>2. CASE d = e /\ Reads(e) /\ run'[e].wf = run[e].wf
      <4>1. run[e].wf \in Workflow
        BY <3>2, RunTyped DEF ApiOK, Reads, Resting
      <4>2. Goroutine("refused").pc \notin Inside
        BY EndTyped DEF Resting, Inside
      <4>3. t \in Task /\ taskRec[run[e].wf][t] # 0 /\ <<run[e].wf, t>> \in registry'
        BY <2>5, <3>2, <4>2 DEF Reads
      <4> QED BY <2>2, <3>2, <4>1, <4>3 DEF AgentsKnown
    <3>3. CASE d = e /\ run[e].pc \in Inside /\ run'[e].wf = run[e].wf /\ run'[e].tasks = run[e].tasks
      BY <2>2, <2>5, <3>3 DEF AgentsKnown
    <3> QED BY <2>3, <2>5, <3>1, <3>2, <3>3
  <2> QED BY <2>4, <2>5 DEF AgentsKnown
<1>3. CASE \E e \in Exec, w \in Workflow : GetWorkflow(e, w)
  <2>1. PICK e \in Exec, w \in Workflow : GetWorkflow(e, w)
    BY <1>3
  <2>2. run'[e].pc \notin Inside /\ UNCHANGED <<taskRec, agentRec, registry>>
        /\ \A d \in Exec \ {e} : run'[d] = run[d]
    BY <2>1, GetShape DEF Inside
  <2> QED BY <2>2 DEF AgentsKnown
<1>4. CASE Exit
  <2>1. UNCHANGED <<taskRec, agentRec>> /\ \A e \in Exec : run'[e].pc \notin Inside
    BY <1>4, ExitShape DEF records, Inside, Resting
  <2> QED BY <2>1 DEF AgentsKnown
<1>5. CASE Idle
  BY <1>5 DEF Idle, AgentsKnown, records
<1> QED BY <1>1, <1>2, <1>3, <1>4, <1>5, OtherSteps

(* An execution never misses an agent its tasks name, after a restart      *)
(* neither, and every stored agent is listed (server.go:835, 897).         *)
THEOREM AgentsAreKnown == Spec => []AgentsSurvive
<1>1. Init => AgentsKnown
  <2> SUFFICES ASSUME Init PROVE AgentsKnown
    OBVIOUS
  <2>1. \A e \in Exec : run[e].pc = "idle"
    BY EndTyped DEF Init, Resting
  <2>2. \A e \in Exec : run[e].pc \notin Inside
    BY <2>1 DEF Inside
  <2>3. \A w \in Workflow, t \in WithAgent : taskRec[w][t] = 0
    BY SetsAssumption DEF Init
  <2> QED BY <2>2, <2>3 DEF AgentsKnown
<1>2. ApiOK /\ AgentsKnown /\ [Next]_vars => ApiOK' /\ AgentsKnown'
  BY ApiOKStep, AgentsKnownStep
<1>3. AgentsKnown => AgentsSurvive
  BY DEF AgentsKnown, AgentsSurvive, ListAgents, InExecute, Inside
<1> QED BY <1>1, <1>2, <1>3, ApiOKInitially, PTL DEF Spec
----------------------------------------------------------------------------
(* Verdicts: an execution that is alone finds the record it has read, and  *)
(* leaves Execute without an error only when it has stored COMPLETED.      *)

VerdictKnown ==
  \A e \in Exec :
    /\ run[e].pc \in {"tail", "tailWrite"} => run[e].err
    /\ run[e].pc \in Place \ Resting /\ <<"exec", e>> \notin disturbed => wfRec[run[e].wf] # Absent
    /\ run[e].pc = "leaving" /\ ~ run[e].err /\ <<"exec", e>> \notin disturbed =>
         wfRec[run[e].wf].status = "COMPLETED"

(* An execution begins with a record. *)
LEMMA GetFinds ==
  ASSUME ApiOK, NEW e \in Exec, NEW w \in Workflow, GetWorkflow(e, w)
  PROVE  wfRec'[run'[e].wf] # Absent
<1> DEFINE q == [run[e] EXCEPT !.pc = "read", !.wf = w, !.body = wfRec[w].body]
<1>1. run \in [Exec -> RunType] /\ run[e] \in RunType
  BY RunTyped DEF ApiOK
<1>2. wfRec' = wfRec /\ wfRec[w] # Absent /\ run' = [run EXCEPT ![e] = q]
  BY <1>1 DEF GetWorkflow, ReadOnly
<1>3. run'[e] = q /\ q.wf = w
  BY <1>1, <1>2 DEF RunType
<1> QED BY <1>2, <1>3

LEMMA VerdictKnownStep ==
  ASSUME ApiOK, VerdictKnown, [Next]_vars
  PROVE  VerdictKnown'
<1> DEFINE After == Place \ Resting
<1>a. {"leaving", "tail", "tailWrite"} \subseteq After
  BY DEF Place, Resting
<1>1. \A e \in Exec : run[e].pc \in After => e \in InFlight /\ run[e].pc \notin Resting
  BY DEF InFlight, InExecute, InTail, Resting, Place
<1>2. ASSUME NEW d \in Exec, run'[d] = run[d],
             run[d].pc \in After /\ <<"exec", d>> \notin disturbed' =>
               <<"exec", d>> \notin disturbed /\ wfRec'[run[d].wf] = wfRec[run[d].wf]
      PROVE  /\ run'[d].pc \in {"tail", "tailWrite"} => run'[d].err
             /\ run'[d].pc \in After /\ <<"exec", d>> \notin disturbed' => wfRec'[run'[d].wf] # Absent
             /\ run'[d].pc = "leaving" /\ ~ run'[d].err /\ <<"exec", d>> \notin disturbed' =>
                  wfRec'[run'[d].wf].status = "COMPLETED"
  <2>1. run[d].pc \in {"leaving", "tail", "tailWrite"} => run[d].pc \in After
    BY <1>a
  <2>2. run[d].pc \in After /\ <<"exec", d>> \notin disturbed => wfRec[run[d].wf] # Absent
    BY DEF VerdictKnown
  <2> HIDE DEF After
  <2> QED BY <1>2, <2>1, <2>2 DEF VerdictKnown
<1>3. CASE \E r \in Request : RequestStep(r)
  <2>1. PICK r \in Request : RequestStep(r)
    BY <1>3
  <2>2. run' = run /\ Meets(<<"request", r>>)
    BY <2>1, RequestShape, RequestMeets
  <2>3. \A d : <<"exec", d>> # <<"request", r>>
    OBVIOUS
  <2>4. \A d \in Exec : run[d].pc \in After /\ <<"exec", d>> \notin disturbed' =>
          <<"exec", d>> \notin disturbed /\ wfRec'[run[d].wf] = wfRec[run[d].wf]
    BY <1>1, <2>2, <2>3, StillAlone DEF SameRecords
  <2> QED BY <1>2, <2>2, <2>4 DEF VerdictKnown
<1>4. CASE \E e \in Exec : RunStep(e) \/ \E w \in Workflow : GetWorkflow(e, w)
  <2>1. PICK e \in Exec : RunStep(e) \/ \E w \in Workflow : GetWorkflow(e, w)
    BY <1>4
  <2>2. Meets(<<"exec", e>>) /\ \A d \in Exec \ {e} : run'[d] = run[d]
    BY <2>1, RunMeets, RunShape, GetShape
  <2>3. \A d : d # e => <<"exec", d>> # <<"exec", e>>
    OBVIOUS
  <2>4. \A d \in Exec \ {e} : run[d].pc \in After /\ <<"exec", d>> \notin disturbed' =>
          <<"exec", d>> \notin disturbed /\ wfRec'[run[d].wf] = wfRec[run[d].wf]
    BY <1>1, <2>2, <2>3, StillAlone DEF SameRecords
  <2>5. run[e].pc \in After /\ <<"exec", e>> \notin disturbed' => <<"exec", e>> \notin disturbed
    BY <1>1, <2>2, StillAlone
  <2>6. /\ run'[e].pc \in {"tail", "tailWrite"} => run'[e].err
        /\ run'[e].pc \in After /\ <<"exec", e>> \notin disturbed' => wfRec'[run'[e].wf] # Absent
        /\ run'[e].pc = "leaving" /\ ~ run'[e].err /\ <<"exec", e>> \notin disturbed' =>
             wfRec'[run'[e].wf].status = "COMPLETED"
    <3>1. CASE run'[e].pc \notin After
      <4>1. run'[e].pc \notin {"leaving", "tail", "tailWrite"}
        BY <1>a, <3>1
      <4> QED BY <3>1, <4>1
    <3>2. CASE run'[e].pc \in After
      <4>1. CASE \E w \in Workflow : GetWorkflow(e, w)
        BY <4>1, GetShape, GetFinds
      <4>2. CASE RunStep(e)
        <5>1. run'[e].wf = run[e].wf
          BY <3>2, <4>2, RunShape
        <5>2. /\ Goroutine("refused").pc \in Resting /\ Goroutine("done").pc \in Resting
              /\ Goroutine("refused").pc = "refused" /\ Goroutine("done").pc = "done"
          BY EndTyped DEF Resting
        <5>3. Works(e) => run[e].pc \in After
          BY DEF Works, Place, Resting
        <5>4. /\ Reads(e) \/ Enters(e) \/ Leaves(e) => run[e].pc \in After
              /\ LooksAfter(e) => run[e].pc \in After
          BY DEF Reads, Enters, Leaves, LooksAfter, Place, Resting
        <5> HIDE DEF After
        <5>5. CASE Reads(e)
          BY <2>5, <3>2, <5>1, <5>2, <5>4, <5>5 DEF Reads, VerdictKnown, After
        <5>6. CASE Enters(e)
          BY <2>5, <3>2, <5>1, <5>2, <5>4, <5>6 DEF Enters, VerdictKnown, After
        <5>7. CASE Works(e)
          BY <2>5, <5>1, <5>3, <5>7 DEF Works, VerdictKnown, After
        <5>8. CASE Leaves(e)
          BY <2>5, <3>2, <5>1, <5>2, <5>4, <5>8 DEF Leaves, VerdictKnown, After
        <5>9. CASE LooksAfter(e)
          BY <2>5, <3>2, <5>1, <5>2, <5>4, <5>9 DEF LooksAfter, VerdictKnown, After
        <5> QED BY <4>2, <5>5, <5>6, <5>7, <5>8, <5>9, RunShape
      <4> QED BY <2>1, <4>1, <4>2
    <3> QED BY <3>1, <3>2
  <2>7. ASSUME NEW d \in Exec \ {e}
        PROVE  /\ run'[d].pc \in {"tail", "tailWrite"} => run'[d].err
               /\ run'[d].pc \in After /\ <<"exec", d>> \notin disturbed' => wfRec'[run'[d].wf] # Absent
               /\ run'[d].pc = "leaving" /\ ~ run'[d].err /\ <<"exec", d>> \notin disturbed' =>
                    wfRec'[run'[d].wf].status = "COMPLETED"
    BY <1>2, <2>2, <2>4
  <2> QED BY <2>6, <2>7 DEF VerdictKnown
<1>5. CASE Exit
  <2>1. \A d \in Exec : run'[d].pc \notin After
    BY <1>5, ExitShape DEF Resting
  <2>2. \A d \in Exec : run'[d].pc \notin {"leaving", "tail", "tailWrite"}
    BY <1>a, <2>1
  <2> QED BY <2>1, <2>2 DEF VerdictKnown
<1>6. CASE Idle
  BY <1>6 DEF Idle, VerdictKnown, records
<1> QED BY <1>3, <1>4, <1>5, <1>6, OtherSteps

(* The verdict of an execution nothing came across is in the record when   *)
(* the goroutine of the API ends, whichever calls of Execute erred         *)
(* (executor.go:166-353), unless its own did (server.go:853, 857).         *)
THEOREM VerdictsAreStored == Spec => VerdictStored
<1>1. ASSUME ApiOK, VerdictKnown, [Next]_vars, NEW e \in Exec,
             run'[e].pc = "done", run[e].pc # "done", <<"exec", e>> \notin disturbed,
             run[e].wf \notin left'
      PROVE  wfRec'[run[e].wf].status = IF run[e].err THEN "FAILED" ELSE "COMPLETED"
  <2>1. RunStep(e)
    <3>1. CASE \E r \in Request : RequestStep(r)
      BY <1>1, <3>1, RequestShape
    <3>2. CASE Exit
      <4>1. Goroutine("killed").pc = "killed"
        BY EndTyped DEF Resting
      <4> QED BY <1>1, <3>2, <4>1, ExitShape
    <3>3. CASE Idle
      BY <1>1, <3>3 DEF Idle
    <3>4. CASE \E d \in Exec : RunStep(d) \/ \E w \in Workflow : GetWorkflow(d, w)
      BY <1>1, <3>4, RunShape, GetShape
    <3> QED BY <1>1, <3>1, <3>2, <3>3, <3>4, OtherSteps
  <2>2. Goroutine("refused").pc = "refused"
    BY EndTyped DEF Resting
  <2>3. Leaves(e) \/ LooksAfter(e)
    BY <1>1, <2>1, <2>2, RunShape DEF Reads, Enters, Works
  <2>4. run[e].pc \in {"leaving", "tail", "tailWrite"} => run[e].pc \in Place \ Resting
    BY DEF Place, Resting
  <2> QED BY <1>1, <2>3, <2>4 DEF Leaves, LooksAfter, VerdictKnown
<1>2. Init => VerdictKnown
  BY DEF Init, VerdictKnown, Goroutine, Resting
<1>3. ApiOK /\ VerdictKnown /\ [Next]_vars => ApiOK' /\ VerdictKnown'
  BY ApiOKStep, VerdictKnownStep
<1>4. ApiOK /\ VerdictKnown /\ [Next]_vars =>
        [\A e \in Exec :
           /\ run'[e].pc = "done" /\ run[e].pc # "done"
           /\ <<"exec", e>> \notin disturbed
           /\ run[e].wf \notin left'
           => wfRec'[run[e].wf].status = IF run[e].err THEN "FAILED" ELSE "COMPLETED"]_vars
  BY <1>1
<1> QED BY <1>2, <1>3, <1>4, ApiOKInitially, PTL DEF Spec, VerdictStored
----------------------------------------------------------------------------
(* Requests: what one that is alone has written so far is there, and no    *)
(* record is of a request that has not come yet.                           *)

Untouched(r) ==
  req[r].step = "idle" =>
    /\ \A w \in Workflow, t \in Task : taskRec[w][t] # r
    /\ \A e \in Exec : \A t \in DOMAIN run[e].tasks : run[e].tasks[t] # r

Own(r, t) == taskRec[req[r].wf][t] = r

Written(r) ==
  LET h == req[r]
  IN  /\ wfRec[h.wf] = [status |-> "PENDING", body |-> r]
      /\ h.step = "delete" =>
           /\ h.todo \cap h.seen = {}
           /\ \A t \in Task : Own(r, t) <=> t \in h.seen
           /\ \A t \in Task : taskRec[h.wf][t] # 0 <=> t \in h.seen \cup h.todo
      /\ h.step # "delete" =>
           /\ h.todo \subseteq h.seen
           /\ \A t \in Task : Own(r, t) <=> t \in h.seen \ h.todo

AsAsked ==
  \A r \in Request :
    /\ Untouched(r)
    /\ r \in Active /\ <<"request", r>> \notin disturbed => Written(r)

LEMMA UntouchedStep ==
  ASSUME ApiOK, NEW r \in Request, Untouched(r), [Next]_vars
  PROVE  Untouched(r)'
<1> SUFFICES ASSUME req'[r].step = "idle"
             PROVE  /\ \A w \in Workflow, t \in Task : taskRec'[w][t] # r
                    /\ \A e \in Exec : \A t \in DOMAIN run'[e].tasks : run'[e].tasks[t] # r
  BY DEF Untouched
<1>1. r # 0
  BY SetsAssumption DEF Request
<1>2. \A pc : DOMAIN Goroutine(pc).tasks = {}
  BY DEF Goroutine
<1>3. CASE \E q \in Request : RequestStep(q)
  <2>1. PICK q \in Request : RequestStep(q)
    BY <1>3
  <2>2. q # r /\ req'[r] = req[r] /\ run' = run
    BY <2>1, RequestShape
  <2>3. \A w \in Workflow, t \in Task : taskRec'[w][t] \in {taskRec[w][t], 0, q}
    BY <2>1, RequestWrites
  <2> QED BY <1>1, <2>2, <2>3 DEF Untouched
<1>4. CASE \E e \in Exec : RunStep(e)
  <2>1. PICK e \in Exec : RunStep(e)
    BY <1>4
  <2>2. req' = req /\ \A d \in Exec \ {e} : run'[d] = run[d]
    BY <2>1, RunShape
  <2>3. \A w \in Workflow, t \in Task : taskRec'[w][t] # r
    BY <2>1, <2>2, RunWrites DEF Untouched
  <2>4. ASSUME NEW t \in DOMAIN run'[e].tasks PROVE run'[e].tasks[t] # r
    <3>1. CASE run'[e].tasks = run[e].tasks
      BY <2>2, <2>4, <3>1 DEF Untouched
    <3>2. CASE Reads(e)
      <4>1. run[e].wf \in Workflow
        BY <3>2, RunTyped DEF ApiOK, Reads, Resting
      <4> QED BY <1>2, <2>2, <2>4, <3>2, <4>1 DEF Untouched, Reads
    <3>3. CASE Enters(e) \/ Works(e)
      <4>1. run[e].pc # "read" /\ run'[e].pc \notin Resting
        BY <3>3 DEF Enters, Works, Resting
      <4> QED BY <2>1, <3>1, <4>1, RunShape
    <3>4. CASE Leaves(e) \/ LooksAfter(e)
      <4>1. run[e].pc # "read" /\ (run'[e].pc \notin Resting \/ run'[e] = Goroutine("done"))
        BY <3>4 DEF Leaves, LooksAfter, Resting
      <4> QED BY <1>2, <2>1, <2>4, <3>1, <4>1, RunShape
    <3> QED BY <2>1, <3>2, <3>3, <3>4, RunShape
  <2> QED BY <2>2, <2>3, <2>4 DEF Untouched
<1>5. CASE \E e \in Exec, w \in Workflow : GetWorkflow(e, w)
  <2>1. PICK e \in Exec, w \in Workflow : GetWorkflow(e, w)
    BY <1>5
  <2>2. req' = req /\ taskRec' = taskRec /\ \A d \in Exec : run'[d].tasks = run[d].tasks
    BY <2>1, GetShape
  <2> QED BY <2>2 DEF Untouched
<1>6. CASE Exit
  <2>1. req[r].step = "idle" /\ taskRec' = taskRec
    BY <1>6, ExitShape DEF records
  <2> QED BY <1>2, <1>6, <2>1, ExitShape DEF Untouched
<1>7. CASE Idle
  BY <1>7 DEF Idle, records, Untouched
<1> QED BY <1>3, <1>4, <1>5, <1>6, <1>7, OtherSteps

(* A request that is alone goes on as it was asked. *)
LEMMA WritesOn ==
  ASSUME ApiOK, NEW r \in Request, Untouched(r), RequestStep(r),
         r \in Active => Written(r), r \in Active'
  PROVE  Written(r)'
<1> DEFINE v == req[r].wf
<1>1. /\ req \in [Request -> RequestType]
      /\ wfRec \in [Workflow -> {Absent} \cup Stored]
      /\ taskRec \in [Workflow -> [Task -> Nat]]
      /\ r \in Active => v \in Workflow
      /\ req[r].step = "found" => req[r].at \in req[r].todo
      /\ r # 0
  BY SetsAssumption DEF ApiOK, RequestsOK, OwnerInv, RecordsOK, Active, Request
<1>2. req[r] \in RequestType
  BY <1>1
<1>3. \A code : Answer(r, code) => req'[r].step = code
  BY <1>1 DEF Answer, Handler
<1>4. r \in Active' => req'[r].step \in {"tasks", "found", "delete"}
  BY DEF Active
<1>5. ASSUME NEW w \in Workflow, NEW S \in Bodies, CreateWorkflow(r, w, S) \/ UpdateWorkflow(r, w, S)
      PROVE  Written(r)'
  <2>1. /\ req[r].step = "idle"
        /\ req'[r].step = "tasks" /\ req'[r].wf = w /\ req'[r].todo = S /\ req'[r].seen = S
        /\ wfRec' = [wfRec EXCEPT ![w] = [status |-> "PENDING", body |-> r]]
        /\ taskRec' = taskRec
    BY <1>1, <1>5 DEF CreateWorkflow, UpdateWorkflow, Take, NextRequest, Put
  <2>2. \A t \in Task : taskRec'[w][t] # r
    BY <2>1 DEF Untouched
  <2> QED BY <1>1, <2>1, <2>2 DEF Written, Own
<1>6. ASSUME NEW t \in Task, NEW b \in BOOLEAN, WriteTask(r, t, b), r \in Active,
             req[r].step # "delete", t \in req[r].todo
      PROVE  Written(r)'
  <2>1. b
    BY <1>3, <1>4, <1>6 DEF WriteTask
  <2>2. /\ wfRec' = wfRec
        /\ taskRec' = [taskRec EXCEPT ![v][t] = r]
        /\ req' = [req EXCEPT ![r].todo = @ \ {t}, ![r].step = "tasks", ![r].at = None]
    BY <1>6, <2>1 DEF WriteTask
  <2>3. req'[r].step = "tasks" /\ req'[r].wf = v /\ req'[r].todo = req[r].todo \ {t} /\ req'[r].seen = req[r].seen
    BY <1>1, <1>2, <2>2 DEF RequestType
  <2>4. /\ wfRec[v] = [status |-> "PENDING", body |-> r]
        /\ req[r].todo \subseteq req[r].seen
        /\ \A u \in Task : taskRec[v][u] = r <=> u \in req[r].seen \ req[r].todo
    BY <1>6 DEF Written, Own
  <2>5. taskRec'[v][t] = r /\ \A u \in Task \ {t} : taskRec'[v][u] = taskRec[v][u]
    BY <1>1, <1>6, <2>2
  <2>6. \A u \in Task : taskRec'[v][u] = r <=> u \in req[r].seen \ (req[r].todo \ {t})
    BY <1>6, <2>4, <2>5
  <2> QED BY <2>2, <2>3, <2>4, <2>6 DEF Written, Own
<1>7. ASSUME NEW t \in Task, CreateTask(r, t) \/ LookUpTask(r, t) \/ UpdateTask(r, t)
      PROVE  Written(r)'
  <2>1. r \in Active /\ req[r].step # "delete" /\ t \in req[r].todo
    BY <1>1, <1>7 DEF CreateTask, LookUpTask, UpdateTask, SaveTaskOf, Active
  <2>2. CASE \E b \in BOOLEAN : WriteTask(r, t, b)
    BY <1>6, <2>1, <2>2
  <2>3. CASE /\ req' = [req EXCEPT ![r].step = "found", ![r].at = t]
             /\ UNCHANGED <<wfRec, taskRec>>
    <3>1. req'[r].step = "found" /\ req'[r].wf = v /\ req'[r].todo = req[r].todo /\ req'[r].seen = req[r].seen
      BY <1>1, <1>2, <2>3 DEF RequestType
    <3> QED BY <2>1, <2>3, <3>1 DEF Written, Own
  <2> QED BY <1>7, <2>2, <2>3 DEF CreateTask, LookUpTask, UpdateTask, SaveTaskOf
<1>8. ASSUME ListExisting(r) PROVE Written(r)'
  <2> DEFINE T == {t \in Task : taskRec[v][t] # 0}
  <2>1. /\ r \in Active /\ req[r].step = "tasks" /\ req[r].todo = {}
        /\ UNCHANGED <<wfRec, taskRec>>
        /\ req' = [req EXCEPT ![r].step = "delete", ![r].todo = T \ req[r].seen]
    BY <1>8 DEF ListExisting, Active, records
  <2>2. req'[r].step = "delete" /\ req'[r].wf = v /\ req'[r].todo = T \ req[r].seen /\ req'[r].seen = req[r].seen
    <3> HIDE DEF T
    <3> QED BY <1>1, <1>2, <2>1 DEF RequestType
  <2>3. /\ wfRec[v] = [status |-> "PENDING", body |-> r]
        /\ \A u \in Task : taskRec[v][u] = r <=> u \in req[r].seen
    BY <2>1 DEF Written, Own
  <2>4. \A u \in Task : taskRec[v][u] # 0 <=> u \in req[r].seen \cup (T \ req[r].seen)
    BY <1>1, <2>3
  <2> HIDE DEF T
  <2> QED BY <2>1, <2>2, <2>3, <2>4 DEF Written, Own
<1>9. ASSUME NEW t \in Task, DeleteTask(r, t) PROVE Written(r)'
  <2>1. r \in Active /\ req[r].step = "delete" /\ t \in req[r].todo /\ wfRec' = wfRec
    BY <1>9 DEF DeleteTask, Active
  <2>2. /\ taskRec' = [taskRec EXCEPT ![v][t] = 0]
        /\ req' = [req EXCEPT ![r].todo = @ \ {t}]
    BY <1>3, <1>4, <1>9 DEF DeleteTask
  <2>3. req'[r].step = "delete" /\ req'[r].wf = v /\ req'[r].todo = req[r].todo \ {t} /\ req'[r].seen = req[r].seen
    BY <1>1, <1>2, <2>1, <2>2 DEF RequestType
  <2>4. /\ wfRec[v] = [status |-> "PENDING", body |-> r]
        /\ req[r].todo \cap req[r].seen = {}
        /\ \A u \in Task : taskRec[v][u] = r <=> u \in req[r].seen
        /\ \A u \in Task : taskRec[v][u] # 0 <=> u \in req[r].seen \cup req[r].todo
    BY <2>1 DEF Written, Own
  <2>5. taskRec'[v][t] = 0 /\ \A u \in Task \ {t} : taskRec'[v][u] = taskRec[v][u]
    BY <1>1, <2>1, <2>2
  <2>6. \A u \in Task : taskRec'[v][u] = r <=> u \in req[r].seen
    BY <1>1, <2>1, <2>4, <2>5
  <2>7. \A u \in Task : taskRec'[v][u] # 0 <=> u \in req[r].seen \cup (req[r].todo \ {t})
    BY <2>1, <2>4, <2>5
  <2>8. (req[r].todo \ {t}) \cap req[r].seen = {}
    BY <2>4
  <2> QED BY <2>1, <2>3, <2>4, <2>6, <2>7, <2>8 DEF Written, Own
<1>10. ASSUME Respond(r) \/ RequestErrs(r) \/ \E w \in Workflow : DeleteWorkflow(r, w) PROVE FALSE
  BY <1>3, <1>4, <1>10 DEF Respond, RequestErrs, DeleteWorkflow
<1> QED BY <1>5, <1>7, <1>8, <1>9, <1>10 DEF RequestStep

LEMMA AsAskedStep ==
  ASSUME ApiOK, AsAsked, [Next]_vars
  PROVE  AsAsked'
<1>1. \A r \in Request : Untouched(r)'
  BY UntouchedStep DEF AsAsked
<1>2. ASSUME NEW r \in Active, Written(r), req'[r] = req[r], SameRecords(req[r].wf)
      PROVE  Written(r)'
  BY <1>2 DEF Written, Own, SameRecords
<1>3. ASSUME NEW r \in Request, r \in Active', <<"request", r>> \notin disturbed'
      PROVE  Written(r)'
  <2>1. CASE RequestStep(r)
    <3>1. r \in Active => <<"request", r>> \notin disturbed
      BY <1>3, <2>1, RequestMeets, StillAlone
    <3> QED BY <1>3, <2>1, <3>1, WritesOn DEF AsAsked
  <2>2. ASSUME NEW q \in Request \ {r}, RequestStep(q) PROVE Written(r)'
    <3>1. req'[r] = req[r] /\ r \in Active
      BY <1>3, <2>2, RequestShape DEF Active
    <3>2. <<"request", r>> # <<"request", q>>
      OBVIOUS
    <3>3. <<"request", r>> \notin disturbed /\ SameRecords(req[r].wf)
      BY <1>3, <2>2, <3>1, <3>2, RequestMeets, StillAlone
    <3> QED BY <1>2, <3>1, <3>3 DEF AsAsked
  <2>3. ASSUME NEW e \in Exec, RunStep(e) \/ \E w \in Workflow : GetWorkflow(e, w) PROVE Written(r)'
    <3>1. req' = req
      BY <2>3, RunShape, GetShape
    <3>2. r \in Active
      BY <1>3, <3>1 DEF Active
    <3>3. <<"request", r>> # <<"exec", e>>
      OBVIOUS
    <3>4. <<"request", r>> \notin disturbed /\ SameRecords(req[r].wf)
      BY <1>3, <2>3, <3>2, <3>3, RunMeets, StillAlone
    <3> QED BY <1>2, <3>1, <3>2, <3>4 DEF AsAsked
  <2>4. CASE Exit
    BY <1>3, <2>4, ExitShape
  <2>5. CASE Idle
    BY <1>3, <2>5 DEF Idle, records, AsAsked, Written, Own, Active
  <2> QED BY <2>1, <2>2, <2>3, <2>4, <2>5, OtherSteps
<1> QED BY <1>1, <1>3 DEF AsAsked

(* A request that answers 200 or 201 and that nothing came across has done *)
(* what it was asked to (server.go:509-549, 707-788).                      *)
THEOREM RequestsAreApplied == Spec => RequestApplied
<1> DEFINE AsSaid(r) == LET w == req[r].wf
                           own == {t \in Task : taskRec'[w][t] = r}
                       IN  /\ wfRec'[w] = [status |-> "PENDING", body |-> r]
                           /\ own = req[r].seen
                           /\ req[r].kind = "update" => {t \in Task : taskRec'[w][t] # 0} = own
<1>1. ASSUME ApiOK, AsAsked, [Next]_vars, NEW r \in Request,
             req'[r].step = "ok", req[r].step # "ok", <<"request", r>> \notin disturbed
      PROVE  AsSaid(r)
  <2>1. RequestStep(r)
    <3>1. CASE \E q \in Request \ {r} : RequestStep(q)
      BY <1>1, <3>1, RequestShape
    <3>2. CASE \E e \in Exec : RunStep(e) \/ \E w \in Workflow : GetWorkflow(e, w)
      BY <1>1, <3>2, RunShape, GetShape
    <3>3. CASE Exit
      BY <1>1, <3>3 DEF Exit, Handler
    <3>4. CASE Idle
      BY <1>1, <3>4 DEF Idle
    <3> QED BY <1>1, <3>1, <3>2, <3>3, <3>4, OtherSteps
  <2>2. req \in [Request -> RequestType] /\ req[r] \in RequestType
    BY <1>1 DEF ApiOK, RequestsOK
  <2>3. Respond(r)
    <3>1. \A code : Answer(r, code) => req'[r].step = code
      BY <2>2 DEF Answer, Handler
    <3>2. ASSUME NEW w \in Workflow, NEW S \in Bodies, CreateWorkflow(r, w, S) \/ UpdateWorkflow(r, w, S)
          PROVE  FALSE
      BY <1>1, <2>2, <3>2 DEF CreateWorkflow, UpdateWorkflow, Take
    <3>3. ASSUME NEW t \in Task, NEW b \in BOOLEAN, WriteTask(r, t, b) PROVE FALSE
      BY <1>1, <2>2, <3>1, <3>3 DEF WriteTask, RequestType
    <3>4. ASSUME NEW t \in Task, CreateTask(r, t) \/ LookUpTask(r, t) \/ UpdateTask(r, t)
          PROVE  FALSE
      <4>1. \/ \E b \in BOOLEAN : WriteTask(r, t, b)
            \/ req' = [req EXCEPT ![r].step = "found", ![r].at = t]
        BY <3>4 DEF CreateTask, LookUpTask, UpdateTask, SaveTaskOf
      <4> QED BY <1>1, <2>2, <3>3, <4>1 DEF RequestType
    <3>5. ASSUME NEW t \in Task, DeleteTask(r, t) PROVE FALSE
      BY <1>1, <2>2, <3>1, <3>5 DEF DeleteTask, RequestType
    <3>6. ASSUME ListExisting(r) PROVE FALSE
      BY <1>1, <2>2, <3>6 DEF ListExisting, RequestType
    <3>7. ~ RequestErrs(r) /\ \A w \in Workflow : ~ DeleteWorkflow(r, w)
      BY <1>1, <3>1 DEF RequestErrs, DeleteWorkflow
    <3> QED BY <2>1, <3>2, <3>4, <3>5, <3>6, <3>7 DEF RequestStep
  <2>4. r \in Active /\ req[r].todo = {} /\ UNCHANGED <<wfRec, taskRec>>
        /\ (req[r].kind = "update" => req[r].step = "delete")
    BY <2>3 DEF Respond, Applied, Active, records
  <2>5. Written(r) /\ req[r].seen \subseteq Task
    BY <1>1, <2>2, <2>4 DEF AsAsked, RequestType
  <2> QED BY <2>4, <2>5 DEF Written, Own
<1>2. Init => AsAsked
  <2> SUFFICES ASSUME Init PROVE AsAsked
    OBVIOUS
  <2>1. \A r \in Request : r # 0
    BY SetsAssumption DEF Request
  <2>2. Active = {}
    BY DEF Init, Active, Handler
  <2>3. \A r \in Request : Untouched(r)
    BY <2>1 DEF Init, Untouched, Goroutine
  <2> QED BY <2>2, <2>3 DEF AsAsked
<1>3. ApiOK /\ AsAsked /\ [Next]_vars => ApiOK' /\ AsAsked'
  BY ApiOKStep, AsAskedStep
<1>4. ApiOK /\ AsAsked /\ [Next]_vars =>
        [\A r \in Request : req'[r].step = "ok" /\ req[r].step # "ok" /\ <<"request", r>> \notin disturbed =>
           AsSaid(r)]_vars
  BY <1>1
<1> QED BY <1>2, <1>3, <1>4, ApiOKInitially, PTL DEF Spec, RequestApplied
=============================================================================
