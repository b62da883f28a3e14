--------------------------- MODULE ExecutorProofs ---------------------------
(***************************************************************************)
(* Safety of the executor for every number of runs, workflows and tasks,   *)
(* every plan, capacity, set of faults and choice of policies: types, the  *)
(* stage barrier, fail-fast, the limiter's discipline, the inputs of the   *)
(* handlers and the meaning of success.  After the types a first inductive *)
(* invariant ties the position of each task goroutine to the stage its run *)
(* is at, and a second says what is settled.                               *)
(***************************************************************************)
EXTENDS Executor, InductionLemmas

(* A function of functions with one value replaced. *)
LEMMA Except2 ==
  ASSUME NEW A, NEW B, NEW V, NEW f \in [A -> [B -> V]],
         NEW a \in A, NEW b \in B, NEW v \in V
  PROVE  /\ [f EXCEPT ![a][b] = v] \in [A -> [B -> V]]
         /\ \A x \in A, y \in B :
              [f EXCEPT ![a][b] = v][x][y] = IF x = a /\ y = b THEN v ELSE f[x][y]
OBVIOUS

(* TaskSteps of one task goroutine leave the variables of its run alone.   *)
LEMMA UpdateType ==
  ASSUME TypeOK, NEW r \in Run, NEW t \in Task, NEW s \in TaskRecord,
         TryUpdateTask(r, t, s)
  PROVE  /\ task' \in [Run -> [Task -> TaskRecord]]
         /\ taskRec' \in [Workflow -> [Task -> TaskRecord]]
<1>1. /\ WorkflowOf[r] \in Workflow
      /\ task \in [Run -> [Task -> TaskRecord]]
      /\ taskRec \in [Workflow -> [Task -> TaskRecord]]
  BY ConfigAssumption DEF TypeOK
<1>2. task' = [task EXCEPT ![r][t] = s]
  BY DEF TryUpdateTask, UpdateTask, UpdateTaskErr
<1>3. \/ taskRec' = [taskRec EXCEPT ![WorkflowOf[r]][t] = s]
      \/ taskRec' = taskRec
  BY DEF TryUpdateTask, UpdateTask, UpdateTaskErr
<1>4. task' \in [Run -> [Task -> TaskRecord]]
  BY <1>1, <1>2, Except2
<1>5. taskRec' \in [Workflow -> [Task -> TaskRecord]]
  <2>1. [taskRec EXCEPT ![WorkflowOf[r]][t] = s] \in [Workflow -> [Task -> TaskRecord]]
    BY <1>1, Except2
  <2> QED
    BY <1>1, <1>3, <2>1
<1> QED
  BY <1>4, <1>5

(* The records executeTask writes are task records. *)
LEMMA RecordType ==
  ASSUME TypeOK, NEW r \in Run, NEW t \in Task
  PROVE  /\ task[r][t] \in TaskRecord
         /\ Injected(r, t) \in TaskRecord
         /\ \A st \in TaskStatus :
              /\ [task[r][t] EXCEPT !.status = st] \in TaskRecord
              /\ [Injected(r, t) EXCEPT !.status = st] \in TaskRecord
         /\ \A n \in Nat : [task[r][t] EXCEPT !.attempt = n] \in TaskRecord
<1>1. task[r][t] \in TaskRecord /\ Deps[t] \subseteq Task
  BY PlanAssumption DEF TypeOK
<1>2. Injected(r, t) \in TaskRecord
  BY <1>1 DEF Injected, TaskRecord
<1> QED
  BY <1>1, <1>2 DEF TaskRecord

LEMMA GoToType ==
  ASSUME TypeOK, NEW r \in Run, NEW t \in Task, NEW l \in TaskPC, GoTo(r, t, l)
  PROVE  tpc' \in [Run -> [Task -> TaskPC]]
BY DEF TypeOK, GoTo

LEMMA ReturnType ==
  ASSUME TypeOK, NEW r \in Run, NEW t \in Task,
         TaskReturnsNil(r, t) \/ TaskReturnsErr(r, t)
  PROVE  /\ tpc' \in [Run -> [Task -> TaskPC]]
         /\ erred' \in [Run -> SUBSET Task]
<1>1. "release" \in TaskPC
  BY DEF TaskPC, InSlot
<1>2. GoTo(r, t, "release")
  BY DEF TaskReturnsNil, TaskReturnsErr
<1>3. erred \in [Run -> SUBSET Task]
  BY DEF TypeOK
<1>4. erred' = erred \/ erred' = [erred EXCEPT ![r] = erred[r] \cup {t}]
  BY DEF TaskReturnsNil, TaskReturnsErr
<1>5. erred' \in [Run -> SUBSET Task]
  BY <1>3, <1>4
<1> QED
  BY <1>1, <1>2, <1>5, GoToType
(* What a task goroutine and a run may change, and the rest of TypeOK.     *)
GoTypeOK ==
  /\ task \in [Run -> [Task -> TaskRecord]]
  /\ taskRec \in [Workflow -> [Task -> TaskRecord]]
  /\ tpc \in [Run -> [Task -> TaskPC]]
  /\ attempt \in [Run -> [Task -> Nat]]
  /\ erred \in [Run -> SUBSET Task]
  /\ holders \subseteq Run \X Task

RunTypeOK ==
  /\ pc \in [Run -> PC]
  /\ stage \in [Run -> Nat]
  /\ saved \in [Run -> SUBSET Task]
  /\ result \in [Run -> {None, "ok", "error"}]
  /\ wfStatus \in [Run -> WorkflowStatus]
  /\ task \in [Run -> [Task -> TaskRecord]]
  /\ wfRec \in [Workflow -> WorkflowStatus \cup {Absent}]
  /\ taskRec \in [Workflow -> [Task -> TaskRecord]]
  /\ checkpoint \in [Workflow -> Checkpoint]

LEMMA GoFrameType ==
  ASSUME TypeOK, TaskFrame, GoTypeOK'
  PROVE  TypeOK'
BY DEF TypeOK, GoTypeOK, TaskFrame, runVars, ctxVars, envVars

LEMMA RunFrameType ==
  ASSUME TypeOK, RunFrame, RunTypeOK'
  PROVE  TypeOK'
BY DEF TypeOK, RunTypeOK, RunFrame, goVars, ctxVars, envVars

LEMMA TypeOKParts == TypeOK => GoTypeOK /\ RunTypeOK
BY DEF TypeOK, GoTypeOK, RunTypeOK

LEMMA TypeInit == Init => TypeOK
<1> SUFFICES ASSUME Init PROVE TypeOK
  OBVIOUS
<1>1. NewTask \in TaskRecord /\ NoTask \in TaskRecord
  BY DEF NewTask, NoTask, TaskRecord, TaskStatus
<1>2. NoCheckpoint \in Checkpoint
  BY DEF Checkpoint
<1> QED
  BY <1>1, <1>2 DEF Init, TypeOK, PC, TaskPC, WorkflowStatus

(* One step of a task goroutine. *)
LEMMA TypeTaskStep ==
  ASSUME TypeOK, NEW r \in Run, NEW t \in Task, TaskStep(r, t)
  PROVE  TypeOK'
<1> USE TypeOKParts
<1> USE DEF GoTypeOK
<1>a. {"COMPLETED", "FAILED", "RUNNING", "WAITING_FOR_APPROVAL"} \subseteq TaskStatus
  BY DEF TaskStatus
<1>b. {"prepare", "approval", "waiting", "gate", "running", "backoff", "release",
       "report", "finished"} \subseteq TaskPC
  BY DEF TaskPC, InSlot
<1>1. CASE Acquire(r, t)
  <2>1. tpc' \in [Run -> [Task -> TaskPC]]
    BY <1>1, <1>b, GoToType DEF Acquire
  <2> QED
    BY <1>1, <2>1, GoFrameType DEF Acquire
<1>2. CASE AcquireCancelled(r, t)
  <2>1. tpc' \in [Run -> [Task -> TaskPC]]
    BY <1>2, <1>b, GoToType DEF AcquireCancelled
  <2>2. erred' \in [Run -> SUBSET Task]
    BY <1>2 DEF AcquireCancelled
  <2> QED
    BY <1>2, <2>1, <2>2, GoFrameType DEF AcquireCancelled
<1>3. CASE RouteFails(r, t)
  <2>1. task' \in [Run -> [Task -> TaskRecord]]
    BY <1>3, RecordType, Except2 DEF RouteFails
  <2> QED
    BY <1>3, <2>1, ReturnType, GoFrameType DEF RouteFails
<1>4. CASE WorkerMissing(r, t)
  <2>1. [Injected(r, t) EXCEPT !.status = "FAILED"] \in TaskRecord
    BY RecordType, <1>a
  <2> QED
    BY <1>4, <2>1, UpdateType, ReturnType, GoFrameType DEF WorkerMissing
<1>5. CASE StartTask(r, t)
  <2>1. [Injected(r, t) EXCEPT !.status = "RUNNING"] \in TaskRecord
    BY RecordType, <1>a
  <2>2. TryUpdateTask(r, t, [Injected(r, t) EXCEPT !.status = "RUNNING"])
    BY <1>5 DEF StartTask, TryUpdateTask
  <2>3. tpc' \in [Run -> [Task -> TaskPC]] /\ erred' \in [Run -> SUBSET Task]
    BY <1>5, <1>b, GoToType, ReturnType DEF StartTask
  <2> QED
    BY <1>5, <2>1, <2>2, <2>3, UpdateType, GoFrameType DEF StartTask
<1>6. CASE StartRefused(r, t)
  <2>1. task' \in [Run -> [Task -> TaskRecord]]
    BY <1>6, RecordType, Except2 DEF StartRefused
  <2> QED
    BY <1>6, <2>1, ReturnType, GoFrameType DEF StartRefused
<1>7. CASE WaitForApproval(r, t)
  <2>1. [task[r][t] EXCEPT !.status = "WAITING_FOR_APPROVAL"] \in TaskRecord
    BY RecordType, <1>a
  <2>2. TryUpdateTask(r, t, [task[r][t] EXCEPT !.status = "WAITING_FOR_APPROVAL"])
    BY <1>7 DEF WaitForApproval, TryUpdateTask
  <2>3. tpc' \in [Run -> [Task -> TaskPC]] /\ erred' \in [Run -> SUBSET Task]
    BY <1>7, <1>b, GoToType, ReturnType DEF WaitForApproval
  <2> QED
    BY <1>7, <2>1, <2>2, <2>3, UpdateType, GoFrameType DEF WaitForApproval
<1>8. CASE SeeApproval(r, t)
  <2>1. [task[r][t] EXCEPT !.status = "RUNNING"] \in TaskRecord
    BY RecordType, <1>a
  <2>2. task' = [task EXCEPT ![r][t] = [task[r][t] EXCEPT !.status = "RUNNING"]]
    BY <1>8 DEF SeeApproval
  <2>3. task' \in [Run -> [Task -> TaskRecord]]
    BY <2>1, <2>2, Except2
  <2>4. tpc' \in [Run -> [Task -> TaskPC]]
    BY <1>8, <1>b, GoToType DEF SeeApproval
  <2> QED
    BY <1>8, <2>3, <2>4, GoFrameType DEF SeeApproval
<1>9. CASE ApprovalCancelled(r, t)
  BY <1>9, ReturnType, GoFrameType DEF ApprovalCancelled
<1>10. CASE InterceptorRefuses(r, t)
  BY <1>10, ReturnType, GoFrameType DEF InterceptorRefuses
<1>11. CASE BeginAttempt(r, t)
  <2>1. attempt' = [attempt EXCEPT ![r][t] = attempt[r][t] + 1]
    BY <1>11 DEF BeginAttempt
  <2>2. attempt[r][t] + 1 \in Nat
    OBVIOUS
  <2>3. attempt' \in [Run -> [Task -> Nat]]
    BY <2>1, <2>2, Except2
  <2>4. [task[r][t] EXCEPT !.attempt = attempt[r][t] + 1] \in TaskRecord
    BY <2>2, RecordType
  <2>5. tpc' \in [Run -> [Task -> TaskPC]]
    BY <1>11, <1>b, GoToType DEF BeginAttempt
  <2> QED
    BY <1>11, <2>3, <2>4, <2>5, UpdateType, GoFrameType DEF BeginAttempt
<1>12. CASE HandlerSucceeds(r, t)
  <2>1. [task[r][t] EXCEPT !.status = "COMPLETED"] \in TaskRecord
    BY RecordType, <1>a
  <2>2. TryUpdateTask(r, t, [task[r][t] EXCEPT !.status = "COMPLETED"])
    BY <1>12 DEF HandlerSucceeds, TryUpdateTask
  <2> QED
    BY <1>12, <2>1, <2>2, UpdateType, ReturnType, GoFrameType DEF HandlerSucceeds
<1>13. CASE HandlerErrs(r, t)
  <2>1. tpc' \in [Run -> [Task -> TaskPC]]
    BY <1>13, <1>b, GoToType DEF HandlerErrs
  <2> QED
    BY <1>13, <2>1, GoFrameType DEF HandlerErrs
<1>14. CASE FailTask(r, t)
  <2>1. [task[r][t] EXCEPT !.status = "FAILED"] \in TaskRecord
    BY RecordType, <1>a
  <2> QED
    BY <1>14, <2>1, UpdateType, ReturnType, GoFrameType DEF FailTask
<1>15. CASE Release(r, t)
  <2>1. tpc' \in [Run -> [Task -> TaskPC]]
    BY <1>15, <1>b, GoToType DEF Release
  <2> QED
    BY <1>15, <2>1, GoFrameType DEF Release
<1>16. CASE Report(r, t)
  <2>1. tpc' \in [Run -> [Task -> TaskPC]]
    BY <1>16, <1>b, GoToType DEF Report
  <2>2. cancelled' \subseteq Run
    BY <1>16 DEF Report, TypeOK
  <2> QED
    BY <1>16, <2>1, <2>2 DEF Report, TypeOK, runVars, envVars
<1> QED
  BY <1>1, <1>2, <1>3, <1>4, <1>5, <1>6, <1>7, <1>8, <1>9, <1>10, <1>11, <1>12,
     <1>13, <1>14, <1>15, <1>16 DEF TaskStep
(* One step of a run. *)
LEMMA TypeRunStep ==
  ASSUME TypeOK, NEW r \in Run, RunStep(r)
  PROVE  TypeOK'
<1> DEFINE w == WorkflowOf[r]
<1>a. w \in Workflow
  BY ConfigAssumption
<1>b. RunTypeOK
  BY TypeOKParts
<1> USE DEF RunTypeOK
<1>c. PC = {"idle", "getTasks", "getCheckpoint", "register", "saveWorkflow", "saveTasks",
            "plan", "stage", "join", "return", "done"}
  BY DEF PC
<1>d. ASSUME NEW l \in PC, RunGoTo(r, l)
      PROVE  pc' \in [Run -> PC]
  BY <1>b, <1>d DEF RunGoTo
<1>e. ASSUME NEW res \in {"ok", "error"}, RunReturns(r, res)
      PROVE  pc' \in [Run -> PC] /\ result' \in [Run -> {None, "ok", "error"}]
  <2>1. pc' \in [Run -> PC]
    BY <1>e, <1>d, <1>c DEF RunReturns
  <2> QED
    BY <1>b, <1>e, <2>1 DEF RunReturns
<1>f. WorkflowStatus = {"PENDING", "RUNNING", "COMPLETED", "FAILED"}
  BY DEF WorkflowStatus
<1>1. CASE ResumeGetWorkflow(r)
  <2>1. pc' \in [Run -> PC]
    BY <1>1, <1>c, <1>d DEF ResumeGetWorkflow
  <2>2. result' \in [Run -> {None, "ok", "error"}]
    BY <1>1, <1>b DEF ResumeGetWorkflow
  <2>3. wfStatus' \in [Run -> WorkflowStatus]
    BY <1>1, <1>a, <1>b DEF ResumeGetWorkflow
  <2> QED
    BY <1>1, <1>b, <2>1, <2>2, <2>3, RunFrameType DEF ResumeGetWorkflow, storeVars
<1>2. CASE ResumeGetTasks(r)
  <2>1. pc' \in [Run -> PC]
    BY <1>2, <1>c, <1>d DEF ResumeGetTasks
  <2>2. result' \in [Run -> {None, "ok", "error"}]
    BY <1>2, <1>b DEF ResumeGetTasks
  <2>3. task' \in [Run -> [Task -> TaskRecord]]
    BY <1>2, <1>a, <1>b DEF ResumeGetTasks
  <2> QED
    BY <1>2, <1>b, <2>1, <2>2, <2>3, RunFrameType DEF ResumeGetTasks, storeVars
<1>3. CASE ResumeRestore(r)
  <2> DEFINE cp == checkpoint[w]
  <2>1. pc' \in [Run -> PC]
    BY <1>3, <1>c, <1>d DEF ResumeRestore
  <2>2. CASE UNCHANGED <<task, wfStatus>>
    BY <1>3, <1>b, <2>1, <2>2, RunFrameType DEF ResumeRestore, storeVars
  <2>3. CASE ~ UNCHANGED <<task, wfStatus>>
    <3>1. cp.status # Absent /\ cp \in Checkpoint
      BY <1>3, <1>a, <1>b, <2>3 DEF ResumeRestore
    <3>2. cp \in [status : WorkflowStatus, tasks : [Task -> TaskRecord]]
      BY <3>1 DEF Checkpoint, NoCheckpoint
    <3>3. \A t \in Task : Restored(task[r][t], cp.tasks[t]) \in TaskRecord
      <4>1. SUFFICES ASSUME NEW t \in Task
                     PROVE  Restored(task[r][t], cp.tasks[t]) \in TaskRecord
        OBVIOUS
      <4>2. task[r][t] \in TaskRecord /\ cp.tasks[t] \in TaskRecord
        BY <1>b, <3>2
      <4> HIDE DEF cp
      <4> QED
        BY <4>2 DEF Restored, TaskRecord, TaskStatus
    <3>4. task' = [task EXCEPT ![r] = [t \in Task |->
               IF t \in Known(r) /\ cp.tasks[t].status # Absent
               THEN Restored(task[r][t], cp.tasks[t]) ELSE task[r][t]]]
      BY <1>3, <2>3 DEF ResumeRestore
    <3>5. task' \in [Run -> [Task -> TaskRecord]]
      BY <1>b, <3>3, <3>4
    <3>6. wfStatus' \in [Run -> WorkflowStatus]
      BY <1>3, <1>b, <2>3, <3>2 DEF ResumeRestore
    <3> QED
      BY <1>3, <1>b, <2>1, <3>5, <3>6, RunFrameType DEF ResumeRestore, storeVars
  <2> QED
    BY <2>2, <2>3
<1>4. CASE Register(r)
  <2>1. pc' \in [Run -> PC]
    BY <1>4, <1>c, <1>d DEF Register
  <2>2. cancelFunc' \in [Workflow -> Run \cup {None}]
    BY <1>4, <1>a DEF Register, TypeOK
  <2> QED
    BY <1>4, <2>1, <2>2 DEF Register, TypeOK, goVars, envVars, storeVars
<1>5. CASE SaveWorkflow(r)
  <2>1. pc' \in [Run -> PC] /\ result' \in [Run -> {None, "ok", "error"}]
    BY <1>5, <1>b, <1>c, <1>d, <1>e DEF SaveWorkflow
  <2>2. wfRec' \in [Workflow -> WorkflowStatus \cup {Absent}]
    BY <1>5, <1>a, <1>b DEF SaveWorkflow
  <2> QED
    BY <1>5, <1>b, <2>1, <2>2, RunFrameType DEF SaveWorkflow
<1>6. CASE \E t \in Task : SaveTask(r, t)
  <2>1. PICK t \in Task : SaveTask(r, t)
    BY <1>6
  <2>2. pc' \in [Run -> PC] /\ result' \in [Run -> {None, "ok", "error"}]
    BY <2>1, <1>b, <1>e DEF SaveTask
  <2>3. saved' \in [Run -> SUBSET Task]
    BY <2>1, <1>b, SMTT(30) DEF SaveTask
  <2>4. [taskRec EXCEPT ![w][t] = task[r][t]] \in [Workflow -> [Task -> TaskRecord]]
    BY <1>a, <1>b, Except2
  <2>5. taskRec' \in [Workflow -> [Task -> TaskRecord]]
    BY <2>1, <2>4, <1>b DEF SaveTask
  <2> QED
    BY <2>1, <1>b, <2>2, <2>3, <2>5, RunFrameType DEF SaveTask
<1>7. CASE StartWorkflow(r)
  <2>1. pc' \in [Run -> PC] /\ result' \in [Run -> {None, "ok", "error"}]
    BY <1>7, <1>b, <1>c, <1>d, <1>e DEF StartWorkflow
  <2>2. wfStatus' \in [Run -> WorkflowStatus]
    BY <1>7, <1>b, <1>f DEF StartWorkflow
  <2>3. wfRec' \in [Workflow -> WorkflowStatus \cup {Absent}]
    BY <1>7, <1>a, <1>b, <1>f DEF StartWorkflow
  <2> QED
    BY <1>7, <1>b, <2>1, <2>2, <2>3, RunFrameType DEF StartWorkflow
<1>8. CASE BuildPlan(r)
  <2>1. pc' \in [Run -> PC] /\ result' \in [Run -> {None, "ok", "error"}]
    BY <1>8, <1>b, <1>c, <1>d, <1>e DEF BuildPlan
  <2> QED
    BY <1>8, <1>b, <2>1, RunFrameType DEF BuildPlan, storeVars
<1>9. CASE StageCancelled(r)
  <2>1. pc' \in [Run -> PC] /\ result' \in [Run -> {None, "ok", "error"}]
    BY <1>9, <1>e DEF StageCancelled
  <2> QED
    BY <1>9, <1>b, <2>1, RunFrameType DEF StageCancelled, storeVars
<1>10. CASE StartStage(r)
  <2>1. pc' \in [Run -> PC]
    BY <1>10, <1>c, <1>d DEF StartStage
  <2>2. tpc' \in [Run -> [Task -> TaskPC]]
    BY <1>10 DEF StartStage, TypeOK, TaskPC
  <2> QED
    BY <1>10, <2>1, <2>2 DEF StartStage, TypeOK, ctxVars, envVars, storeVars
<1>n. ASSUME NextStage(r)
      PROVE  pc' \in [Run -> PC] /\ stage' \in [Run -> Nat]
  <2>1. pc' \in [Run -> PC]
    BY <1>n, <1>c, <1>d DEF NextStage
  <2>2. stage \in [Run -> Nat] /\ stage' = [stage EXCEPT ![r] = stage[r] + 1]
    BY <1>b, <1>n DEF NextStage
  <2>3. stage' \in [Run -> Nat]
    BY <2>2
  <2> QED
    BY <2>1, <2>3
<1>11. CASE StageSucceeds(r)
  <2>1. [status |-> wfStatus[r], tasks |-> task[r]] \in Checkpoint
    BY <1>b DEF Checkpoint
  <2>2. checkpoint' \in [Workflow -> Checkpoint]
    BY <1>11, <1>a, <1>b, <2>1 DEF StageSucceeds
  <2> QED
    BY <1>11, <1>b, <1>n, <2>2, RunFrameType DEF StageSucceeds
<1>12. CASE StageErrTolerated(r)
  BY <1>12, <1>b, <1>n, RunFrameType DEF StageErrTolerated, storeVars
<1>13. CASE StageFails(r)
  <2>1. pc' \in [Run -> PC] /\ result' \in [Run -> {None, "ok", "error"}]
    BY <1>13, <1>e DEF StageFails
  <2>2. wfStatus' \in [Run -> WorkflowStatus]
    BY <1>13, <1>b, <1>f DEF StageFails
  <2>3. wfRec' \in [Workflow -> WorkflowStatus \cup {Absent}]
    BY <1>13, <1>a, <1>b, <1>f DEF StageFails
  <2> QED
    BY <1>13, <1>b, <2>1, <2>2, <2>3, RunFrameType DEF StageFails
<1>14. CASE CompleteWorkflow(r)
  <2>1. pc' \in [Run -> PC] /\ result' \in [Run -> {None, "ok", "error"}]
    BY <1>14, <1>e DEF CompleteWorkflow
  <2>2. wfStatus' \in [Run -> WorkflowStatus]
    BY <1>14, <1>b, <1>f DEF CompleteWorkflow
  <2>3. wfRec' \in [Workflow -> WorkflowStatus \cup {Absent}]
    BY <1>14, <1>a, <1>b, <1>f DEF CompleteWorkflow
  <2> QED
    BY <1>14, <1>b, <2>1, <2>2, <2>3, RunFrameType DEF CompleteWorkflow
<1>15. CASE Return(r)
  <2>1. pc' \in [Run -> PC]
    BY <1>15, <1>c, <1>d DEF Return
  <2>2. cancelFunc' \in [Workflow -> Run \cup {None}] /\ cancelled' \subseteq Run
    BY <1>15, <1>a DEF Return, TypeOK
  <2> QED
    BY <1>15, <2>1, <2>2 DEF Return, TypeOK, goVars, envVars, storeVars
<1> QED
  BY <1>1, <1>2, <1>3, <1>4, <1>5, <1>6, <1>7, <1>8, <1>9, <1>10, <1>11, <1>12,
     <1>13, <1>14, <1>15 DEF RunStep

(* One step of the environment. *)
LEMMA TypeEnvStep ==
  ASSUME TypeOK, EnvStep
  PROVE  TypeOK'
<1> USE DEF runVars, goVars, ctxVars, storeVars, envVars
<1>1. ASSUME NEW r \in Run, Abort(r)
      PROVE  TypeOK'
  BY <1>1 DEF Abort, TypeOK
<1>2. ASSUME NEW r \in Run, NEW t \in Task, Expire(r, t)
      PROVE  TypeOK'
  <2>1. expired' \in [Run -> SUBSET Task]
    BY <1>2 DEF Expire, TypeOK
  <2> QED
    BY <1>2, <2>1 DEF Expire, TypeOK
<1>3. ASSUME NEW w \in Workflow, FindStuck(w)
      PROVE  TypeOK'
  BY <1>3 DEF FindStuck, TypeOK
<1>4. ASSUME NEW w \in Workflow, CancelWorkflow(w)
      PROVE  TypeOK'
  <2>1. cancelled' \subseteq Run
    BY <1>4 DEF CancelWorkflow, TypeOK
  <2> QED
    BY <1>4, <2>1 DEF CancelWorkflow, TypeOK
<1>5. ASSUME NEW a \in Approver, NEW w \in Workflow, NEW t \in Task, ReadForApproval(a, w, t)
      PROVE  TypeOK'
  <2>1. taskRec[w][t] \in TaskState
    <3>1. taskRec[w][t] \in TaskRecord
      BY DEF TypeOK
    <3> QED
      BY <1>5, <3>1 DEF ReadForApproval, TaskRecord, TaskState, TaskStatus
  <2>2. tickets' \subseteq Ticket
    BY <1>5, <2>1 DEF ReadForApproval, TypeOK, Ticket
  <2> QED
    BY <1>5, <2>2 DEF ReadForApproval, TypeOK
<1>6. ASSUME NEW k \in tickets, WriteApproval(k)
      PROVE  TypeOK'
  <2>1. k.wf \in Workflow /\ k.id \in Task /\ k.rec \in TaskState
    BY DEF TypeOK, Ticket
  <2>2. [k.rec EXCEPT !.status = "RUNNING"] \in TaskRecord
    BY <2>1 DEF TaskState, TaskRecord, TaskStatus
  <2>3. taskRec \in [Workflow -> [Task -> TaskRecord]] /\ tickets \subseteq Ticket
    BY DEF TypeOK
  <2>4. [taskRec EXCEPT ![k.wf][k.id] = [k.rec EXCEPT !.status = "RUNNING"]]
          \in [Workflow -> [Task -> TaskRecord]]
    BY <2>1, <2>2, <2>3, Except2
  <2>5. taskRec' \in [Workflow -> [Task -> TaskRecord]] /\ tickets' \subseteq Ticket
    BY <1>6, <2>3, <2>4 DEF WriteApproval
  <2> QED
    BY <1>6, <2>5 DEF WriteApproval, TypeOK
<1> QED
  BY <1>1, <1>2, <1>3, <1>4, <1>5, <1>6 DEF EnvStep

LEMMA TypeNext == TypeOK /\ [Next]_vars => TypeOK'
<1> SUFFICES ASSUME TypeOK, [Next]_vars PROVE TypeOK'
  OBVIOUS
<1>1. CASE UNCHANGED vars
  BY <1>1 DEF vars, runVars, goVars, ctxVars, storeVars, envVars, TypeOK
<1> QED
  BY <1>1, TypeTaskStep, TypeRunStep, TypeEnvStep DEF Next

(* Every variable keeps its type, in particular no store operation ever    *)
(* writes a record that is not one. *)
THEOREM TypeCorrect == Spec => []TypeOK
BY TypeInit, TypeNext, PTL DEF Spec
----------------------------------------------------------------------------
Active(r, t) == tpc[r][t] \notin {None, "finished"}

(* A run has goroutines only once it walks its plan. *)
NoneBeforePlan ==
  \A r \in Run, t \in Task :
    pc[r] \notin {"stage", "join", "return", "done"} => tpc[r][t] = None

(* The goroutines that have not finished are those wg.Wait waits for. *)
ActiveInStage ==
  \A r \in Run, t \in Task : Active(r, t) => pc[r] = "join" /\ t \in StageTasks(r)

(* The goroutines there have been are of stages up to the current one. *)
StartedInOrder ==
  \A r \in Run, t \in Task : tpc[r][t] # None => t \in Known(r) /\ Level[t] <= stage[r]

(* An error belongs to a goroutine, and keeps the run at its stage. *)
ErrorsStop ==
  \A r \in Run : \A t \in erred[r] :
    /\ tpc[r][t] # None
    /\ ~ Continues(r) => Level[t] = stage[r] /\ pc[r] \in {"join", "return", "done"}

BarrierInv ==
  /\ TypeOK
  /\ NoneBeforePlan
  /\ ActiveInStage
  /\ StartedInOrder
  /\ ErrorsStop
----------------------------------------------------------------------------
(* How one step moves a task goroutine: it takes its slot on the way into  *)
(* executeTask's body and gives it back on every way out of it.            *)
Moves(r, t, l) ==
  \/ /\ tpc[r][t] = "acquire" /\ l = "prepare"
     /\ Cardinality(holders) < Limit
     /\ holders' = holders \cup {<<r, t>>}
     /\ erred' = erred
  \/ /\ tpc[r][t] = "acquire" /\ l = "report"
     /\ holders' = holders
     /\ erred' = [erred EXCEPT ![r] = erred[r] \cup {t}]
  \/ /\ tpc[r][t] \in InSlot \ {"release"} /\ l \in InSlot
     /\ holders' = holders
     /\ \/ erred' = erred
        \/ erred' = [erred EXCEPT ![r] = erred[r] \cup {t}]
  \/ /\ tpc[r][t] = "release" /\ l = "report"
     /\ holders' = holders \ {<<r, t>>}
     /\ erred' = erred
  \/ /\ tpc[r][t] = "report" /\ l = "finished"
     /\ holders' = holders
     /\ erred' = erred

LEMMA TaskMove ==
  ASSUME TypeOK, NEW r \in Run, NEW t \in Task, TaskStep(r, t)
  PROVE  \E l \in TaskPC : tpc' = [tpc EXCEPT ![r][t] = l] /\ Moves(r, t, l)
<1>a. ASSUME TaskReturnsNil(r, t) \/ TaskReturnsErr(r, t)
      PROVE  /\ tpc' = [tpc EXCEPT ![r][t] = "release"]
             /\ \/ erred' = erred
                \/ erred' = [erred EXCEPT ![r] = erred[r] \cup {t}]
  BY <1>a DEF TaskReturnsNil, TaskReturnsErr, GoTo
<1> USE DEF TaskPC, InSlot, Moves
<1>1. CASE Acquire(r, t)
  BY <1>1 DEF Acquire, GoTo
<1>2. CASE AcquireCancelled(r, t)
  BY <1>2 DEF AcquireCancelled, GoTo
<1>3. CASE RouteFails(r, t)
  BY <1>3, <1>a DEF RouteFails
<1>4. CASE WorkerMissing(r, t)
  BY <1>4, <1>a DEF WorkerMissing
<1>5. CASE StartTask(r, t)
  BY <1>5, <1>a DEF StartTask, Runnable, GoTo
<1>6. CASE StartRefused(r, t)
  BY <1>6, <1>a DEF StartRefused, Runnable
<1>7. CASE WaitForApproval(r, t)
  BY <1>7, <1>a DEF WaitForApproval, GoTo
<1>8. CASE SeeApproval(r, t)
  BY <1>8 DEF SeeApproval, GoTo
<1>9. CASE ApprovalCancelled(r, t)
  BY <1>9, <1>a DEF ApprovalCancelled
<1>10. CASE InterceptorRefuses(r, t)
  BY <1>10, <1>a DEF InterceptorRefuses
<1>11. CASE BeginAttempt(r, t)
  BY <1>11 DEF BeginAttempt, GoTo
<1>12. CASE HandlerSucceeds(r, t)
  BY <1>12, <1>a DEF HandlerSucceeds
<1>13. CASE HandlerErrs(r, t)
  BY <1>13 DEF HandlerErrs, GoTo
<1>14. CASE FailTask(r, t)
  BY <1>14, <1>a DEF FailTask
<1>15. CASE Release(r, t)
  BY <1>15 DEF Release, GoTo
<1>16. CASE Report(r, t)
  BY <1>16 DEF Report, GoTo
<1> QED
  BY <1>1, <1>2, <1>3, <1>4, <1>5, <1>6, <1>7, <1>8, <1>9, <1>10, <1>11, <1>12,
     <1>13, <1>14, <1>15, <1>16 DEF TaskStep
(* A task goroutine never makes its task unknown. *)
LEMMA TaskKnown ==
  ASSUME TypeOK, NEW r \in Run, NEW t \in Task, t \in Known(r), TaskStep(r, t)
  PROVE  /\ \A q \in Run : Known(q)' = Known(q)
         /\ UNCHANGED <<pc, stage>>
<1>0. UNCHANGED <<pc, stage>>
  BY DEF TaskStep, TaskFrame, runVars, Acquire, AcquireCancelled, RouteFails, WorkerMissing,
         StartTask, StartRefused, WaitForApproval, SeeApproval, ApprovalCancelled,
         InterceptorRefuses, BeginAttempt, HandlerSucceeds, HandlerErrs, FailTask, Release,
         Report
<1>1. /\ task \in [Run -> [Task -> TaskRecord]]
      /\ task[r][t] \in TaskRecord
      /\ task[r][t].status # Absent
      /\ Injected(r, t) \in TaskRecord
      /\ Injected(r, t).status # Absent
  BY RecordType DEF TypeOK, Known, Injected, TaskRecord
<1>2. ASSUME NEW s \in TaskRecord, s.status # Absent,
             task' = [task EXCEPT ![r][t] = s]
      PROVE  \A q \in Run : Known(q)' = Known(q)
  BY <1>1, <1>2 DEF Known
<1>3. ASSUME task' = task
      PROVE  \A q \in Run : Known(q)' = Known(q)
  BY <1>3 DEF Known
<1>4. ASSUME NEW s \in TaskRecord, s.status # Absent, TryUpdateTask(r, t, s)
      PROVE  \A q \in Run : Known(q)' = Known(q)
  BY <1>2, <1>4 DEF TryUpdateTask, UpdateTask, UpdateTaskErr
<1>5. \A st \in {"COMPLETED", "FAILED", "RUNNING", "WAITING_FOR_APPROVAL"} :
        /\ [task[r][t] EXCEPT !.status = st] \in TaskRecord
        /\ [task[r][t] EXCEPT !.status = st].status # Absent
        /\ [Injected(r, t) EXCEPT !.status = st] \in TaskRecord
        /\ [Injected(r, t) EXCEPT !.status = st].status # Absent
  <2>1. SUFFICES ASSUME NEW st \in {"COMPLETED", "FAILED", "RUNNING", "WAITING_FOR_APPROVAL"}
                 PROVE  /\ [task[r][t] EXCEPT !.status = st] \in TaskRecord
                        /\ [task[r][t] EXCEPT !.status = st].status # Absent
                        /\ [Injected(r, t) EXCEPT !.status = st] \in TaskRecord
                        /\ [Injected(r, t) EXCEPT !.status = st].status # Absent
    OBVIOUS
  <2>2. st \in TaskStatus
    BY DEF TaskStatus
  <2>3. /\ [task[r][t] EXCEPT !.status = st].status # Absent
        /\ [Injected(r, t) EXCEPT !.status = st].status # Absent
    BY <1>1 DEF TaskRecord, Absent
  <2> QED
    BY <2>2, <2>3, RecordType
<1>6. CASE \/ Acquire(r, t) \/ AcquireCancelled(r, t) \/ ApprovalCancelled(r, t)
           \/ InterceptorRefuses(r, t) \/ HandlerErrs(r, t) \/ Release(r, t) \/ Report(r, t)
  BY <1>0, <1>3, <1>6 DEF Acquire, AcquireCancelled, ApprovalCancelled, InterceptorRefuses,
                          HandlerErrs, Release, Report
<1>7. CASE RouteFails(r, t) \/ StartRefused(r, t)
  BY <1>0, <1>1, <1>2, <1>7 DEF RouteFails, StartRefused
<1>8. CASE WorkerMissing(r, t)
  BY <1>0, <1>4, <1>5, <1>8 DEF WorkerMissing
<1>9. CASE StartTask(r, t)
  <2>1. TryUpdateTask(r, t, [Injected(r, t) EXCEPT !.status = "RUNNING"])
    BY <1>9 DEF StartTask, TryUpdateTask
  <2> QED
    BY <1>0, <1>4, <1>5, <2>1
<1>10. CASE WaitForApproval(r, t)
  <2>1. TryUpdateTask(r, t, [task[r][t] EXCEPT !.status = "WAITING_FOR_APPROVAL"])
    BY <1>10 DEF WaitForApproval, TryUpdateTask
  <2> QED
    BY <1>0, <1>4, <1>5, <2>1
<1>11. CASE SeeApproval(r, t)
  <2>1. task' = [task EXCEPT ![r][t] = [task[r][t] EXCEPT !.status = "RUNNING"]]
    BY <1>11 DEF SeeApproval
  <2> QED
    BY <1>0, <1>2, <1>5, <2>1
<1>12. CASE BeginAttempt(r, t)
  <2>1. attempt[r][t] + 1 \in Nat
    BY DEF TypeOK
  <2>2. /\ [task[r][t] EXCEPT !.attempt = attempt[r][t] + 1] \in TaskRecord
        /\ [task[r][t] EXCEPT !.attempt = attempt[r][t] + 1].status # Absent
    BY <1>1, <2>1 DEF TaskRecord
  <2> QED
    BY <1>0, <1>4, <1>12, <2>2 DEF BeginAttempt
<1>13. CASE HandlerSucceeds(r, t)
  <2>1. TryUpdateTask(r, t, [task[r][t] EXCEPT !.status = "COMPLETED"])
    BY <1>13 DEF HandlerSucceeds, TryUpdateTask
  <2> QED
    BY <1>0, <1>4, <1>5, <2>1
<1>14. CASE FailTask(r, t)
  BY <1>0, <1>4, <1>5, <1>14 DEF FailTask
<1> QED
  BY <1>6, <1>7, <1>8, <1>9, <1>10, <1>11, <1>12, <1>13, <1>14 DEF TaskStep

LEMMA BarrierInit == Init => BarrierInv
BY TypeInit DEF Init, BarrierInv, NoneBeforePlan, ActiveInStage, StartedInOrder, ErrorsStop,
                Active

LEMMA BarrierTaskStep ==
  ASSUME BarrierInv, NEW r \in Run, NEW t \in Task, TaskStep(r, t)
  PROVE  BarrierInv'
<1>1. TypeOK'
  BY TypeTaskStep DEF BarrierInv
<1>2. PICK l \in TaskPC : tpc' = [tpc EXCEPT ![r][t] = l] /\ Moves(r, t, l)
  BY TaskMove DEF BarrierInv
<1>3. tpc[r][t] \notin {None, "finished"} /\ l # None
  BY <1>2 DEF Moves, InSlot, None
<1>4. pc[r] = "join" /\ t \in StageTasks(r) /\ t \in Known(r) /\ Level[t] = stage[r]
  BY <1>3 DEF BarrierInv, ActiveInStage, Active, StageTasks
<1>5. /\ \A q \in Run : Known(q)' = Known(q)
      /\ UNCHANGED <<pc, stage>>
  BY <1>4, TaskKnown DEF BarrierInv
<1>6. \A q \in Run : StageTasks(q)' = StageTasks(q) /\ Continues(q)' = Continues(q)
  BY <1>5 DEF StageTasks, Continues
<1>7. \A q \in Run, u \in Task : tpc'[q][u] = IF q = r /\ u = t THEN l ELSE tpc[q][u]
  BY <1>2, Except2 DEF BarrierInv, TypeOK
<1>8. NoneBeforePlan' /\ ActiveInStage' /\ StartedInOrder'
  <2>1. NoneBeforePlan'
    BY <1>4, <1>5, <1>7 DEF BarrierInv, NoneBeforePlan
  <2>2. ActiveInStage'
    BY <1>4, <1>5, <1>6, <1>7 DEF BarrierInv, ActiveInStage, Active
  <2>3. StartedInOrder'
    <3>1. Level[t] <= stage[r]
      BY <1>3 DEF BarrierInv, StartedInOrder
    <3> QED
      BY <1>4, <1>5, <1>7, <3>1 DEF BarrierInv, StartedInOrder
  <2> QED
    BY <2>1, <2>2, <2>3
<1>9. ErrorsStop'
  <2>1. \/ erred' = erred
        \/ erred' = [erred EXCEPT ![r] = erred[r] \cup {t}]
    BY <1>2 DEF Moves
  <2>2. \A q \in Run : \A u \in erred'[q] : u \in erred[q] \/ (q = r /\ u = t)
    BY <2>1 DEF BarrierInv, TypeOK
  <2>3. erred \in [Run -> SUBSET Task]
    BY DEF BarrierInv, TypeOK
  <2> QED
    BY <1>3, <1>4, <1>5, <1>6, <1>7, <2>2, <2>3 DEF BarrierInv, ErrorsStop
<1> QED
  BY <1>1, <1>8, <1>9 DEF BarrierInv
(* Only StartStage starts goroutines, and it finds none active. *)
LEMMA BarrierRunStep ==
  ASSUME BarrierInv, NEW r \in Run, RunStep(r)
  PROVE  BarrierInv'
<1>1. TypeOK /\ TypeOK'
  BY TypeRunStep DEF BarrierInv
<1>2. /\ pc \in [Run -> PC] /\ stage \in [Run -> Nat]
      /\ task \in [Run -> [Task -> TaskRecord]]
      /\ tpc \in [Run -> [Task -> TaskPC]]
      /\ erred \in [Run -> SUBSET Task]
      /\ Level \in [Task -> Nat]
  BY <1>1, PlanAssumption DEF TypeOK
<1>3. \A q \in Run : Continues(q)' = Continues(q)
  BY DEF Continues
(* The steps before the plan: nothing has been started yet. *)
<1>4. ASSUME pc[r] \notin {"stage", "join", "return", "done"},
             NEW l, RunGoTo(r, l), UNCHANGED <<tpc, erred, stage>>,
             \A q \in Run \ {r} : task'[q] = task[q]
      PROVE  BarrierInv'
  <2>1. \A t \in Task : tpc[r][t] = None /\ tpc'[r][t] = None
    BY <1>4 DEF BarrierInv, NoneBeforePlan
  <2>2. \A t \in Task : t \notin erred[r] /\ t \notin erred'[r]
    BY <1>4, <2>1, <1>2 DEF BarrierInv, ErrorsStop
  <2>3. \A q \in Run \ {r} : pc'[q] = pc[q] /\ Known(q)' = Known(q)
                           /\ StageTasks(q)' = StageTasks(q)
    BY <1>2, <1>4 DEF RunGoTo, Known, StageTasks
  <2>4. NoneBeforePlan' /\ ActiveInStage' /\ StartedInOrder'
    BY <1>4, <2>1, <2>3
       DEF BarrierInv, NoneBeforePlan, ActiveInStage, StartedInOrder, Active
  <2>5. ErrorsStop'
    BY <1>2, <1>3, <1>4, <2>2, <2>3 DEF BarrierInv, ErrorsStop
  <2> QED
    BY <1>1, <2>4, <2>5 DEF BarrierInv
(* The steps that leave a stage, with no goroutine active. *)
<1>5. ASSUME NEW l \in {"stage", "return", "done"}, RunGoTo(r, l),
             \A t \in Task : ~ Active(r, t),
             UNCHANGED <<tpc, erred, task>>,
             \/ stage' = stage
             \/ /\ stage' = [stage EXCEPT ![r] = stage[r] + 1]
                /\ Continues(r) \/ erred[r] = {},
             l = "stage" => Continues(r) \/ erred[r] = {}
      PROVE  BarrierInv'
  <2>1. \A q \in Run : Known(q)' = Known(q)
    BY <1>5 DEF Known
  <2>2. \A q \in Run \ {r} : pc'[q] = pc[q] /\ stage'[q] = stage[q]
                           /\ StageTasks(q)' = StageTasks(q)
    BY <1>2, <1>5, <2>1 DEF RunGoTo, StageTasks
  <2>3. pc'[r] = l /\ stage'[r] \in Nat /\ stage[r] <= stage'[r]
    BY <1>2, <1>5 DEF RunGoTo
  <2>4. NoneBeforePlan' /\ ActiveInStage'
    BY <1>5, <2>2, <2>3 DEF BarrierInv, NoneBeforePlan, ActiveInStage, Active
  <2>5. StartedInOrder'
    BY <1>2, <1>5, <2>1, <2>2, <2>3 DEF BarrierInv, StartedInOrder
  <2>6. ErrorsStop'
    BY <1>2, <1>3, <1>5, <2>2, <2>3 DEF BarrierInv, ErrorsStop
  <2> QED
    BY <1>1, <2>4, <2>5, <2>6 DEF BarrierInv
<1>g. goVars' = goVars <=> UNCHANGED <<tpc, attempt, erred, holders>>
  BY DEF goVars
<1>6. CASE \/ ResumeGetWorkflow(r) \/ ResumeGetTasks(r) \/ ResumeRestore(r) \/ Register(r)
           \/ SaveWorkflow(r) \/ StartWorkflow(r) \/ BuildPlan(r)
  <2>1. pc[r] \notin {"stage", "join", "return", "done"}
    BY <1>6 DEF ResumeGetWorkflow, ResumeGetTasks, ResumeRestore, Register, SaveWorkflow,
                StartWorkflow, BuildPlan
  <2>2. \E l : RunGoTo(r, l)
    BY <1>6 DEF ResumeGetWorkflow, ResumeGetTasks, ResumeRestore, Register, SaveWorkflow,
                StartWorkflow, BuildPlan, RunReturns
  <2>3. UNCHANGED <<tpc, erred, stage>>
    BY <1>6, <1>g DEF ResumeGetWorkflow, ResumeGetTasks, ResumeRestore, Register, SaveWorkflow,
                      StartWorkflow, BuildPlan, RunFrame
  <2>4. \A q \in Run \ {r} : task'[q] = task[q]
    BY <1>2, <1>6 DEF ResumeGetWorkflow, ResumeGetTasks, ResumeRestore, Register, SaveWorkflow,
                      StartWorkflow, BuildPlan
  <2> QED
    BY <1>4, <2>1, <2>2, <2>3, <2>4
<1>7. CASE \E t \in Task : SaveTask(r, t)
  <2>1. PICK t \in Task : SaveTask(r, t)
    BY <1>7
  <2>2. pc[r] = "saveTasks" /\ UNCHANGED <<tpc, erred, stage, task>>
    BY <2>1, <1>g DEF SaveTask, RunFrame
  <2>3. CASE pc' = pc
    <3>1. \A q \in Run : Known(q)' = Known(q) /\ StageTasks(q)' = StageTasks(q)
      BY <2>2 DEF Known, StageTasks
    <3> QED
      BY <1>1, <1>3, <2>2, <2>3, <3>1
         DEF BarrierInv, NoneBeforePlan, ActiveInStage, StartedInOrder, ErrorsStop, Active
  <2>4. CASE pc' # pc
    <3>1. RunGoTo(r, "return")
      BY <2>1, <2>4 DEF SaveTask, RunReturns
    <3> QED
      BY <1>4, <2>2, <3>1
  <2> QED
    BY <2>3, <2>4
<1>8. CASE StartStage(r)
  <2>1. /\ pc[r] = "stage"
        /\ RunGoTo(r, "join")
        /\ UNCHANGED <<erred, stage, task>>
        /\ tpc' = [tpc EXCEPT ![r] = [t \in Task |->
              IF t \in StageTasks(r) /\ task[r][t].status # "COMPLETED"
              THEN "acquire" ELSE tpc[r][t]]]
    BY <1>8 DEF StartStage
  <2>2. \A q \in Run : Known(q)' = Known(q) /\ StageTasks(q)' = StageTasks(q)
    BY <2>1 DEF Known, StageTasks
  <2>3. /\ pc'[r] = "join"
        /\ \A q \in Run \ {r} : pc'[q] = pc[q] /\ tpc'[q] = tpc[q]
        /\ \A t \in Task : \/ tpc'[r][t] = tpc[r][t]
                           \/ tpc'[r][t] = "acquire" /\ t \in StageTasks(r)
    BY <1>2, <2>1 DEF RunGoTo
  <2>4. \A t \in Task : ~ Active(r, t)
    BY <2>1 DEF BarrierInv, ActiveInStage
  <2>5. NoneBeforePlan'
    BY <2>3 DEF BarrierInv, NoneBeforePlan
  <2>6. ActiveInStage'
    BY <2>2, <2>3, <2>4 DEF BarrierInv, ActiveInStage, Active
  <2>7. StartedInOrder'
    <3>1. \A t \in StageTasks(r) : t \in Task /\ t \in Known(r) /\ Level[t] <= stage[r]
      BY <1>2 DEF StageTasks, Known
    <3> QED
      BY <2>1, <2>2, <2>3, <3>1 DEF BarrierInv, StartedInOrder
  <2>8. ErrorsStop'
    <3>1. \A q \in Run : \A t \in erred[q] : tpc'[q][t] # None
      <4>1. SUFFICES ASSUME NEW q \in Run, NEW t \in erred[q] PROVE tpc'[q][t] # None
        OBVIOUS
      <4>2. tpc[q][t] # None /\ t \in Task
        BY <1>2 DEF BarrierInv, ErrorsStop
      <4>3. CASE q = r
        BY <2>3, <4>2, <4>3 DEF None
      <4> QED
        BY <2>3, <4>2, <4>3
    <3>2. \A t \in erred[r] : Continues(r)
      BY <2>1 DEF BarrierInv, ErrorsStop
    <3> QED
      BY <1>3, <2>1, <2>3, <3>1, <3>2 DEF BarrierInv, ErrorsStop
  <2> QED
    BY <1>1, <2>5, <2>6, <2>7, <2>8 DEF BarrierInv
<1>9. CASE StageCancelled(r) \/ CompleteWorkflow(r)
  <2>1. pc[r] = "stage" /\ RunGoTo(r, "return") /\ UNCHANGED <<tpc, erred, task, stage>>
    BY <1>9, <1>g DEF StageCancelled, CompleteWorkflow, RunReturns, RunFrame
  <2>2. \A t \in Task : ~ Active(r, t)
    BY <2>1 DEF BarrierInv, ActiveInStage
  <2> QED
    BY <1>5, <2>1, <2>2
<1>j. ASSUME Joined(r)
      PROVE  \A t \in Task : ~ Active(r, t)
  BY <1>j DEF BarrierInv, ActiveInStage, Joined, Active
<1>10. CASE StageSucceeds(r)
  <2>1. /\ pc[r] = "join" /\ RunGoTo(r, "stage") /\ UNCHANGED <<tpc, erred, task>>
        /\ stage' = [stage EXCEPT ![r] = stage[r] + 1]
        /\ ~ StageErr(r)
    BY <1>10, <1>g DEF StageSucceeds, NextStage, RunFrame, Joined
  <2>2. Continues(r) \/ erred[r] = {}
    BY <1>2, <2>1 DEF BarrierInv, ErrorsStop, StartedInOrder, StageErr, StageTasks
  <2>3. \A t \in Task : ~ Active(r, t)
    BY <1>10, <1>j DEF StageSucceeds
  <2> QED
    BY <1>5, <2>1, <2>2, <2>3
<1>11. CASE StageErrTolerated(r)
  <2>1. /\ RunGoTo(r, "stage") /\ UNCHANGED <<tpc, erred, task>>
        /\ stage' = [stage EXCEPT ![r] = stage[r] + 1]
        /\ Continues(r)
        /\ \A t \in Task : ~ Active(r, t)
    BY <1>11, <1>g, <1>j DEF StageErrTolerated, NextStage, RunFrame
  <2> QED
    BY <1>5, <2>1
<1>12. CASE StageFails(r)
  <2>1. /\ RunGoTo(r, "return") /\ UNCHANGED <<tpc, erred, task, stage>>
        /\ \A t \in Task : ~ Active(r, t)
    BY <1>12, <1>g, <1>j DEF StageFails, RunReturns, RunFrame
  <2> QED
    BY <1>5, <2>1
<1>13. CASE Return(r)
  <2>1. pc[r] = "return" /\ RunGoTo(r, "done") /\ UNCHANGED <<tpc, erred, task, stage>>
    BY <1>13, <1>g DEF Return
  <2>2. \A t \in Task : ~ Active(r, t)
    BY <2>1 DEF BarrierInv, ActiveInStage
  <2> QED
    BY <1>5, <2>1, <2>2
<1> QED
  BY <1>6, <1>7, <1>8, <1>9, <1>10, <1>11, <1>12, <1>13 DEF RunStep

(* Nothing else touches a goroutine or the tasks in memory. *)
LEMMA EnvFrame ==
  ASSUME EnvStep \/ UNCHANGED vars
  PROVE  UNCHANGED <<pc, stage, task, tpc, erred, holders>>
BY DEF EnvStep, Abort, Expire, FindStuck, CancelWorkflow, ReadForApproval, WriteApproval,
       vars, runVars, goVars

LEMMA BarrierNext == BarrierInv /\ [Next]_vars => BarrierInv'
<1> SUFFICES ASSUME BarrierInv, [Next]_vars PROVE BarrierInv'
  OBVIOUS
<1>1. TypeOK'
  BY TypeNext DEF BarrierInv
<1>2. CASE EnvStep \/ UNCHANGED vars
  <2>1. UNCHANGED <<pc, stage, task, tpc, erred>>
    BY <1>2, EnvFrame
  <2>2. \A q \in Run : /\ Known(q)' = Known(q) /\ StageTasks(q)' = StageTasks(q)
                      /\ Continues(q)' = Continues(q)
    BY <2>1 DEF Known, StageTasks, Continues
  <2> QED
    BY <1>1, <2>1, <2>2
       DEF BarrierInv, NoneBeforePlan, ActiveInStage, StartedInOrder, ErrorsStop, Active
<1> QED
  BY <1>2, BarrierTaskStep, BarrierRunStep DEF Next

LEMMA BarrierAlways == Spec => []BarrierInv
BY BarrierInit, BarrierNext, PTL DEF Spec
----------------------------------------------------------------------------
(* No goroutine of a task outlives the stage it was started in: wg.Wait    *)
(* has seen every one end when the run judges the stage, writes a          *)
(* checkpoint or returns. *)
THEOREM StageBarrier == Spec => []NoStrayGoroutine
<1>1. BarrierInv => NoStrayGoroutine
  BY DEF BarrierInv, ActiveInStage, Active, NoStrayGoroutine
<1> QED
  BY <1>1, BarrierAlways, PTL

(* Fail-fast: from the moment an executeTask returns an error, nothing of  *)
(* a later stage of that run is ever started, unless the workflow is to    *)
(* continue on failure. *)
THEOREM FailFastHolds == Spec => []FailFast
<1>1. BarrierInv => FailFast
  <2>1. SUFFICES ASSUME BarrierInv, NEW r \in Run, NEW t \in Task, NEW u \in Task,
                        t \in erred[r], ~ Continues(r), Level[t] < Level[u]
                 PROVE  tpc[r][u] = None
    BY DEF FailFast
  <2>2. Level[t] = stage[r] /\ Level[u] \in Nat /\ stage[r] \in Nat
    BY <2>1, PlanAssumption DEF BarrierInv, ErrorsStop, TypeOK
  <2> QED
    BY <2>1, <2>2 DEF BarrierInv, StartedInOrder
<1> QED
  BY <1>1, BarrierAlways, PTL
----------------------------------------------------------------------------
SlotInv == IsFiniteSet(holders) /\ SlotDiscipline

LEMMA SlotTaskStep ==
  ASSUME BarrierInv, SlotInv, NEW r \in Run, NEW t \in Task, TaskStep(r, t)
  PROVE  SlotInv'
<1>1. PICK l \in TaskPC : tpc' = [tpc EXCEPT ![r][t] = l] /\ Moves(r, t, l)
  BY TaskMove DEF BarrierInv
<1>2. \A q \in Run, u \in Task : tpc'[q][u] = IF q = r /\ u = t THEN l ELSE tpc[q][u]
  BY <1>1, Except2 DEF BarrierInv, TypeOK
<1>3. \A q \in Run, u \in Task : <<q, u>> \in holders <=> tpc[q][u] \in InSlot
  BY DEF SlotInv, SlotDiscipline
<1>4. holders \subseteq Run \X Task /\ Limit \in Nat /\ IsFiniteSet(holders)
      /\ Cardinality(holders) \in Nat /\ Cardinality(holders) <= Limit
  BY ConfigAssumption, FS_CardinalityType DEF SlotInv, SlotDiscipline, BarrierInv, TypeOK
<1>5. /\ IsFiniteSet(holders') /\ Cardinality(holders') <= Limit
      /\ holders' \subseteq Run \X Task
      /\ \A q \in Run, u \in Task : <<q, u>> \in holders' <=> tpc'[q][u] \in InSlot
  <2>1. CASE holders' = holders
    <3>1. tpc[r][t] \in InSlot <=> l \in InSlot
      <4>1. <<r, t>> \notin holders => tpc[r][t] \notin InSlot
        BY <1>3
      <4> QED
        BY <1>1, <1>3, <2>1 DEF Moves, InSlot
    <3> QED
      BY <1>2, <1>3, <1>4, <2>1, <3>1
  <2>2. CASE tpc[r][t] = "acquire" /\ l = "prepare"
    <3>1. <<r, t>> \notin holders /\ holders' = holders \cup {<<r, t>>}
          /\ Cardinality(holders) < Limit
      BY <1>1, <1>3, <2>2 DEF Moves, InSlot
    <3>2. IsFiniteSet(holders') /\ Cardinality(holders') = Cardinality(holders) + 1
      BY <1>4, <3>1, FS_AddElement
    <3>3. \A q \in Run, u \in Task : <<q, u>> \in holders' <=> tpc'[q][u] \in InSlot
      <4>1. l \in InSlot
        BY <2>2 DEF InSlot
      <4>2. \A q \in Run, u \in Task : <<q, u>> \in holders' <=> <<q, u>> \in holders \/ (q = r /\ u = t)
        BY <3>1
      <4> QED
        BY <1>2, <1>3, <4>1, <4>2
    <3> QED
      BY <1>4, <3>1, <3>2, <3>3
  <2>3. CASE tpc[r][t] = "release" /\ l = "report"
    <3>1. <<r, t>> \in holders /\ holders' = holders \ {<<r, t>>}
      BY <1>1, <1>3, <2>3 DEF Moves, InSlot
    <3>2. IsFiniteSet(holders') /\ Cardinality(holders') = Cardinality(holders) - 1
      BY <1>4, <3>1, FS_RemoveElement
    <3>3. \A q \in Run, u \in Task : <<q, u>> \in holders' <=> tpc'[q][u] \in InSlot
      BY <1>2, <1>3, <2>3, <3>1 DEF InSlot
    <3> QED
      BY <1>4, <3>1, <3>2, <3>3
  <2> QED
    BY <1>1, <2>1, <2>2, <2>3 DEF Moves
<1>6. holders' = {p \in Run \X Task : tpc'[p[1]][p[2]] \in InSlot}
  BY <1>5
<1> QED
  BY <1>5, <1>6 DEF SlotInv, SlotDiscipline

LEMMA SlotRunStep ==
  ASSUME BarrierInv, SlotInv, NEW r \in Run, RunStep(r)
  PROVE  SlotInv'
<1>1. holders' = holders
  BY DEF RunStep, RunFrame, goVars, ResumeGetWorkflow, ResumeGetTasks, ResumeRestore, Register,
         SaveWorkflow, SaveTask, StartWorkflow, BuildPlan, StageCancelled, StartStage,
         StageSucceeds, StageErrTolerated, StageFails, CompleteWorkflow, Return
<1>2. CASE StartStage(r)
  <2>1. /\ pc[r] = "stage"
        /\ tpc' = [tpc EXCEPT ![r] = [t \in Task |->
              IF t \in StageTasks(r) /\ task[r][t].status # "COMPLETED"
              THEN "acquire" ELSE tpc[r][t]]]
    BY <1>2 DEF StartStage
  <2>2. \A t \in Task : tpc[r][t] \notin InSlot
    BY <2>1 DEF BarrierInv, ActiveInStage, Active, InSlot, None
  <2>3. \A q \in Run, u \in Task : tpc'[q][u] \in InSlot <=> tpc[q][u] \in InSlot
    BY <2>1, <2>2 DEF BarrierInv, TypeOK, InSlot
  <2>4. {p \in Run \X Task : tpc'[p[1]][p[2]] \in InSlot}
          = {p \in Run \X Task : tpc[p[1]][p[2]] \in InSlot}
    BY <2>3
  <2> QED
    BY <1>1, <2>4 DEF SlotInv, SlotDiscipline
<1>3. CASE ~ StartStage(r)
  <2>1. tpc' = tpc
    BY <1>3 DEF RunStep, RunFrame, goVars, ResumeGetWorkflow, ResumeGetTasks, ResumeRestore,
                Register, SaveWorkflow, SaveTask, StartWorkflow, BuildPlan, StageCancelled,
                StageSucceeds, StageErrTolerated, StageFails, CompleteWorkflow, Return
  <2> QED
    BY <1>1, <2>1 DEF SlotInv, SlotDiscipline
<1> QED
  BY <1>2, <1>3

(* The limiter is never over its capacity and every path of executeTask    *)
(* gives back exactly the slot it took. *)
THEOREM LimiterSound == Spec => []SlotDiscipline
<1>1. Init => SlotInv
  <2>1. SUFFICES ASSUME Init PROVE SlotInv
    OBVIOUS
  <2>2. holders = {} /\ \A q \in Run, u \in Task : tpc[q][u] = None
    BY <2>1 DEF Init
  <2>3. holders = {p \in Run \X Task : tpc[p[1]][p[2]] \in InSlot}
    BY <2>2 DEF InSlot, None
  <2>4. IsFiniteSet(holders) /\ Cardinality(holders) = 0
    BY <2>2, FS_EmptySet
  <2> QED
    BY <2>3, <2>4, ConfigAssumption DEF SlotInv, SlotDiscipline
<1>2. BarrierInv /\ SlotInv /\ [Next]_vars => SlotInv'
  <2>1. SUFFICES ASSUME BarrierInv, SlotInv, [Next]_vars PROVE SlotInv'
    OBVIOUS
  <2>2. CASE EnvStep \/ UNCHANGED vars
    <3>1. UNCHANGED <<tpc, holders>>
      BY <2>2, EnvFrame
    <3> QED
      BY <2>1, <3>1 DEF SlotInv, SlotDiscipline
  <2> QED
    BY <2>1, <2>2, SlotTaskStep, SlotRunStep DEF Next
<1>3. SlotInv => SlotDiscipline
  BY DEF SlotInv
<1> QED
  BY <1>1, <1>2, <1>3, BarrierAlways, PTL DEF Spec
----------------------------------------------------------------------------
(* What one step of a task goroutine does: it goes to l and leaves the     *)
(* task as s; it may end executeTask with an error.                        *)
Errs(r, t) == erred' = [erred EXCEPT ![r] = erred[r] \cup {t}]

Stores(r, t, s) == taskRec' = [taskRec EXCEPT ![WorkflowOf[r]][t] = s]

(* Nothing but the goroutine moves. *)
Passes(r, t, l, s) ==
  /\ s = task[r][t] /\ taskRec' = taskRec
  /\ \/ /\ erred' = erred
        /\ \/ tpc[r][t] = "acquire" /\ l = "prepare"
           \/ tpc[r][t] = "running" /\ l = "backoff"
           \/ tpc[r][t] = "release" /\ l = "report"
           \/ tpc[r][t] = "report" /\ l = "finished"
     \/ /\ Errs(r, t)
        /\ \/ tpc[r][t] = "acquire" /\ l = "report"
           \/ tpc[r][t] \in {"waiting", "gate"} /\ l = "release"

(* From prepare on: the task is started with its input, or given up. *)
Prepares(r, t, l, s) ==
  /\ tpc[r][t] = "prepare"
  /\ Stores(r, t, s) \/ taskRec' = taskRec
  /\ \/ /\ l \in {"approval", "gate"} /\ erred' = erred
        /\ s.status = "RUNNING" /\ s.input = Injected(r, t).input
     \/ /\ l = "release" /\ Errs(r, t)
        /\ \/ s.status = task[r][t].status
           \/ s.status = "FAILED"
           \/ s.status = "RUNNING" /\ task[r][t].status = "PENDING"

(* Between the start and the last attempt the input stays. *)
Proceeds(r, t, l, s) ==
  /\ Stores(r, t, s) \/ taskRec' = taskRec
  /\ s.input = task[r][t].input
  /\ \/ /\ tpc[r][t] = "approval" /\ s.status = "WAITING_FOR_APPROVAL"
        /\ \/ l = "waiting" /\ erred' = erred
           \/ l = "release" /\ Errs(r, t)
     \/ /\ tpc[r][t] = "waiting" /\ l = "gate" /\ erred' = erred
        /\ s.status = "RUNNING" /\ taskRec[WorkflowOf[r]][t].status = "RUNNING"
        /\ taskRec' = taskRec
     \/ /\ tpc[r][t] \in {"gate", "backoff"} /\ l = "running" /\ erred' = erred
        /\ s.status = task[r][t].status

(* The handler's verdict. *)
Ends(r, t, l, s) ==
  /\ tpc[r][t] \in {"running", "backoff"} /\ l = "release"
  /\ \/ s.status = "COMPLETED" /\ tpc[r][t] = "running" /\ Stores(r, t, s) /\ erred' = erred
     \/ s.status = "COMPLETED" /\ tpc[r][t] = "running" /\ taskRec' = taskRec /\ Errs(r, t)
     \/ /\ s.status = "FAILED"
        /\ Stores(r, t, s) \/ taskRec' = taskRec
        /\ Errs(r, t) \/ (Tolerates(r, t) /\ erred' = erred)

Effect(r, t, l, s) ==
  \/ Passes(r, t, l, s)
  \/ Prepares(r, t, l, s)
  \/ Proceeds(r, t, l, s)
  \/ Ends(r, t, l, s)

(* The goroutine of t in run r goes to l and leaves the task as s. *)
Leads(r, t, l, s) ==
  /\ tpc' = [tpc EXCEPT ![r][t] = l]
  /\ task' = [task EXCEPT ![r][t] = s]
  /\ Effect(r, t, l, s)

LEMMA TaskEffect ==
  ASSUME TypeOK, NEW r \in Run, NEW t \in Task, TaskStep(r, t)
  PROVE  \E l \in TaskPC, s \in TaskRecord : Leads(r, t, l, s)
<1> DEFINE old == task[r][t]
           Set(s, st) == [s EXCEPT !.status = st]
<1>1. /\ old \in TaskRecord /\ Injected(r, t) \in TaskRecord
      /\ task \in [Run -> [Task -> TaskRecord]]
      /\ task' = task => task' = [task EXCEPT ![r][t] = old]
  BY RecordType DEF TypeOK
<1>2. \A st \in {"COMPLETED", "FAILED", "RUNNING", "WAITING_FOR_APPROVAL"} :
        /\ Set(old, st) \in TaskRecord /\ Set(old, st).status = st
        /\ Set(old, st).input = old.input
        /\ Set(Injected(r, t), st) \in TaskRecord /\ Set(Injected(r, t), st).status = st
        /\ Set(Injected(r, t), st).input = Injected(r, t).input
  BY <1>1 DEF TaskRecord, TaskStatus
<1>3. Injected(r, t).status = old.status
  BY <1>1 DEF Injected, TaskRecord
<1>4. {"prepare", "approval", "waiting", "gate", "running", "backoff", "release",
       "report", "finished"} \subseteq TaskPC
  BY DEF TaskPC, InSlot
<1>5. ASSUME NEW s \in TaskRecord, TryUpdateTask(r, t, s)
      PROVE  /\ task' = [task EXCEPT ![r][t] = s]
             /\ Stores(r, t, s) \/ taskRec' = taskRec
  BY <1>5 DEF TryUpdateTask, UpdateTask, UpdateTaskErr, Stores
<1>6. TaskReturnsErr(r, t) => Errs(r, t) /\ tpc' = [tpc EXCEPT ![r][t] = "release"]
  BY DEF TaskReturnsErr, Errs, GoTo
<1>7. TaskReturnsNil(r, t) => erred' = erred /\ tpc' = [tpc EXCEPT ![r][t] = "release"]
  BY DEF TaskReturnsNil, GoTo
<1> HIDE DEF old
(* Steps that leave the task and its record alone. *)
<1>10. CASE \/ Acquire(r, t) \/ AcquireCancelled(r, t) \/ ApprovalCancelled(r, t)
            \/ InterceptorRefuses(r, t) \/ HandlerErrs(r, t) \/ Release(r, t) \/ Report(r, t)
  <2>1. /\ task' = [task EXCEPT ![r][t] = old] /\ taskRec' = taskRec
    BY <1>1, <1>10 DEF Acquire, AcquireCancelled, ApprovalCancelled, InterceptorRefuses,
                       HandlerErrs, Release, Report
  <2>2. \E l \in TaskPC : tpc' = [tpc EXCEPT ![r][t] = l] /\ Passes(r, t, l, old)
    BY <1>4, <1>6, <1>10, <2>1
       DEF Passes, old, Errs, GoTo, Acquire, AcquireCancelled, ApprovalCancelled,
           InterceptorRefuses, HandlerErrs, Release, Report
  <2> QED
    BY <1>1, <2>1, <2>2 DEF Leads, Effect
<1>11. CASE RouteFails(r, t) \/ StartRefused(r, t)
  <2>1. /\ task' = [task EXCEPT ![r][t] = Injected(r, t)] /\ taskRec' = taskRec
        /\ tpc[r][t] = "prepare" /\ Errs(r, t) /\ tpc' = [tpc EXCEPT ![r][t] = "release"]
    BY <1>6, <1>11 DEF RouteFails, StartRefused, Runnable
  <2>2. Prepares(r, t, "release", Injected(r, t))
    BY <1>3, <2>1 DEF Prepares, old
  <2> QED
    BY <1>1, <1>4, <2>1, <2>2 DEF Leads, Effect
<1>12. CASE WorkerMissing(r, t)
  <2> DEFINE s == Set(Injected(r, t), "FAILED")
  <2>1. /\ tpc[r][t] = "prepare" /\ TryUpdateTask(r, t, s)
        /\ Errs(r, t) /\ tpc' = [tpc EXCEPT ![r][t] = "release"]
    BY <1>6, <1>12 DEF WorkerMissing
  <2>2. s \in TaskRecord /\ s.status = "FAILED"
    BY <1>2
  <2> HIDE DEF s
  <2>3. task' = [task EXCEPT ![r][t] = s] /\ Prepares(r, t, "release", s)
    BY <1>5, <2>1, <2>2 DEF Prepares
  <2> QED
    BY <1>4, <2>1, <2>2, <2>3 DEF Leads, Effect
<1>13. CASE StartTask(r, t)
  <2> DEFINE s == Set(Injected(r, t), "RUNNING")
  <2>1. /\ tpc[r][t] = "prepare" /\ TryUpdateTask(r, t, s) /\ old.status = "PENDING"
        /\ \/ erred' = erred /\ \E l \in {"approval", "gate"} : tpc' = [tpc EXCEPT ![r][t] = l]
           \/ Errs(r, t) /\ tpc' = [tpc EXCEPT ![r][t] = "release"]
    BY <1>6, <1>13 DEF StartTask, Runnable, TryUpdateTask, GoTo, old
  <2>2. s \in TaskRecord /\ s.status = "RUNNING" /\ s.input = Injected(r, t).input
    BY <1>2
  <2> HIDE DEF s
  <2>3. task' = [task EXCEPT ![r][t] = s] /\ (Stores(r, t, s) \/ taskRec' = taskRec)
    BY <1>5, <2>1, <2>2
  <2>4. \E l \in TaskPC : tpc' = [tpc EXCEPT ![r][t] = l] /\ Prepares(r, t, l, s)
    BY <1>4, <2>1, <2>2, <2>3 DEF Prepares, old
  <2> QED
    BY <2>2, <2>3, <2>4 DEF Leads, Effect
<1>14. CASE WaitForApproval(r, t)
  <2> DEFINE s == Set(old, "WAITING_FOR_APPROVAL")
  <2>1. /\ tpc[r][t] = "approval" /\ TryUpdateTask(r, t, s)
        /\ \/ erred' = erred /\ tpc' = [tpc EXCEPT ![r][t] = "waiting"]
           \/ Errs(r, t) /\ tpc' = [tpc EXCEPT ![r][t] = "release"]
    BY <1>6, <1>14 DEF WaitForApproval, TryUpdateTask, GoTo, old
  <2>2. s \in TaskRecord /\ s.status = "WAITING_FOR_APPROVAL" /\ s.input = old.input
    BY <1>2
  <2> HIDE DEF s
  <2>3. task' = [task EXCEPT ![r][t] = s] /\ (Stores(r, t, s) \/ taskRec' = taskRec)
    BY <1>5, <2>1, <2>2
  <2>4. \E l \in TaskPC : tpc' = [tpc EXCEPT ![r][t] = l] /\ Proceeds(r, t, l, s)
    BY <1>4, <2>1, <2>2, <2>3 DEF Proceeds, old
  <2> QED
    BY <2>2, <2>3, <2>4 DEF Leads, Effect
<1>15. CASE SeeApproval(r, t)
  <2> DEFINE s == Set(old, "RUNNING")
  <2>1. /\ tpc[r][t] = "waiting" /\ taskRec[WorkflowOf[r]][t].status = "RUNNING"
        /\ task' = [task EXCEPT ![r][t] = s] /\ taskRec' = taskRec /\ erred' = erred
        /\ tpc' = [tpc EXCEPT ![r][t] = "gate"]
    BY <1>15 DEF SeeApproval, GoTo, old
  <2>2. s \in TaskRecord /\ s.status = "RUNNING" /\ s.input = old.input
    BY <1>2
  <2> HIDE DEF s
  <2>3. Proceeds(r, t, "gate", s)
    BY <2>1, <2>2 DEF Proceeds, old
  <2> QED
    BY <1>4, <2>1, <2>2, <2>3 DEF Leads, Effect
<1>16. CASE BeginAttempt(r, t)
  <2> DEFINE s == [old EXCEPT !.attempt = attempt[r][t] + 1]
  <2>1. /\ tpc[r][t] \in {"gate", "backoff"} /\ TryUpdateTask(r, t, s) /\ erred' = erred
        /\ tpc' = [tpc EXCEPT ![r][t] = "running"]
    BY <1>16 DEF BeginAttempt, GoTo, old
  <2>2. attempt[r][t] + 1 \in Nat
    BY DEF TypeOK
  <2>3. s \in TaskRecord /\ s.status = old.status /\ s.input = old.input
    BY <1>1, <2>2 DEF TaskRecord
  <2> HIDE DEF s
  <2>4. task' = [task EXCEPT ![r][t] = s] /\ Proceeds(r, t, "running", s)
    BY <1>5, <2>1, <2>3 DEF Proceeds, old
  <2> QED
    BY <1>4, <2>1, <2>3, <2>4 DEF Leads, Effect
<1>17. CASE HandlerSucceeds(r, t)
  <2> DEFINE s == Set(old, "COMPLETED")
  <2>1. /\ tpc[r][t] = "running" /\ tpc' = [tpc EXCEPT ![r][t] = "release"]
        /\ task' = [task EXCEPT ![r][t] = s]
        /\ \/ Stores(r, t, s) /\ erred' = erred
           \/ taskRec' = taskRec /\ Errs(r, t)
    BY <1>6, <1>7, <1>17 DEF HandlerSucceeds, UpdateTask, UpdateTaskErr, Stores, old
  <2>2. s \in TaskRecord /\ s.status = "COMPLETED"
    BY <1>2
  <2> HIDE DEF s
  <2>3. Ends(r, t, "release", s)
    BY <2>1, <2>2 DEF Ends
  <2> QED
    BY <1>4, <2>1, <2>2, <2>3 DEF Leads, Effect
<1>18. CASE FailTask(r, t)
  <2> DEFINE s == Set(old, "FAILED")
  <2>1. /\ tpc[r][t] \in {"running", "backoff"} /\ TryUpdateTask(r, t, s)
        /\ tpc' = [tpc EXCEPT ![r][t] = "release"]
        /\ Errs(r, t) \/ (Tolerates(r, t) /\ erred' = erred)
    BY <1>6, <1>7, <1>18 DEF FailTask, old
  <2>2. s \in TaskRecord /\ s.status = "FAILED"
    BY <1>2
  <2> HIDE DEF s
  <2>3. task' = [task EXCEPT ![r][t] = s] /\ Ends(r, t, "release", s)
    BY <1>5, <2>1, <2>2 DEF Ends
  <2> QED
    BY <1>4, <2>1, <2>2, <2>3 DEF Leads, Effect
<1> QED
  BY <1>10, <1>11, <1>12, <1>13, <1>14, <1>15, <1>16, <1>17, <1>18 DEF TaskStep
----------------------------------------------------------------------------
(* What each run keeps to.  Its plan begins with the first stage and is    *)
(* built of tasks whose dependencies are all known.                        *)
PlanWalked(r) ==
  /\ pc[r] \notin {"stage", "join", "return", "done"} => stage[r] = 0
  /\ pc[r] \in {"stage", "join"} => \A t \in Known(r) : Deps[t] \subseteq Known(r)

(* Between two stages every goroutine there has been is of an earlier one, *)
(* and of the tasks of a stage only those COMPLETED get no goroutine.      *)
StagesStarted(r) ==
  /\ pc[r] = "stage" => \A t \in Task : tpc[r][t] # None => Level[t] < stage[r]
  /\ pc[r] = "join" => \A t \in StageTasks(r) :
       tpc[r][t] = None => task[r][t].status = "COMPLETED"

(* A goroutine that comes back without an error has settled its task, and  *)
(* a fail-fast run leaves no task behind unsettled.                        *)
Returned == {"release", "report", "finished"}

StagesSettled(r) ==
  /\ \A t \in Task : tpc[r][t] \in Returned /\ t \notin erred[r] => Settled(r, t)
  /\ ~ Continues(r) => \A t \in Known(r) : Level[t] < stage[r] => Settled(r, t)

(* From the start of a task to its last attempt its input holds the output *)
(* of every dependency but the tolerated failures.                         *)
Prepared == {"approval", "waiting", "gate", "running", "backoff"}

HasInput(r, t) ==
  \A d \in Deps[t] :
    d \in task[r][t].input \/ (task[r][d].status = "FAILED" /\ Tolerates(r, d))

InputsKept(r) ==
  ~ Continues(r) => \A t \in Task : tpc[r][t] \in Prepared => HasInput(r, t)

(* A result is there only at the end, and success means what it says.      *)
ResultMeant(r) ==
  /\ result[r] # None => pc[r] \in {"return", "done"}
  /\ result[r] = "ok" /\ ~ Continues(r) =>
       wfStatus[r] = "COMPLETED" /\ \A t \in Known(r) : Settled(r, t)

RunOK(r) ==
  /\ PlanWalked(r)
  /\ StagesStarted(r)
  /\ StagesSettled(r)
  /\ InputsKept(r)
  /\ ResultMeant(r)

RunInv == \A r \in Run : RunOK(r)

LEMMA RunInit == Init => RunInv
<1> SUFFICES ASSUME Init, NEW r \in Run PROVE RunOK(r)
  BY DEF RunInv
<1>1. /\ pc[r] = "idle" /\ stage[r] = 0 /\ result[r] = None
      /\ \A t \in Task : tpc[r][t] = None /\ Level[t] \in Nat
  BY PlanAssumption DEF Init
<1>2. PlanWalked(r) /\ StagesStarted(r) /\ ResultMeant(r)
  BY <1>1 DEF PlanWalked, StagesStarted, ResultMeant, None
<1>3. StagesSettled(r) /\ InputsKept(r)
  <2>1. Known(r) \subseteq Task /\ \A t \in Task : ~ (Level[t] < stage[r])
    BY <1>1 DEF Known
  <2> QED
    BY <1>1, <2>1 DEF StagesSettled, InputsKept, Returned, Prepared, None
<1> QED
  BY <1>2, <1>3 DEF RunOK

(* A run is what its own variables say.                                    *)
SameRun(q) ==
  /\ pc'[q] = pc[q] /\ stage'[q] = stage[q] /\ result'[q] = result[q]
  /\ wfStatus'[q] = wfStatus[q] /\ task'[q] = task[q] /\ tpc'[q] = tpc[q]
  /\ erred'[q] = erred[q]

LEMMA SameRunKeeps ==
  ASSUME NEW q \in Run, SameRun(q), RunOK(q)
  PROVE  RunOK(q)'
<1>1. /\ Known(q)' = Known(q) /\ StageTasks(q)' = StageTasks(q)
      /\ Continues(q)' = Continues(q)
      /\ \A t \in Task : Settled(q, t)' = Settled(q, t) /\ HasInput(q, t)' = HasInput(q, t)
  BY DEF SameRun, Known, StageTasks, Continues, Settled, HasInput, Tolerates
<1>2. Known(q) \subseteq Task /\ StageTasks(q) \subseteq Task
  BY DEF Known, StageTasks
<1>3. PlanWalked(q)' /\ StagesStarted(q)'
  BY <1>1, <1>2 DEF RunOK, SameRun, PlanWalked, StagesStarted
<1>4. StagesSettled(q)' /\ InputsKept(q)' /\ ResultMeant(q)'
  BY <1>1, <1>2 DEF RunOK, SameRun, StagesSettled, InputsKept, ResultMeant
<1> QED
  BY <1>3, <1>4 DEF RunOK
----------------------------------------------------------------------------
(* What the steps of a task goroutine leave alone. *)
LEMMA TaskRest ==
  ASSUME NEW r \in Run, NEW t \in Task, TaskStep(r, t)
  PROVE  /\ UNCHANGED <<pc, stage, saved, result, wfStatus>>
         /\ UNCHANGED <<wfRec, checkpoint, expired, cancelFunc, stuck, tickets>>
         /\ cancelled' = cancelled \/ (~ Continues(r) /\ cancelled' = cancelled \cup {r})
BY DEF TaskStep, TaskFrame, runVars, ctxVars, envVars, Acquire, AcquireCancelled, RouteFails,
       WorkerMissing, StartTask, StartRefused, WaitForApproval, SeeApproval,
       ApprovalCancelled, InterceptorRefuses, BeginAttempt, HandlerSucceeds, HandlerErrs,
       FailTask, Release, Report

(* A step of one goroutine, point by point. *)
LEMMA GoPoints ==
  ASSUME TypeOK, NEW r \in Run, NEW t \in Task, NEW l \in TaskPC, NEW s \in TaskRecord,
         Leads(r, t, l, s)
  PROVE  /\ \A q \in Run, u \in Task :
              /\ tpc'[q][u] = IF q = r /\ u = t THEN l ELSE tpc[q][u]
              /\ task'[q][u] = IF q = r /\ u = t THEN s ELSE task[q][u]
         /\ \A q \in Run \ {r} : tpc'[q] = tpc[q] /\ task'[q] = task[q] /\ erred'[q] = erred[q]
         /\ \/ erred' = erred
            \/ Errs(r, t)
         /\ Errs(r, t) => erred'[r] = erred[r] \cup {t}
<1>0. /\ tpc \in [Run -> [Task -> TaskPC]] /\ task \in [Run -> [Task -> TaskRecord]]
      /\ erred \in [Run -> SUBSET Task]
  BY DEF TypeOK
<1>1. tpc' = [tpc EXCEPT ![r][t] = l] /\ task' = [task EXCEPT ![r][t] = s]
  BY DEF Leads
<1>2. erred' = erred \/ Errs(r, t)
  BY DEF Leads, Effect, Passes, Prepares, Proceeds, Ends
<1>3. Errs(r, t) => erred'[r] = erred[r] \cup {t} /\ \A q \in Run \ {r} : erred'[q] = erred[q]
  BY <1>0 DEF Errs
<1>4. \A q \in Run \ {r} : tpc'[q] = tpc[q] /\ task'[q] = task[q]
  BY <1>0, <1>1
<1>5. \A q \in Run, u \in Task : tpc'[q][u] = IF q = r /\ u = t THEN l ELSE tpc[q][u]
  BY <1>0, <1>1, Except2
<1>6. \A q \in Run, u \in Task : task'[q][u] = IF q = r /\ u = t THEN s ELSE task[q][u]
  BY <1>0, <1>1, Except2
<1>7. \A q \in Run \ {r} : tpc'[q] = tpc[q] /\ task'[q] = task[q] /\ erred'[q] = erred[q]
  BY <1>2, <1>3, <1>4
<1>8. \A q \in Run, u \in Task :
        /\ tpc'[q][u] = IF q = r /\ u = t THEN l ELSE tpc[q][u]
        /\ task'[q][u] = IF q = r /\ u = t THEN s ELSE task[q][u]
  BY <1>5, <1>6
<1> QED
  BY <1>2, <1>3, <1>7, <1>8

LEMMA RunTaskStep ==
  ASSUME BarrierInv, RunInv, NEW r \in Run, NEW t \in Task, TaskStep(r, t)
  PROVE  RunInv'
<1>0. TypeOK
  BY DEF BarrierInv
<1>1. PICK l \in TaskPC, s \in TaskRecord : Leads(r, t, l, s)
  BY <1>0, TaskEffect
<1>2. /\ \A u \in Task : /\ tpc'[r][u] = IF u = t THEN l ELSE tpc[r][u]
                         /\ task'[r][u] = IF u = t THEN s ELSE task[r][u]
      /\ \A q \in Run \ {r} : tpc'[q] = tpc[q] /\ task'[q] = task[q] /\ erred'[q] = erred[q]
      /\ erred' = erred \/ Errs(r, t)
      /\ Errs(r, t) => erred'[r] = erred[r] \cup {t}
  BY <1>0, <1>1, GoPoints
<1>3. UNCHANGED <<pc, stage, result, wfStatus>>
  BY TaskRest
<1>4. Effect(r, t, l, s)
  BY <1>1 DEF Leads
<1>5. tpc[r][t] \notin {None, "finished"} /\ l # None
  BY <1>4 DEF Effect, Passes, Prepares, Proceeds, Ends, None
<1>6. pc[r] = "join" /\ t \in StageTasks(r) /\ t \in Known(r) /\ Level[t] = stage[r]
  BY <1>5 DEF BarrierInv, ActiveInStage, Active, StageTasks
<1>7. /\ Known(r)' = Known(r) /\ StageTasks(r)' = StageTasks(r)
      /\ Continues(r)' = Continues(r)
  BY <1>3, <1>6, TaskKnown DEF BarrierInv, StageTasks, Continues
<1>8. RunOK(r) /\ result[r] = None
  BY <1>6 DEF RunInv, RunOK, ResultMeant
<1>9. \A u \in Task : u # t => Settled(r, u)' = Settled(r, u)
  BY <1>2 DEF Settled, Tolerates
<1>10. Known(r) \subseteq Task /\ StageTasks(r) \subseteq Known(r)
  BY DEF Known, StageTasks
<1>11. PlanWalked(r)' /\ StagesStarted(r)'
  BY <1>2, <1>3, <1>5, <1>6, <1>7, <1>8, <1>10 DEF RunOK, PlanWalked, StagesStarted
<1>12. StagesSettled(r)'
  <2>1. l \in Returned /\ t \notin erred'[r] => Settled(r, t)'
    <3>1. SUFFICES ASSUME l \in Returned, t \notin erred'[r] PROVE Settled(r, t)'
      OBVIOUS
    <3>2. erred' = erred /\ ~ Errs(r, t)
      BY <1>2, <3>1
    <3>3. Settled(r, t)' <=> s.status = "COMPLETED" \/ (s.status = "FAILED" /\ Tolerates(r, t))
      BY <1>2 DEF Settled, Tolerates
    <3>4. \/ tpc[r][t] \in Returned /\ s = task[r][t]
          \/ s.status = "COMPLETED"
          \/ s.status = "FAILED" /\ Tolerates(r, t)
      BY <1>4, <3>1, <3>2 DEF Effect, Passes, Prepares, Proceeds, Ends, Returned
    <3>5. tpc[r][t] \in Returned => Settled(r, t)
      BY <1>8, <3>1, <3>2 DEF RunOK, StagesSettled
    <3> QED
      BY <3>3, <3>4, <3>5 DEF Settled
  <2>2. \A u \in Task : u \in erred[r] => u \in erred'[r]
    BY <1>2
  <2>3. \A u \in Task : tpc'[r][u] \in Returned /\ u \notin erred'[r] => Settled(r, u)'
    BY <1>2, <1>8, <1>9, <2>1, <2>2 DEF RunOK, StagesSettled
  <2>4. ~ (Level[t] < stage[r])
    BY <1>6, PlanAssumption
  <2>5. ~ Continues(r) => \A u \in Known(r) : Level[u] < stage[r] => Settled(r, u)'
    BY <1>8, <1>9, <1>10, <2>4 DEF RunOK, StagesSettled
  <2> QED
    BY <1>3, <1>7, <2>3, <2>5 DEF StagesSettled
<1>13. InputsKept(r)'
  <2>1. SUFFICES ASSUME ~ Continues(r), NEW u \in Task, tpc'[r][u] \in Prepared
                 PROVE  HasInput(r, u)'
    BY <1>7 DEF InputsKept
  <2>2. u \in StageTasks(r) /\ Level[u] = stage[r] /\ u \in Known(r)
    <3>1. u # t => Active(r, u)
      BY <1>2, <2>1 DEF Active, Prepared, None
    <3> QED
      BY <1>6, <3>1 DEF BarrierInv, ActiveInStage, StageTasks
  <2>3. \A d \in Deps[u] : d \in Task /\ d \in Known(r) /\ Level[d] < stage[r] /\ d # t
    BY <1>6, <1>8, <2>2, PlanAssumption DEF RunOK, PlanWalked, Known
  <2>4. \A d \in Deps[u] : Settled(r, d) /\ task'[r][d] = task[r][d]
    BY <1>2, <1>8, <2>1, <2>3 DEF RunOK, StagesSettled
  <2>5. CASE u # t \/ tpc[r][u] \in Prepared
    <3>1. tpc[r][u] \in Prepared
      BY <1>2, <2>1, <2>5
    <3>2. HasInput(r, u)
      BY <1>8, <2>1, <3>1 DEF RunOK, InputsKept
    <3>3. u = t => s.input = task[r][t].input
      BY <1>2, <1>4, <2>1, <3>1 DEF Effect, Passes, Prepares, Proceeds, Ends, Prepared
    <3>4. task'[r][u].input = task[r][u].input
      BY <1>2, <3>3
    <3> QED
      BY <2>4, <3>2, <3>4 DEF HasInput, Tolerates
  <2>6. CASE u = t /\ tpc[r][t] \notin Prepared
    <3>1. s.input = Injected(r, t).input
      BY <1>2, <1>4, <2>1, <2>6 DEF Effect, Passes, Prepares, Proceeds, Ends, Prepared
    <3>2. \A d \in Deps[t] : task[r][d].status = "COMPLETED" => d \in Injected(r, t).input
      <4>1. SUFFICES ASSUME NEW d \in Deps[t], task[r][d].status = "COMPLETED"
                     PROVE  d \in Injected(r, t).input
        OBVIOUS
      <4>2. task[r][t] \in TaskRecord
        BY DEF BarrierInv, TypeOK
      <4> QED
        BY <4>1, <4>2 DEF Injected, TaskRecord
    <3>3. task'[r][t].input = s.input
      BY <1>2
    <3> QED
      BY <2>4, <2>6, <3>1, <3>2, <3>3 DEF HasInput, Settled, Tolerates
  <2> QED
    BY <2>5, <2>6
<1>14. ResultMeant(r)'
  BY <1>3, <1>8, <1>6 DEF ResultMeant, None
<1>15. \A q \in Run \ {r} : RunOK(q)'
  <2>1. SUFFICES ASSUME NEW q \in Run \ {r} PROVE RunOK(q)'
    OBVIOUS
  <2>2. SameRun(q)
    BY <1>2, <1>3 DEF SameRun
  <2> QED
    BY <2>2, SameRunKeeps DEF RunInv
<1> QED
  BY <1>11, <1>12, <1>13, <1>14, <1>15 DEF RunInv, RunOK

(* A plan has no gap: behind an empty stage there is no task. *)
LEMMA NothingBeyond ==
  ASSUME TypeOK, NEW r \in Run, StageTasks(r) = {},
         \A t \in Known(r) : Deps[t] \subseteq Known(r)
  PROVE  \A t \in Known(r) : Level[t] < stage[r]
<1>1. /\ stage[r] \in Nat /\ Known(r) \subseteq Task
      /\ \A t \in Task : Level[t] \in Nat
      /\ \A t \in Known(r) : Level[t] # stage[r]
  BY PlanAssumption DEF TypeOK, Known, StageTasks
<1> DEFINE S == {Level[t] : t \in {u \in Known(r) : ~ (Level[u] < stage[r])}}
<1>2. SUFFICES ASSUME S # {} PROVE FALSE
  OBVIOUS
<1>3. S \subseteq Nat
  BY <1>1
<1>4. PICK m \in S : \A n \in S : m <= n
  <2> HIDE DEF S
  <2> QED
    BY <1>2, <1>3, NatMin
<1>5. PICK t \in Known(r) : Level[t] = m /\ ~ (Level[t] < stage[r])
  OBVIOUS
<1>6. Level[t] > stage[r] /\ Level[t] > 0 /\ Level[t] \in Nat /\ t \in Task
  BY <1>1, <1>5
<1>7. PICK u \in Deps[t] : Level[u] = Level[t] - 1
  BY <1>6, PlanAssumption
<1>8. u \in Known(r) /\ ~ (Level[u] < stage[r])
  BY <1>1, <1>5, <1>6, <1>7
<1>9. Level[u] \in S
  BY <1>8
<1> QED
  BY <1>4, <1>5, <1>6, <1>7, <1>9

(* A run's step is its own. *)
LEMMA RunElsewhere ==
  ASSUME TypeOK, NEW r \in Run, RunStep(r)
  PROVE  \A q \in Run \ {r} : SameRun(q)
<1> SUFFICES ASSUME NEW q \in Run \ {r} PROVE SameRun(q)
  OBVIOUS
<1>1. /\ pc \in [Run -> PC] /\ stage \in [Run -> Nat]
      /\ result \in [Run -> {None, "ok", "error"}] /\ wfStatus \in [Run -> WorkflowStatus]
      /\ task \in [Run -> [Task -> TaskRecord]] /\ tpc \in [Run -> [Task -> TaskPC]]
  BY DEF TypeOK
<1>2. erred' = erred
  BY DEF RunStep, RunFrame, goVars, ResumeGetWorkflow, ResumeGetTasks, ResumeRestore, Register,
         SaveWorkflow, SaveTask, StartWorkflow, BuildPlan, StageCancelled, StartStage,
         StageSucceeds, StageErrTolerated, StageFails, CompleteWorkflow, Return
<1>3. pc'[q] = pc[q] /\ result'[q] = result[q]
  BY <1>1 DEF RunStep, RunGoTo, RunReturns, ResumeGetWorkflow, ResumeGetTasks, ResumeRestore,
         Register, SaveWorkflow, SaveTask, StartWorkflow, BuildPlan, StageCancelled, StartStage,
         StageSucceeds, StageErrTolerated, StageFails, CompleteWorkflow, Return, NextStage
<1>4. stage'[q] = stage[q] /\ wfStatus'[q] = wfStatus[q]
  BY <1>1 DEF RunStep, ResumeGetWorkflow, ResumeGetTasks, ResumeRestore,
         Register, SaveWorkflow, SaveTask, StartWorkflow, BuildPlan, StageCancelled, StartStage,
         StageSucceeds, StageErrTolerated, StageFails, CompleteWorkflow, Return, NextStage
<1>5. task'[q] = task[q]
  BY <1>1 DEF RunStep, ResumeGetWorkflow, ResumeGetTasks, ResumeRestore,
         Register, SaveWorkflow, SaveTask, StartWorkflow, BuildPlan, StageCancelled, StartStage,
         StageSucceeds, StageErrTolerated, StageFails, CompleteWorkflow, Return
<1>6. tpc'[q] = tpc[q]
  BY <1>1 DEF RunStep, RunFrame, goVars, ResumeGetWorkflow, ResumeGetTasks, ResumeRestore,
         Register, SaveWorkflow, SaveTask, StartWorkflow, BuildPlan, StageCancelled, StartStage,
         StageSucceeds, StageErrTolerated, StageFails, CompleteWorkflow, Return
<1> QED
  BY <1>2, <1>3, <1>4, <1>5, <1>6 DEF SameRun
(* The step of a run up to its plan, and one that returns an error. *)
LEMMA RunOutside ==
  ASSUME TypeOK, BarrierInv, NEW r \in Run, RunOK(r),
         tpc'[r] = tpc[r], erred'[r] = erred[r], stage'[r] = stage[r],
         pc'[r] \notin {"stage", "join"},
         result'[r] = None \/ (result'[r] = "error" /\ pc'[r] \in {"return", "done"}),
         \/ pc[r] \notin {"stage", "join", "return", "done"}
         \/ pc'[r] = "return" /\ task'[r] = task[r] /\ pc[r] \in {"stage", "join"}
  PROVE  RunOK(r)'
<1>1. Level \in [Task -> Nat]
  BY PlanAssumption
<1>2. PlanWalked(r)' /\ StagesStarted(r)' /\ ResultMeant(r)'
  BY DEF RunOK, PlanWalked, StagesStarted, ResultMeant, None
<1>3. CASE pc[r] \notin {"stage", "join", "return", "done"}
  <2>1. (\A t \in Task : tpc'[r][t] = None) /\ stage'[r] = 0
    BY <1>3 DEF BarrierInv, NoneBeforePlan, RunOK, PlanWalked
  <2>2. Known(r)' \subseteq Task /\ \A t \in Task : ~ (Level[t] < stage'[r])
    BY <1>1, <2>1 DEF Known
  <2>3. StagesSettled(r)' /\ InputsKept(r)'
    BY <2>1, <2>2 DEF StagesSettled, InputsKept, Returned, Prepared, None
  <2> QED
    BY <1>2, <2>3 DEF RunOK
<1>4. CASE task'[r] = task[r]
  <2>1. /\ Known(r)' = Known(r) /\ Continues(r)' = Continues(r)
        /\ \A t \in Task : Settled(r, t)' = Settled(r, t) /\ HasInput(r, t)' = HasInput(r, t)
    BY <1>4 DEF Known, Continues, Settled, HasInput, Tolerates
  <2>2. Known(r) \subseteq Task
    BY DEF Known
  <2>3. StagesSettled(r)' /\ InputsKept(r)'
    BY <2>1, <2>2 DEF RunOK, StagesSettled, InputsKept
  <2> QED
    BY <1>2, <2>3 DEF RunOK
<1> QED
  BY <1>3, <1>4

LEMMA RunRunStep ==
  ASSUME BarrierInv, RunInv, NEW r \in Run, RunStep(r)
  PROVE  RunInv'
<1>1. TypeOK /\ RunOK(r)
  BY DEF BarrierInv, RunInv
<1>2. /\ pc \in [Run -> PC] /\ stage \in [Run -> Nat]
      /\ result \in [Run -> {None, "ok", "error"}] /\ wfStatus \in [Run -> WorkflowStatus]
      /\ task \in [Run -> [Task -> TaskRecord]] /\ tpc \in [Run -> [Task -> TaskPC]]
      /\ erred \in [Run -> SUBSET Task] /\ Level \in [Task -> Nat]
  BY <1>1, PlanAssumption DEF TypeOK
<1>3. \A q \in Run \ {r} : RunOK(q)'
  BY <1>1, RunElsewhere, SameRunKeeps DEF RunInv
<1>s. SUFFICES RunOK(r)'
  BY <1>3 DEF RunInv
<1>g. goVars' = goVars => tpc' = tpc /\ erred' = erred
  BY DEF goVars
<1>4. CASE \/ ResumeGetWorkflow(r) \/ ResumeGetTasks(r) \/ ResumeRestore(r) \/ Register(r)
           \/ SaveWorkflow(r) \/ StartWorkflow(r) \/ \E t \in Task : SaveTask(r, t)
  <2>1. /\ tpc' = tpc /\ erred' = erred /\ stage' = stage
        /\ pc[r] \notin {"stage", "join", "return", "done"}
    BY <1>4, <1>g DEF ResumeGetWorkflow, ResumeGetTasks, ResumeRestore, Register, SaveWorkflow,
                      StartWorkflow, SaveTask, RunFrame
  <2>2. result[r] = None
    BY <1>1, <2>1 DEF RunOK, ResultMeant
  <2>3. /\ pc'[r] \notin {"stage", "join"}
        /\ result'[r] = None \/ (result'[r] = "error" /\ pc'[r] \in {"return", "done"})
    BY <1>2, <1>4, <2>1, <2>2
       DEF ResumeGetWorkflow, ResumeGetTasks, ResumeRestore, Register, SaveWorkflow,
           StartWorkflow, SaveTask, RunGoTo, RunReturns
  <2> QED
    BY <1>1, <2>1, <2>3, RunOutside
<1>5. CASE BuildPlan(r)
  <2>1. /\ tpc' = tpc /\ erred' = erred /\ stage' = stage /\ task' = task
        /\ wfStatus' = wfStatus /\ pc[r] = "plan"
        /\ \/ pc'[r] = "return" /\ result'[r] = "error"
           \/ /\ pc'[r] = "stage" /\ result' = result
              /\ \A t \in Known(r) : Deps[t] \subseteq Known(r)
    BY <1>2, <1>5, <1>g DEF BuildPlan, RunFrame, RunGoTo, RunReturns
  <2>2. CASE pc'[r] = "return"
    BY <1>1, <2>1, <2>2, RunOutside
  <2>3. CASE pc'[r] = "stage"
    <3>1. /\ Known(r)' = Known(r) /\ Known(r) \subseteq Task
          /\ \A t \in Task : ~ (Level[t] < stage[r])
      BY <1>1, <1>2, <2>1 DEF Known, RunOK, PlanWalked
    <3>2. \A t \in Task : tpc'[r][t] = None
      BY <2>1 DEF BarrierInv, NoneBeforePlan
    <3>3. PlanWalked(r)' /\ StagesStarted(r)'
      BY <2>1, <2>3, <3>1, <3>2 DEF PlanWalked, StagesStarted
    <3>4. StagesSettled(r)' /\ InputsKept(r)'
      BY <2>1, <3>1, <3>2 DEF StagesSettled, InputsKept, Returned, Prepared, None
    <3>5. ResultMeant(r)'
      BY <1>1, <2>1, <2>3 DEF RunOK, ResultMeant, None
    <3> QED
      BY <3>3, <3>4, <3>5 DEF RunOK
  <2> QED
    BY <2>1, <2>2, <2>3
<1>6. CASE StageCancelled(r) \/ StageFails(r)
  <2>1. /\ tpc' = tpc /\ erred' = erred /\ stage' = stage /\ task' = task
        /\ pc[r] \in {"stage", "join"} /\ pc'[r] = "return" /\ result'[r] = "error"
    BY <1>2, <1>6, <1>g DEF StageCancelled, StageFails, Joined, RunFrame, RunGoTo, RunReturns
  <2> QED
    BY <1>1, <2>1, RunOutside
(* The steps that change neither the tasks nor what is settled. *)
<1>t. ASSUME task' = task
      PROVE  /\ Known(r)' = Known(r) /\ Continues(r)' = Continues(r)
             /\ \A t \in Task : Settled(r, t)' = Settled(r, t)
             /\ \A t \in Task : HasInput(r, t)' = HasInput(r, t)
             /\ Known(r) \subseteq Task
  BY <1>t DEF Known, Continues, Settled, HasInput, Tolerates
<1>7. CASE StartStage(r)
  <2>1. /\ pc[r] = "stage" /\ pc'[r] = "join" /\ task' = task /\ stage' = stage
        /\ result' = result /\ erred' = erred
        /\ \A t \in Task : tpc'[r][t] =
             IF t \in StageTasks(r) /\ task[r][t].status # "COMPLETED"
             THEN "acquire" ELSE tpc[r][t]
    BY <1>2, <1>7 DEF StartStage, RunGoTo
  <2>2. StageTasks(r)' = StageTasks(r) /\ StageTasks(r) \subseteq Task
    BY <2>1 DEF StageTasks, Known
  <2>3. PlanWalked(r)'
    BY <1>1, <1>t, <2>1 DEF RunOK, PlanWalked
  <2>4. StagesStarted(r)'
    BY <2>1, <2>2 DEF StagesStarted, None
  <2>5. StagesSettled(r)'
    BY <1>1, <1>t, <2>1 DEF RunOK, StagesSettled, Returned
  <2>6. InputsKept(r)'
    BY <1>1, <1>t, <2>1 DEF RunOK, InputsKept, Prepared
  <2>7. ResultMeant(r)'
    BY <1>1, <2>1 DEF RunOK, ResultMeant, None
  <2> QED
    BY <2>3, <2>4, <2>5, <2>6, <2>7 DEF RunOK
<1>8. CASE StageSucceeds(r) \/ StageErrTolerated(r)
  <2>1. /\ tpc' = tpc /\ erred' = erred /\ task' = task /\ result' = result
        /\ pc[r] = "join" /\ pc'[r] = "stage" /\ stage'[r] = stage[r] + 1
        /\ Joined(r) /\ (~ StageErr(r) \/ Continues(r))
    BY <1>2, <1>8, <1>g DEF StageSucceeds, StageErrTolerated, Joined, NextStage, RunFrame, RunGoTo
  <2>2. PlanWalked(r)'
    BY <1>1, <1>t, <2>1 DEF RunOK, PlanWalked
  <2>3. StagesStarted(r)'
    <3>1. \A t \in Task : tpc[r][t] # None => Level[t] <= stage[r]
      BY DEF BarrierInv, StartedInOrder
    <3> QED
      BY <1>2, <2>1, <3>1 DEF StagesStarted
  <2>4. StagesSettled(r)'
    <3>1. SUFFICES ASSUME ~ Continues(r), NEW t \in Known(r), Level[t] < stage[r] + 1
                   PROVE  Settled(r, t)
      BY <1>1, <1>t, <2>1 DEF RunOK, StagesSettled
    <3>2. CASE Level[t] < stage[r]
      BY <1>1, <3>1, <3>2 DEF RunOK, StagesSettled
    <3>3. CASE Level[t] = stage[r]
      <4>1. t \in StageTasks(r) /\ t \in Task /\ t \notin erred[r]
        BY <2>1, <3>1, <3>3 DEF StageTasks, StageErr, Known
      <4>2. tpc[r][t] \in {None, "finished"}
        BY <2>1, <4>1 DEF Joined
      <4>3. CASE tpc[r][t] = None
        BY <1>1, <2>1, <4>1, <4>3 DEF RunOK, StagesStarted, Settled
      <4>4. CASE tpc[r][t] = "finished"
        BY <1>1, <4>1, <4>4 DEF RunOK, StagesSettled, Returned
      <4> QED
        BY <4>2, <4>3, <4>4
    <3>4. Level[t] \in Nat /\ stage[r] \in Nat
      BY <1>2, <3>1 DEF Known
    <3> QED
      BY <3>1, <3>2, <3>3, <3>4
  <2>5. InputsKept(r)'
    BY <1>1, <1>t, <2>1 DEF RunOK, InputsKept
  <2>6. ResultMeant(r)'
    BY <1>1, <2>1 DEF RunOK, ResultMeant, None
  <2> QED
    BY <2>2, <2>3, <2>4, <2>5, <2>6 DEF RunOK
<1>9. CASE CompleteWorkflow(r)
  <2>1. /\ tpc' = tpc /\ erred' = erred /\ task' = task /\ stage' = stage
        /\ pc[r] = "stage" /\ pc'[r] = "return" /\ wfStatus'[r] = "COMPLETED"
        /\ StageTasks(r) = {}
    BY <1>2, <1>9, <1>g DEF CompleteWorkflow, RunFrame, RunGoTo, RunReturns
  <2>2. \A t \in Known(r) : Level[t] < stage[r]
    BY <1>1, <2>1, NothingBeyond DEF RunOK, PlanWalked
  <2>3. ~ Continues(r) => \A t \in Known(r) : Settled(r, t)
    BY <1>1, <2>2 DEF RunOK, StagesSettled
  <2>4. PlanWalked(r)' /\ StagesStarted(r)'
    BY <2>1 DEF PlanWalked, StagesStarted
  <2>5. StagesSettled(r)' /\ InputsKept(r)'
    BY <1>1, <1>t, <2>1 DEF RunOK, StagesSettled, InputsKept
  <2>6. ResultMeant(r)'
    BY <1>t, <2>1, <2>3 DEF ResultMeant
  <2> QED
    BY <2>4, <2>5, <2>6 DEF RunOK
<1>10. CASE Return(r)
  <2>1. /\ tpc' = tpc /\ erred' = erred /\ task' = task /\ stage' = stage
        /\ result' = result /\ wfStatus' = wfStatus /\ pc[r] = "return" /\ pc'[r] = "done"
    BY <1>2, <1>10, <1>g DEF Return, RunGoTo
  <2>2. PlanWalked(r)' /\ StagesStarted(r)'
    BY <2>1 DEF PlanWalked, StagesStarted
  <2>3. StagesSettled(r)' /\ InputsKept(r)'
    BY <1>1, <1>t, <2>1 DEF RunOK, StagesSettled, InputsKept
  <2>4. ResultMeant(r)'
    BY <1>1, <1>t, <2>1 DEF RunOK, ResultMeant
  <2> QED
    BY <2>2, <2>3, <2>4 DEF RunOK
<1> QED
  BY <1>4, <1>5, <1>6, <1>7, <1>8, <1>9, <1>10 DEF RunStep

LEMMA RunNext == BarrierInv /\ RunInv /\ [Next]_vars => RunInv'
<1> SUFFICES ASSUME BarrierInv, RunInv, [Next]_vars PROVE RunInv'
  OBVIOUS
<1>1. CASE EnvStep \/ UNCHANGED vars
  <2>1. UNCHANGED <<pc, stage, result, wfStatus, task, tpc, erred>>
    BY <1>1 DEF EnvStep, Abort, Expire, FindStuck, CancelWorkflow, ReadForApproval,
                WriteApproval, vars, runVars, goVars
  <2>2. \A q \in Run : SameRun(q)
    BY <2>1 DEF SameRun
  <2> QED
    BY <2>2, SameRunKeeps DEF RunInv
<1> QED
  BY <1>1, RunTaskStep, RunRunStep DEF Next

LEMMA RunAlways == Spec => [](BarrierInv /\ RunInv)
<1>1. BarrierInv /\ RunInv /\ [Next]_vars => (BarrierInv /\ RunInv)'
  BY BarrierNext, RunNext
<1>2. Init => BarrierInv /\ RunInv
  BY BarrierInit, RunInit
<1> QED
  BY <1>1, <1>2, PTL DEF Spec
----------------------------------------------------------------------------
(* A handler of a fail-fast run never starts before the results it reads   *)
(* are in its input, the run a Resume or not (executor.go:405-428).        *)
THEOREM HandlersHaveInputs == Spec => []InputsReady
<1>1. RunInv => InputsReady
  BY DEF RunInv, RunOK, InputsKept, Prepared, HasInput, InputsReady
<1> QED
  BY <1>1, RunAlways, PTL

(* nil from Execute or Resume of a fail-fast workflow means that every     *)
(* task the run knows is COMPLETED, or FAILED and tolerated.               *)
THEOREM SuccessIsMeant == Spec => []SuccessMeansSettled
<1>1. RunInv => SuccessMeansSettled
  BY DEF RunInv, RunOK, ResultMeant, SuccessMeansSettled
<1> QED
  BY <1>1, RunAlways, PTL
=============================================================================
