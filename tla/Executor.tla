------------------------------ MODULE Executor ------------------------------
(***************************************************************************)
(* The workflow executor of internal/executor/executor.go with the store   *)
(* it persists to and the supervisor and approvers that act on the same    *)
(* records.  A run is one call of Execute or Resume; its goroutine walks   *)
(* the stages of the plan and starts one goroutine per task of a stage.    *)
(* Steps are cut at the operations other goroutines can observe: a store   *)
(* call, the limiter, a context, the wait group, workflowCancels.          *)
(* Events, artifacts, task outputs and clocks are abstracted: an output is *)
(* present exactly when its task is COMPLETED.                             *)
(***************************************************************************)
EXTENDS Naturals, FiniteSets

CONSTANTS
  Run,                \* the calls of Execute and Resume
  Workflow,           \* workflow ids
  WorkflowOf,         \* the workflow each run executes
  Task,               \* task ids; every workflow has these tasks
  Deps,               \* dependencies of each task
  Level,              \* stage the planner puts each task in
  Resumed,            \* the runs that are calls of Resume
  Rejected,           \* workflows whose graph the planner refuses
  NeedsApproval,      \* tasks with RequiresApproval
  HasTimeout,         \* tasks with Timeout > 0
  Unroutable,         \* tasks without AgentID for which the router errs
  NoWorker,           \* tasks without agent nor registered worker
  Tolerated,          \* tasks whose policy is CONTINUE_ON_FAILURE
  ContinueOnFailure,  \* whether that is the policy of the workflows
  MaxRetries,         \* RetryPolicy.MaxRetries of each task
  Limit,              \* capacity of the concurrency limiter
  Abortable,          \* runs with a Timeout, or whose caller may cancel
  Vetoing,            \* tasks an interceptor's BeforeTask may refuse
  Faults,             \* store operations that may return an error
  Approver            \* concurrent approval requests

(* What TopoPlanner establishes of a plan (DependenciesFirst and           *)
(* EarliestStage), with the ranges of the other parameters.                *)
ASSUME PlanAssumption ==
  /\ Deps \in [Task -> SUBSET Task]
  /\ Level \in [Task -> Nat]
  /\ \A t \in Task : \A d \in Deps[t] : Level[d] < Level[t]
  /\ \A t \in Task : Level[t] > 0 => \E d \in Deps[t] : Level[d] = Level[t] - 1

ASSUME ConfigAssumption ==
  /\ WorkflowOf \in [Run -> Workflow]
  /\ MaxRetries \in [Task -> Nat]
  /\ Limit \in Nat
  /\ ContinueOnFailure \in BOOLEAN

None == "none"
ASSUME NoneAssumption == None \notin Run

Absent == "ABSENT"   \* no such record in the store
TaskStatus == {"PENDING", "RUNNING", "WAITING_FOR_APPROVAL", "COMPLETED", "FAILED"}
WorkflowStatus == {"PENDING", "RUNNING", "COMPLETED", "FAILED"}
TaskState == [status : TaskStatus, attempt : Nat, input : SUBSET Task]
NewTask == [status |-> "PENDING", attempt |-> 0, input |-> {}]
NoTask == [status |-> Absent, attempt |-> 0, input |-> {}]

VARIABLES
  pc,           \* where the goroutine of each run is
  stage,        \* index of the stage a run is at
  saved,        \* tasks a run has saved before starting
  result,       \* what a run returns: "none" yet, "ok" or "error"
  wfStatus,     \* workflow.Status in the memory of each run
  task,         \* the tasks in the memory of each run
  cancelled,    \* runs whose workflow context is done
  expired,      \* tasks of each run whose own deadline has passed
  tpc,          \* where each task goroutine is
  attempt,      \* loop variable of executeWithRetry
  erred,        \* tasks of each run for which executeTask returns an error
  holders,      \* task goroutines that hold a slot of the limiter
  wfRec,        \* store: status of the workflow record
  taskRec,      \* store: the task records
  checkpoint,   \* store: the latest checkpoint of each workflow
  cancelFunc,   \* workflowCancels: the run whose cancel function is there
  stuck,        \* workflows the supervisor has found stuck, about to cancel
  tickets       \* approval requests that have read the record of a task

runVars == <<pc, stage, saved, result, wfStatus>>
goVars == <<tpc, attempt, erred, holders>>
ctxVars == <<cancelled, expired, cancelFunc>>
storeVars == <<wfRec, taskRec, checkpoint>>
envVars == <<stuck, tickets>>
vars == <<runVars, task, goVars, ctxVars, storeVars, envVars>>

NoCheckpoint == [status |-> Absent, tasks |-> [t \in Task |-> NoTask]]

Init ==
  /\ pc = [r \in Run |-> "idle"]
  /\ stage = [r \in Run |-> 0]
  /\ saved = [r \in Run |-> {}]
  /\ result = [r \in Run |-> None]
  /\ wfStatus = [r \in Run |-> "PENDING"]
  /\ task = [r \in Run |-> [t \in Task |-> NewTask]]
  /\ cancelled = {}
  /\ expired = [r \in Run |-> {}]
  /\ tpc = [r \in Run |-> [t \in Task |-> None]]
  /\ attempt = [r \in Run |-> [t \in Task |-> 0]]
  /\ erred = [r \in Run |-> {}]
  /\ holders = {}
  /\ wfRec = [w \in Workflow |-> Absent]
  /\ taskRec = [w \in Workflow |-> [t \in Task |-> NoTask]]
  /\ checkpoint = [w \in Workflow |-> NoCheckpoint]
  /\ cancelFunc = [w \in Workflow |-> None]
  /\ stuck = {}
  /\ tickets = {}
----------------------------------------------------------------------------
(* Mutant of Done: a task watches its own deadline only. *)
OwnDeadline(r, t) == t \in expired[r]

(* The contexts: workflowCtx of a run, and taskCtx derived from it. *)
Done(r, t) == r \in cancelled \/ t \in expired[r]

(* RecordToWorkflow drops the failure policies: a resumed run has neither. *)
Continues(r) == ContinueOnFailure /\ r \notin Resumed
Tolerates(r, t) == t \in Tolerated /\ r \notin Resumed

(* The tasks the run knows: RecordToWorkflow only builds those it is given. *)
Known(r) == {t \in Task : task[r][t].status # Absent}

(* Mutant of StageTasks: a stage is started together with the next. *)
StageAndNext(r) == {t \in Known(r) : Level[t] \in stage[r]..(stage[r] + 1)}

StageTasks(r) == {t \in Known(r) : Level[t] = stage[r]}

(* store.UpdateTask with the task in memory already changed to s: the      *)
(* record follows, or the call errs and the record stays.                  *)
UpdateTask(r, t, s) ==
  /\ task' = [task EXCEPT ![r][t] = s]
  /\ taskRec' = [taskRec EXCEPT ![WorkflowOf[r]][t] = s]

UpdateTaskErr(r, t, s) ==
  /\ "UpdateTask" \in Faults
  /\ task' = [task EXCEPT ![r][t] = s]
  /\ UNCHANGED taskRec

(* "_ = store.UpdateTask(...)": the error is ignored. *)
TryUpdateTask(r, t, s) == UpdateTask(r, t, s) \/ UpdateTaskErr(r, t, s)

GoTo(r, t, l) == tpc' = [tpc EXCEPT ![r][t] = l]

(* executeTask returns; the deferred limiter.Release comes next. *)
TaskReturnsNil(r, t) == GoTo(r, t, "release") /\ UNCHANGED erred
TaskReturnsErr(r, t) ==
  /\ GoTo(r, t, "release")
  /\ erred' = [erred EXCEPT ![r] = @ \cup {t}]

TaskFrame == UNCHANGED <<runVars, ctxVars, envVars, wfRec, checkpoint>>
----------------------------------------------------------------------------
(* The goroutine of a task: executeTask and executeWithRetry.              *)

(* limiter.Acquire: a select between the context and a free slot. *)
Acquire(r, t) ==
  /\ tpc[r][t] = "acquire"
  /\ Cardinality(holders) < Limit
  /\ holders' = holders \cup {<<r, t>>}
  /\ GoTo(r, t, "prepare")
  /\ UNCHANGED <<task, taskRec, attempt, erred>>
  /\ TaskFrame

AcquireCancelled(r, t) ==
  /\ tpc[r][t] = "acquire"
  /\ Done(r, t)
  /\ GoTo(r, t, "report")
  /\ erred' = [erred EXCEPT ![r] = @ \cup {t}]
  /\ UNCHANGED <<task, taskRec, attempt, holders>>
  /\ TaskFrame

(* The task with the outputs of its dependencies in its input; an empty    *)
(* dep_outputs is not set.                                                 *)
Injected(r, t) ==
  LET outputs == {d \in Deps[t] : task[r][d].status = "COMPLETED"}
  IN  IF outputs = {} THEN task[r][t] ELSE [task[r][t] EXCEPT !.input = outputs]

(* No agent can be chosen: executeTask returns without failing the task. *)
RouteFails(r, t) ==
  /\ tpc[r][t] = "prepare"
  /\ t \in Unroutable
  /\ task' = [task EXCEPT ![r][t] = Injected(r, t)]
  /\ TaskReturnsErr(r, t)
  /\ UNCHANGED <<taskRec, attempt, holders>>
  /\ TaskFrame

WorkerMissing(r, t) ==
  /\ tpc[r][t] = "prepare"
  /\ t \in NoWorker \ Unroutable
  /\ TryUpdateTask(r, t, [Injected(r, t) EXCEPT !.status = "FAILED"])
  /\ TaskReturnsErr(r, t)
  /\ UNCHANGED <<attempt, holders>>
  /\ TaskFrame

Runnable(r, t) == tpc[r][t] = "prepare" /\ t \notin Unroutable \cup NoWorker

StartTask(r, t) ==
  /\ Runnable(r, t)
  /\ task[r][t].status = "PENDING"
  /\ LET started == [Injected(r, t) EXCEPT !.status = "RUNNING"]
     IN  \/ /\ UpdateTask(r, t, started)
            /\ GoTo(r, t, IF t \in NeedsApproval THEN "approval" ELSE "gate")
            /\ UNCHANGED erred
         \/ /\ UpdateTaskErr(r, t, started)
            /\ TaskReturnsErr(r, t)
  /\ UNCHANGED <<attempt, holders>>
  /\ TaskFrame

(* task.Start refuses a task a resumed run found FAILED or waiting. *)
StartRefused(r, t) ==
  /\ Runnable(r, t)
  /\ task[r][t].status # "PENDING"
  /\ task' = [task EXCEPT ![r][t] = Injected(r, t)]
  /\ TaskReturnsErr(r, t)
  /\ UNCHANGED <<taskRec, attempt, holders>>
  /\ TaskFrame

(* Mutant of WaitForApproval: the result of UpdateTask is ignored. *)
WaitUnchecked(r, t) ==
  /\ tpc[r][t] = "approval"
  /\ TryUpdateTask(r, t, [task[r][t] EXCEPT !.status = "WAITING_FOR_APPROVAL"])
  /\ GoTo(r, t, "waiting")
  /\ UNCHANGED <<attempt, erred, holders>>
  /\ TaskFrame

WaitForApproval(r, t) ==
  /\ tpc[r][t] = "approval"
  /\ LET waiting == [task[r][t] EXCEPT !.status = "WAITING_FOR_APPROVAL"]
     IN  \/ /\ UpdateTask(r, t, waiting)
            /\ GoTo(r, t, "waiting")
            /\ UNCHANGED erred
         \/ /\ UpdateTaskErr(r, t, waiting)
            /\ TaskReturnsErr(r, t)
  /\ UNCHANGED <<attempt, holders>>
  /\ TaskFrame

(* The poll loop: it leaves on a RUNNING record, whoever wrote it, and     *)
(* goes round on any other status or a failed read.                        *)
SeeApproval(r, t) ==
  /\ tpc[r][t] = "waiting"
  /\ taskRec[WorkflowOf[r]][t].status = "RUNNING"
  /\ task' = [task EXCEPT ![r][t].status = "RUNNING"]
  /\ GoTo(r, t, "gate")
  /\ UNCHANGED <<taskRec, attempt, erred, holders>>
  /\ TaskFrame

(* ctx.Done in the poll loop: the task is not failed. *)
ApprovalCancelled(r, t) ==
  /\ tpc[r][t] = "waiting"
  /\ Done(r, t)
  /\ TaskReturnsErr(r, t)
  /\ UNCHANGED <<task, taskRec, attempt, holders>>
  /\ TaskFrame

(* Mutant of InterceptorRefuses: it returns before the deferred Release. *)
InterceptorLeaks(r, t) ==
  /\ tpc[r][t] = "gate"
  /\ t \in Vetoing
  /\ GoTo(r, t, "report")
  /\ erred' = [erred EXCEPT ![r] = @ \cup {t}]
  /\ UNCHANGED <<task, taskRec, attempt, holders>>
  /\ TaskFrame

(* An interceptor's BeforeTask errs: the task is not failed. *)
InterceptorRefuses(r, t) ==
  /\ tpc[r][t] = "gate"
  /\ t \in Vetoing
  /\ TaskReturnsErr(r, t)
  /\ UNCHANGED <<task, taskRec, attempt, holders>>
  /\ TaskFrame

(* Mutant of BeginAttempt: the retry loop does not count. *)
BeginUncounted(r, t) ==
  /\ tpc[r][t] \in {"gate", "backoff"}
  /\ TryUpdateTask(r, t, [task[r][t] EXCEPT !.attempt = attempt[r][t] + 1])
  /\ GoTo(r, t, "running")
  /\ UNCHANGED <<attempt, erred, holders>>
  /\ TaskFrame

(* The next turn of the retry loop, up to the call of the handler: the     *)
(* first one, or the one after the delay.                                  *)
BeginAttempt(r, t) ==
  /\ tpc[r][t] \in {"gate", "backoff"}
  /\ attempt' = [attempt EXCEPT ![r][t] = @ + 1]
  /\ TryUpdateTask(r, t, [task[r][t] EXCEPT !.attempt = attempt[r][t] + 1])
  /\ GoTo(r, t, "running")
  /\ UNCHANGED <<erred, holders>>
  /\ TaskFrame

(* Mutant of HandlerSucceeds: the result of the last UpdateTask is ignored. *)
SuccessUnchecked(r, t) ==
  /\ tpc[r][t] = "running"
  /\ TryUpdateTask(r, t, [task[r][t] EXCEPT !.status = "COMPLETED"])
  /\ TaskReturnsNil(r, t)
  /\ UNCHANGED <<attempt, holders>>
  /\ TaskFrame

HandlerSucceeds(r, t) ==
  /\ tpc[r][t] = "running"
  /\ LET completed == [task[r][t] EXCEPT !.status = "COMPLETED"]
     IN  \/ UpdateTask(r, t, completed) /\ TaskReturnsNil(r, t)
         \/ UpdateTaskErr(r, t, completed) /\ TaskReturnsErr(r, t)
  /\ UNCHANGED <<attempt, holders>>
  /\ TaskFrame

HandlerErrs(r, t) ==
  /\ tpc[r][t] = "running"
  /\ attempt[r][t] <= MaxRetries[t]
  /\ GoTo(r, t, "backoff")
  /\ UNCHANGED <<task, taskRec, attempt, erred, holders>>
  /\ TaskFrame

(* The last attempt failed, or the context ended during a delay: the       *)
(* failure is recorded and the task's own policy decides what to return.   *)
FailTask(r, t) ==
  /\ \/ tpc[r][t] = "running" /\ attempt[r][t] > MaxRetries[t]
     \/ tpc[r][t] = "backoff" /\ Done(r, t)
  /\ TryUpdateTask(r, t, [task[r][t] EXCEPT !.status = "FAILED"])
  /\ IF Tolerates(r, t) THEN TaskReturnsNil(r, t) ELSE TaskReturnsErr(r, t)
  /\ UNCHANGED <<attempt, holders>>
  /\ TaskFrame

Release(r, t) ==
  /\ tpc[r][t] = "release"
  /\ holders' = holders \ {<<r, t>>}
  /\ GoTo(r, t, "report")
  /\ UNCHANGED <<task, taskRec, attempt, erred>>
  /\ TaskFrame

(* Mutant of Report: an error cancels the run whatever its policy. *)
ReportAndCancel(r, t) ==
  /\ tpc[r][t] = "report"
  /\ cancelled' = IF t \in erred[r] THEN cancelled \cup {r} ELSE cancelled
  /\ GoTo(r, t, "finished")
  /\ UNCHANGED <<task, taskRec, attempt, erred, holders, expired, cancelFunc>>
  /\ UNCHANGED <<runVars, envVars, wfRec, checkpoint>>

(* errChan <- err, the fail-fast workflowCancel, wg.Done. *)
Report(r, t) ==
  /\ tpc[r][t] = "report"
  /\ cancelled' = IF t \in erred[r] /\ ~ Continues(r)
                  THEN cancelled \cup {r} ELSE cancelled
  /\ GoTo(r, t, "finished")
  /\ UNCHANGED <<task, taskRec, attempt, erred, holders, expired, cancelFunc>>
  /\ UNCHANGED <<runVars, envVars, wfRec, checkpoint>>

TaskStep(r, t) ==
  \/ Acquire(r, t)
  \/ AcquireCancelled(r, t)
  \/ RouteFails(r, t)
  \/ WorkerMissing(r, t)
  \/ StartTask(r, t)
  \/ StartRefused(r, t)
  \/ WaitForApproval(r, t)
  \/ SeeApproval(r, t)
  \/ ApprovalCancelled(r, t)
  \/ InterceptorRefuses(r, t)
  \/ BeginAttempt(r, t)
  \/ HandlerSucceeds(r, t)
  \/ HandlerErrs(r, t)
  \/ FailTask(r, t)
  \/ Release(r, t)
  \/ Report(r, t)
----------------------------------------------------------------------------
(* The goroutine of a run: Resume, then execute.                           *)

RunGoTo(r, l) == pc' = [pc EXCEPT ![r] = l]
RunReturns(r, res) ==
  /\ RunGoTo(r, "return")
  /\ result' = [result EXCEPT ![r] = res]

RunFrame == UNCHANGED <<goVars, ctxVars, envVars>>

(* Mutant of ResumeGetWorkflow: a missing record is used like any other. *)
ResumeUnchecked(r) ==
  /\ r \in Resumed
  /\ pc[r] = "idle"
  /\ wfStatus' = [wfStatus EXCEPT ![r] = wfRec[WorkflowOf[r]]]
  /\ RunGoTo(r, "getTasks")
  /\ UNCHANGED <<result, stage, saved, task, storeVars>>
  /\ RunFrame

(* Resume reads the workflow record, its task records and its checkpoint   *)
(* in three store calls, then calls Execute on what it has read.           *)
ResumeGetWorkflow(r) ==
  LET w == WorkflowOf[r] IN
  /\ r \in Resumed
  /\ pc[r] = "idle"
  /\ \/ /\ wfRec[w] # Absent
        /\ wfStatus' = [wfStatus EXCEPT ![r] = wfRec[w]]
        /\ RunGoTo(r, "getTasks")
        /\ UNCHANGED result
     \/ /\ wfRec[w] = Absent \/ "GetWorkflow" \in Faults
        /\ RunGoTo(r, "done")
        /\ result' = [result EXCEPT ![r] = "error"]
        /\ UNCHANGED wfStatus
  /\ UNCHANGED <<stage, saved, task, storeVars>>
  /\ RunFrame

ResumeGetTasks(r) ==
  /\ pc[r] = "getTasks"
  /\ \/ /\ task' = [task EXCEPT ![r] = taskRec[WorkflowOf[r]]]
        /\ RunGoTo(r, "getCheckpoint")
        /\ UNCHANGED result
     \/ /\ "GetWorkflowTasks" \in Faults
        /\ RunGoTo(r, "done")
        /\ result' = [result EXCEPT ![r] = "error"]
        /\ UNCHANGED task
  /\ UNCHANGED <<stage, saved, wfStatus, storeVars>>
  /\ RunFrame

(* RestoreFromCheckpoint: RUNNING tasks go back to PENDING, the workflow   *)
(* takes the status it had in the checkpoint.  The input is not restored.  *)
Restored(s, cp) ==
  [s EXCEPT !.status = IF cp.status = "RUNNING" THEN "PENDING" ELSE cp.status,
            !.attempt = cp.attempt]

ResumeRestore(r) ==
  LET cp == checkpoint[WorkflowOf[r]] IN
  /\ pc[r] = "getCheckpoint"
  /\ \/ /\ cp.status # Absent
        /\ task' = [task EXCEPT ![r] = [t \in Task |->
             IF t \in Known(r) /\ cp.tasks[t].status # Absent
             THEN Restored(task[r][t], cp.tasks[t]) ELSE task[r][t]]]
        /\ wfStatus' = [wfStatus EXCEPT ![r] = cp.status]
     \/ /\ cp.status = Absent \/ "GetLatestCheckpoint" \in Faults
        /\ UNCHANGED <<task, wfStatus>>
  /\ RunGoTo(r, "register")
  /\ UNCHANGED <<stage, saved, result, storeVars>>
  /\ RunFrame

(* Execute: the run's context is made and its cancel function registered   *)
(* under the workflow id, in place of whatever was there.                  *)
Register(r) ==
  /\ \/ pc[r] = "idle" /\ r \notin Resumed
     \/ pc[r] = "register"
  /\ cancelFunc' = [cancelFunc EXCEPT ![WorkflowOf[r]] = r]
  /\ RunGoTo(r, "saveWorkflow")
  /\ UNCHANGED <<stage, saved, result, wfStatus, task, storeVars>>
  /\ UNCHANGED <<goVars, envVars, cancelled, expired>>

SaveWorkflow(r) ==
  /\ pc[r] = "saveWorkflow"
  /\ \/ /\ wfRec' = [wfRec EXCEPT ![WorkflowOf[r]] = wfStatus[r]]
        /\ RunGoTo(r, "saveTasks")
        /\ UNCHANGED result
     \/ "SaveWorkflow" \in Faults /\ RunReturns(r, "error") /\ UNCHANGED wfRec
  /\ UNCHANGED <<stage, saved, wfStatus, task, taskRec, checkpoint>>
  /\ RunFrame

(* One turn of the loop over workflow.GetTasks(), a Go map. *)
SaveTask(r, t) ==
  /\ pc[r] = "saveTasks"
  /\ t \in Known(r) \ saved[r]
  /\ \/ /\ taskRec' = [taskRec EXCEPT ![WorkflowOf[r]][t] = task[r][t]]
        /\ saved' = [saved EXCEPT ![r] = @ \cup {t}]
        /\ UNCHANGED <<pc, result>>
     \/ "SaveTask" \in Faults /\ RunReturns(r, "error") /\ UNCHANGED <<taskRec, saved>>
  /\ UNCHANGED <<stage, wfStatus, task, wfRec, checkpoint>>
  /\ RunFrame

(* workflow.Start, refused unless the workflow is PENDING; the RUNNING     *)
(* record.                                                                 *)
StartWorkflow(r) ==
  /\ pc[r] = "saveTasks"
  /\ saved[r] = Known(r)
  /\ IF wfStatus[r] # "PENDING"
     THEN RunReturns(r, "error") /\ UNCHANGED <<wfStatus, wfRec>>
     ELSE /\ wfStatus' = [wfStatus EXCEPT ![r] = "RUNNING"]
          /\ \/ /\ wfRec' = [wfRec EXCEPT ![WorkflowOf[r]] = "RUNNING"]
                /\ RunGoTo(r, "plan")
                /\ UNCHANGED result
             \/ /\ "UpdateWorkflow" \in Faults
                /\ RunReturns(r, "error")
                /\ UNCHANGED wfRec
  /\ UNCHANGED <<stage, saved, task, taskRec, checkpoint>>
  /\ RunFrame

(* BuildExecutionPlan refuses a cyclic graph and unknown dependencies; its *)
(* error leaves the workflow RUNNING.                                      *)
BuildPlan(r) ==
  /\ pc[r] = "plan"
  /\ IF WorkflowOf[r] \in Rejected \/ ~ \A t \in Known(r) : Deps[t] \subseteq Known(r)
     THEN RunReturns(r, "error")
     ELSE RunGoTo(r, "stage") /\ UNCHANGED result
  /\ UNCHANGED <<stage, saved, wfStatus, task, storeVars>>
  /\ RunFrame

(* The check between stages: a cancelled run returns, still RUNNING. *)
StageCancelled(r) ==
  /\ pc[r] = "stage"
  /\ StageTasks(r) # {}
  /\ r \in cancelled
  /\ RunReturns(r, "error")
  /\ UNCHANGED <<stage, saved, wfStatus, task, storeVars>>
  /\ RunFrame

(* One goroutine for each task of the stage that is not COMPLETED. *)
StartStage(r) ==
  /\ pc[r] = "stage"
  /\ StageTasks(r) # {}
  /\ r \notin cancelled
  /\ tpc' = [tpc EXCEPT ![r] = [t \in Task |->
       IF t \in StageTasks(r) /\ task[r][t].status # "COMPLETED"
       THEN "acquire" ELSE tpc[r][t]]]
  /\ RunGoTo(r, "join")
  /\ UNCHANGED <<stage, saved, result, wfStatus, task, storeVars>>
  /\ UNCHANGED <<attempt, erred, holders, ctxVars, envVars>>

(* Mutant of Joined: the stage is left at the first error. *)
JoinedOnError(r) ==
  /\ pc[r] = "join"
  /\ \/ \E t \in erred[r] : tpc[r][t] = "finished"
     \/ \A t \in StageTasks(r) : tpc[r][t] \in {None, "finished"}

(* wg.Wait has returned. *)
Joined(r) == pc[r] = "join" /\ \A t \in StageTasks(r) : tpc[r][t] \in {None, "finished"}
(* Mutant of StageErr: it asks for FAILED tasks instead of errors. *)
StageHasFailed(r) == \E t \in StageTasks(r) \cap erred[r] : task[r][t].status = "FAILED"

StageErr(r) == StageTasks(r) \cap erred[r] # {}
NextStage(r) == RunGoTo(r, "stage") /\ stage' = [stage EXCEPT ![r] = @ + 1]

StageSucceeds(r) ==
  /\ Joined(r)
  /\ ~ StageErr(r)
  /\ \/ checkpoint' = [checkpoint EXCEPT ![WorkflowOf[r]] =
                         [status |-> wfStatus[r], tasks |-> task[r]]]
     \/ "SaveCheckpoint" \in Faults /\ UNCHANGED checkpoint
  /\ NextStage(r)
  /\ UNCHANGED <<saved, result, wfStatus, task, wfRec, taskRec>>
  /\ RunFrame

StageErrTolerated(r) ==
  /\ Joined(r)
  /\ StageErr(r)
  /\ Continues(r)
  /\ NextStage(r)
  /\ UNCHANGED <<saved, result, wfStatus, task, storeVars>>
  /\ RunFrame

StageFails(r) ==
  /\ Joined(r)
  /\ StageErr(r)
  /\ ~ Continues(r)
  /\ wfStatus' = [wfStatus EXCEPT ![r] = "FAILED"]
  /\ \/ wfRec' = [wfRec EXCEPT ![WorkflowOf[r]] = "FAILED"]
     \/ "UpdateWorkflow" \in Faults /\ UNCHANGED wfRec
  /\ RunReturns(r, "error")
  /\ UNCHANGED <<stage, saved, task, taskRec, checkpoint>>
  /\ RunFrame

(* Mutant of CompleteWorkflow: it ends with "return ctx.Err()". *)
CompleteUnlessDone(r) ==
  /\ pc[r] = "stage"
  /\ StageTasks(r) = {}
  /\ wfStatus' = [wfStatus EXCEPT ![r] = "COMPLETED"]
  /\ wfRec' = [wfRec EXCEPT ![WorkflowOf[r]] = "COMPLETED"]
  /\ RunReturns(r, IF r \in cancelled THEN "error" ELSE "ok")
  /\ UNCHANGED <<stage, saved, task, taskRec, checkpoint>>
  /\ RunFrame

CompleteWorkflow(r) ==
  /\ pc[r] = "stage"
  /\ StageTasks(r) = {}
  /\ wfStatus' = [wfStatus EXCEPT ![r] = "COMPLETED"]
  /\ \/ /\ wfRec' = [wfRec EXCEPT ![WorkflowOf[r]] = "COMPLETED"]
        /\ RunReturns(r, "ok")
     \/ /\ "UpdateWorkflow" \in Faults
        /\ RunReturns(r, "error")
        /\ UNCHANGED wfRec
  /\ UNCHANGED <<stage, saved, task, taskRec, checkpoint>>
  /\ RunFrame

(* The deferred delete from workflowCancels, whichever run's function is   *)
(* there, and the deferred workflowCancel.                                 *)
Return(r) ==
  /\ pc[r] = "return"
  /\ cancelFunc' = [cancelFunc EXCEPT ![WorkflowOf[r]] = None]
  /\ cancelled' = cancelled \cup {r}
  /\ RunGoTo(r, "done")
  /\ UNCHANGED <<stage, saved, result, wfStatus, task, storeVars>>
  /\ UNCHANGED <<goVars, envVars, expired>>

RunStep(r) ==
  \/ ResumeGetWorkflow(r)
  \/ ResumeGetTasks(r)
  \/ ResumeRestore(r)
  \/ Register(r)
  \/ SaveWorkflow(r)
  \/ \E t \in Task : SaveTask(r, t)
  \/ StartWorkflow(r)
  \/ BuildPlan(r)
  \/ StageCancelled(r)
  \/ StartStage(r)
  \/ StageSucceeds(r)
  \/ StageErrTolerated(r)
  \/ StageFails(r)
  \/ CompleteWorkflow(r)
  \/ Return(r)
----------------------------------------------------------------------------
(* The environment of the runs.                                            *)
InFlight(r) == pc[r] \notin {"idle", "getTasks", "getCheckpoint", "register", "done"}

(* The caller's context or workflow.Timeout ends the run's context. *)
Abort(r) ==
  /\ r \in Abortable
  /\ InFlight(r)
  /\ r \notin cancelled
  /\ cancelled' = cancelled \cup {r}
  /\ UNCHANGED <<runVars, task, goVars, expired, cancelFunc, storeVars, envVars>>

(* task.Timeout, counted from the start of the goroutine: it runs while    *)
(* the task waits for a slot or for approval too.                          *)
Expire(r, t) ==
  /\ t \in HasTimeout
  /\ tpc[r][t] \notin {None, "finished"}
  /\ t \notin expired[r]
  /\ expired' = [expired EXCEPT ![r] = @ \cup {t}]
  /\ UNCHANGED <<runVars, task, goVars, cancelled, cancelFunc, storeVars, envVars>>

(* Supervisor.checkStuckTasks reads the records, then calls CancelWorkflow *)
(* by id.  StartedAt is later than the start of the task's own deadline,   *)
(* so the deadline of a task found past its Timeout has passed.            *)
FindStuck(w) ==
  /\ w \notin stuck
  /\ wfRec[w] = "RUNNING"
  /\ \E r \in Run : \E t \in expired[r] :
       WorkflowOf[r] = w /\ taskRec[w][t].status = "RUNNING"
  /\ stuck' = stuck \cup {w}
  /\ UNCHANGED <<runVars, task, goVars, ctxVars, storeVars, tickets>>

CancelWorkflow(w) ==
  /\ w \in stuck
  /\ stuck' = stuck \ {w}
  /\ cancelled' = cancelled \cup ({cancelFunc[w]} \ {None})
  /\ UNCHANGED <<runVars, task, goVars, expired, cancelFunc, storeVars, tickets>>

(* Mutant of ReadForApproval: any task is approved. *)
ReadUnchecked(a, w, t) ==
  /\ \A k \in tickets : k.by # a
  /\ taskRec[w][t].status # Absent
  /\ tickets' = tickets \cup {[by |-> a, wf |-> w, id |-> t, rec |-> taskRec[w][t]]}
  /\ UNCHANGED <<runVars, task, goVars, ctxVars, storeVars, stuck>>

(* Server.handleApproveTask: GetTask and its check, then UpdateTask of the *)
(* record it read.                                                         *)
ReadForApproval(a, w, t) ==
  /\ \A k \in tickets : k.by # a
  /\ taskRec[w][t].status = "WAITING_FOR_APPROVAL"
  /\ tickets' = tickets \cup {[by |-> a, wf |-> w, id |-> t, rec |-> taskRec[w][t]]}
  /\ UNCHANGED <<runVars, task, goVars, ctxVars, storeVars, stuck>>

WriteApproval(k) ==
  /\ tickets' = tickets \ {k}
  /\ \/ taskRec' = [taskRec EXCEPT ![k.wf][k.id] = [k.rec EXCEPT !.status = "RUNNING"]]
     \/ "UpdateTask" \in Faults /\ UNCHANGED taskRec
  /\ UNCHANGED <<runVars, task, goVars, ctxVars, wfRec, checkpoint, stuck>>

EnvStep ==
  \/ \E r \in Run : Abort(r)
  \/ \E r \in Run, t \in Task : Expire(r, t)
  \/ \E w \in Workflow : FindStuck(w)
  \/ \E w \in Workflow : CancelWorkflow(w)
  \/ \E a \in Approver, w \in Workflow, t \in Task : ReadForApproval(a, w, t)
  \/ \E k \in tickets : WriteApproval(k)

Next ==
  \/ \E r \in Run : RunStep(r)
  \/ \E r \in Run, t \in Task : TaskStep(r, t)
  \/ EnvStep

Spec == Init /\ [][Next]_vars

(* Fairness: goroutines are scheduled, handlers return (they are given a   *)
(* context and use HTTP clients with timeouts), the poll ticker fires, and *)
(* a goroutine blocked on the limiter's channel is served in turn (Go      *)
(* queues blocked senders).  Nothing is assumed of the environment.        *)
Fairness ==
  /\ \A r \in Run : WF_vars(RunStep(r) /\ pc[r] # "idle")
  /\ \A r \in Run, t \in Task : WF_vars(TaskStep(r, t)) /\ SF_vars(Acquire(r, t))

FairSpec == Spec /\ Fairness
----------------------------------------------------------------------------
PC == {"idle", "getTasks", "getCheckpoint", "register", "saveWorkflow", "saveTasks",
       "plan", "stage", "join", "return", "done"}
InSlot == {"prepare", "approval", "waiting", "gate", "running", "backoff", "release"}
TaskPC == {None, "acquire", "report", "finished"} \cup InSlot
TaskRecord == [status : TaskStatus \cup {Absent}, attempt : Nat, input : SUBSET Task]
Checkpoint == [status : WorkflowStatus, tasks : [Task -> TaskRecord]] \cup {NoCheckpoint}
Ticket == [by : Approver, wf : Workflow, id : Task, rec : TaskState]

TypeOK ==
  /\ pc \in [Run -> PC]
  /\ stage \in [Run -> Nat]
  /\ saved \in [Run -> SUBSET Task]
  /\ result \in [Run -> {None, "ok", "error"}]
  /\ wfStatus \in [Run -> WorkflowStatus]
  /\ task \in [Run -> [Task -> TaskRecord]]
  /\ cancelled \subseteq Run
  /\ expired \in [Run -> SUBSET Task]
  /\ tpc \in [Run -> [Task -> TaskPC]]
  /\ attempt \in [Run -> [Task -> Nat]]
  /\ erred \in [Run -> SUBSET Task]
  /\ holders \subseteq Run \X Task
  /\ wfRec \in [Workflow -> WorkflowStatus \cup {Absent}]
  /\ taskRec \in [Workflow -> [Task -> TaskRecord]]
  /\ checkpoint \in [Workflow -> Checkpoint]
  /\ cancelFunc \in [Workflow -> Run \cup {None}]
  /\ stuck \subseteq Workflow
  /\ tickets \subseteq Ticket

(* A task counts as done when it is COMPLETED, or FAILED under its own     *)
(* CONTINUE_ON_FAILURE policy.                                             *)
Settled(r, t) ==
  \/ task[r][t].status = "COMPLETED"
  \/ task[r][t].status = "FAILED" /\ Tolerates(r, t)

(* A handler runs with the output of every dependency in its input, except *)
(* those of dependencies that failed and are tolerated (the injection at   *)
(* the head of executeTask relies on the stage barrier and on fail-fast).  *)
InputsReady ==
  \A r \in Run, t \in Task : tpc[r][t] = "running" /\ ~ Continues(r) =>
    \A d \in Deps[t] :
      d \in task[r][t].input \/ (task[r][d].status = "FAILED" /\ Tolerates(r, d))

(* Fail-fast: while a task's error stands, no task of a later stage of the *)
(* same run has a goroutine (executor.go:248-254, 285-314).                *)
FailFast ==
  \A r \in Run, t, u \in Task :
    t \in erred[r] /\ ~ Continues(r) /\ Level[t] < Level[u] => tpc[r][u] = None

(* A run that returns nil has done all its tasks.                          *)
SuccessMeansSettled ==
  \A r \in Run : result[r] = "ok" /\ ~ Continues(r) =>
    wfStatus[r] = "COMPLETED" /\ \A t \in Known(r) : Settled(r, t)

(* The limiter is never over its capacity, and a slot is held exactly      *)
(* between Acquire and the deferred Release: no path of executeTask leaks  *)
(* one or gives back one it does not hold.                                 *)
SlotDiscipline ==
  /\ holders = {p \in Run \X Task : tpc[p[1]][p[2]] \in InSlot}
  /\ Cardinality(holders) <= Limit

(* No task goroutine outlives its stage: outside wg.Wait none is active,   *)
(* so none writes after the run's verdict.                                 *)
NoStrayGoroutine ==
  \A r \in Run : pc[r] # "join" => \A t \in Task : tpc[r][t] \in {None, "finished"}

(* A checkpoint is a consistent cut: no task is caught midway, and a task  *)
(* that is done in it has all its dependencies done in it.                 *)
CheckpointConsistent ==
  ~ ContinueOnFailure =>
    \A w \in Workflow, t \in Task :
      LET done(u) == \/ checkpoint[w].tasks[u].status = "COMPLETED"
                     \/ checkpoint[w].tasks[u].status = "FAILED" /\ u \in Tolerated
      IN  checkpoint[w].status # Absent =>
            /\ done(t) => \A d \in Deps[t] : done(d)
            /\ ~ done(t) => checkpoint[w].tasks[t].status \in {"PENDING", Absent}

(* What a run that returned nil leaves in the store is what it did: the    *)
(* COMPLETED workflow and the result of every completed task, whatever     *)
(* store calls failed on the way.  (The record of a tolerated failure may  *)
(* be lost: its store error is ignored, executor.go:557.  So may any       *)
(* record when the workflow continues on failure: the store error of       *)
(* executor.go:597 is one of the errors it goes on after.)                 *)
SuccessIsStored ==
  \A r \in Run : result[r] = "ok" =>
    /\ wfRec[WorkflowOf[r]] = "COMPLETED"
    /\ \A t \in Task :
         task[r][t].status = "COMPLETED" /\ ~ Continues(r) =>
           taskRec[WorkflowOf[r]][t] = task[r][t]

(* Conversely a workflow stored COMPLETED was reported as a success.       *)
StoredCompletedIsSuccess ==
  \A w \in Workflow : wfRec[w] = "COMPLETED" =>
    \E r \in Run : WorkflowOf[r] = w /\ result[r] = "ok"

(* CONTINUE_ON_FAILURE goes on with the independent tasks                  *)
(* (architecture.md:23): unless the run is cancelled from outside or the   *)
(* store fails, every task whose dependencies were all COMPLETED has had   *)
(* its goroutine and the run returns nil, no matter which tasks fail       *)
(* (executor.go:251-254, 269-283).  It asks nothing of tasks that depend   *)
(* on a failed one: the code runs them too, the document does not say so.  *)
ContinueRunsAll ==
  \A r \in Run : pc[r] = "done" /\ Continues(r) /\ r \notin Abortable
                 /\ Faults = {} /\ HasTimeout = {} /\ WorkflowOf[r] \notin Rejected =>
    /\ result[r] = "ok"
    /\ \A t \in Task : (\A d \in Deps[t] : task[r][d].status = "COMPLETED") =>
         tpc[r][t] = "finished"

(* Once a workflow has its verdict nothing of the run changes its records: *)
(* the only later write is a late approval's, to a task.                   *)
VerdictFinal ==
  [][\A w \in Workflow : wfRec[w] \in {"COMPLETED", "FAILED"} =>
       /\ wfRec'[w] = wfRec[w] /\ checkpoint'[w] = checkpoint[w]
       /\ tickets' = tickets => taskRec'[w] = taskRec[w]]_vars

(* What step of an approval wrote the record of a task: one that read it   *)
(* waiting.                                                                *)
WrittenByApproval(w, t) ==
  \E k \in tickets :
    /\ k.wf = w /\ k.id = t /\ tickets' = tickets \ {k}
    /\ k.rec.status = "WAITING_FOR_APPROVAL"
    /\ taskRec'[w][t] = [k.rec EXCEPT !.status = "RUNNING"]

(* Task goroutines and the saves of a run never take back a COMPLETED or   *)
(* FAILED record.  The one thing that does is an approval that read the    *)
(* task when it was waiting and writes after another one let it go on, or  *)
(* after its deadline (server.go:877-889); it writes back what it read.    *)
OnlyApprovalsReopen ==
  [][\A w \in Workflow, t \in Task :
       taskRec[w][t].status \in {"COMPLETED", "FAILED"} /\ taskRec'[w][t] # taskRec[w][t] =>
         WrittenByApproval(w, t)]_vars

(* A goroutine that waits for an approval finds a RUNNING record, and goes *)
(* on, only if somebody approved: the RUNNING it stored itself a moment    *)
(* before it waited is gone, whatever store calls fail                     *)
(* (executor.go:488-520).                                                  *)
ApprovalIsGiven ==
  [][\A r \in Run, t \in Task :
       LET w == WorkflowOf[r]
       IN  tpc'[r][t] = "waiting" /\ taskRec'[w][t].status = "RUNNING" =>
             /\ tpc[r][t] = "waiting"
             /\ taskRec[w][t].status = "RUNNING" \/ WrittenByApproval(w, t)]_vars

(* A run whose context ends returns, even if a task waits for an approval  *)
(* nobody gives or for a slot.                                             *)
CancelledReturns == \A r \in Run : r \in cancelled ~> pc[r] = "done"

(* A run returns whatever fails, unless it waits for an approval: retries  *)
(* are bounded, no slot is lost and wg.Wait is always reached.             *)
RunsReturn ==
  \A r \in Run : InFlight(r) ~> pc[r] = "done" \/ \E t \in Task : tpc[r][t] = "waiting"
----------------------------------------------------------------------------
(* What the repository says of the executor and the code does not do.      *)

(* architecture.md:74: checkpoints are there for Resume "after a crash or  *)
(* manual pause".  What Resume restores of a workflow that was left        *)
(* without a verdict, nobody else running it, is a workflow that           *)
(* workflow.Start accepts.                                                 *)
ResumeStarts ==
  [][\A r \in Resumed :
       /\ ResumeRestore(r)
       /\ wfRec[WorkflowOf[r]] \notin {"COMPLETED", "FAILED"}
       /\ \A q \in Run \ {r} : pc[q] = "done"
       => wfStatus'[r] = "PENDING"]_vars

(* recover.go:102-105: the executor goroutine detects the end of its       *)
(* context "via ctx.Done() and fail[s] the task through the normal error   *)
(* path".  A task goroutine never ends with its task still open.           *)
NoTaskLeftOpen ==
  \A r \in Run, t \in Task : tpc[r][t] = "finished" =>
    task[r][t].status \notin {"RUNNING", "WAITING_FOR_APPROVAL"}

(* recover.go:102-105 has the supervisor only cancel, as the executor's    *)
(* own error path "guarantees a single writer for terminal-status          *)
(* transitions": the terminal status of a record is never taken back.      *)
TerminalRecordFinal ==
  [][\A w \in Workflow, t \in Task : taskRec[w][t].status \in {"COMPLETED", "FAILED"} =>
       taskRec'[w][t] = taskRec[w][t]]_vars
============================================================================
