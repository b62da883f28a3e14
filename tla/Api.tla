-------------------------------- MODULE Api --------------------------------
(***************************************************************************)
(* The HTTP API (internal/api/server.go) around the executor, the store    *)
(* and the life of the server process (cmd/server/main.go): requests that  *)
(* create, update and delete a workflow, call by call, executions started  *)
(* in the background, the supervisor, shutdown, crash and restart.         *)
(*                                                                         *)
(* The inside of an execution is abstracted to the calls that touch the    *)
(* workflow's records and workflowCancels (module Executor has the rest).  *)
(* The records survive the process, as on Postgres.  What a request writes *)
(* is tagged with the request.  A request identifier is used once.  A call *)
(* of the store that errs has changed nothing; when the first call of a    *)
(* request errs nothing has happened at all, and it is left out.           *)
(***************************************************************************)
EXTENDS Naturals, FiniteSets

CONSTANTS
  Workflow,     \* workflow ids
  Task,         \* task ids
  Requests,     \* bound on the requests that write records
  Execs,        \* bound on the requests that execute a workflow
  Handlers,     \* bound on all requests
  Bodies,       \* the task sets a request may name
  Runnable,     \* task sets that validateExecutableWorkflow accepts
  WithAgent,    \* tasks whose request names a provider and a model
  Faults,       \* calls of the store that may err: members of Call
  MaxRestarts   \* bound on the restarts of the server

Call == {"GetWorkflow", "SaveWorkflow", "UpdateWorkflow", "GetWorkflowTasks",
         "GetTask", "SaveTask", "UpdateTask", "DeleteTask", "SaveAgent"}

ASSUME SetsAssumption ==
  /\ Requests \in Nat /\ Execs \in Nat /\ Handlers \in Nat
  /\ Bodies \subseteq SUBSET Task
  /\ Runnable \subseteq (SUBSET Task) \ {{}}
  /\ WithAgent \subseteq Task
  /\ Faults \subseteq Call
  /\ MaxRestarts \in Nat

(* Both kinds of requests are numbered as they come. *)
Request == 1..Requests
Exec == 1..Execs

None == "none"
Statuses == {"PENDING", "RUNNING", "COMPLETED", "FAILED"}
Absent == [status |-> None]

VARIABLES
  wfRec,      \* workflow records: status and the request that named it last
  taskRec,    \* task records: the request they come from, or 0 for no record
  agentRec,   \* agents in the store
  registry,   \* agents in the AgentRegistry of the process
  req,        \* the handlers of Request
  run,        \* the handlers and goroutines of Exec
  cancels,    \* Executor.workflowCancels: an execution, or 0 for no entry
  cancelled,  \* executions whose workflowCancel has been called
  proc,       \* the server process
  restarts,   \* how often it was restarted
  left,       \* history: workflows whose record nobody wrote since a process ended
              \* with it RUNNING, or a verdict was lost with an error of the store
  disturbed   \* history: active requests and executions during which another
              \* one wrote a record of their workflow

records == <<wfRec, taskRec, agentRec>>
vars == <<records, registry, req, run, cancels, cancelled, proc, restarts, left, disturbed>>

Active == {r \in Request : req[r].step \in {"tasks", "found", "delete"}}
InExecute == {e \in Exec : run[e].pc \in {"saveWorkflow", "saveTasks", "running", "leaving"}}
InTail == {e \in Exec : run[e].pc \in {"tail", "tailWrite"}}
InFlight == {e \in Exec : run[e].pc \in {"read", "ready"}} \cup InExecute \cup InTail

(* The context of an execution: its own, derived from the server's. *)
Done(e) == e \in cancelled \/ proc \in {"stopping", "stopped"}

Handler(step) == [step |-> step, kind |-> None, wf |-> None, todo |-> {}, seen |-> {}, at |-> None]
Goroutine(pc) ==
  [pc |-> pc, wf |-> None, body |-> 0, tasks |-> [t \in {} |-> 0], todo |-> {}, err |-> FALSE]

Init ==
  /\ wfRec = [w \in Workflow |-> Absent]
  /\ taskRec = [w \in Workflow |-> [t \in Task |-> 0]]
  /\ agentRec = {}
  /\ registry = {}
  /\ req = [r \in Request |-> Handler("idle")]
  /\ run = [e \in Exec |-> Goroutine("idle")]
  /\ cancels = [w \in Workflow |-> 0]
  /\ cancelled = {}
  /\ proc = "up"
  /\ restarts = 0
  /\ left = {}
  /\ disturbed = {}

MayBegin ==
  Cardinality({r \in Request : req[r].step # "idle"}) + Cardinality({e \in Exec : run[e].pc # "idle"})
    < Handlers

Actors == {<<"request", r>> : r \in Active} \cup {<<"exec", e>> : e \in InFlight}
WorksOn(a, w) == w = IF a[1] = "request" THEN req[a[2]].wf ELSE run[a[2]].wf

(* Whoever else works on w sees the write of me in the middle. *)
Touch(w, me) ==
  disturbed' = {a \in Actors : a \in disturbed \/ (WorksOn(a, w) /\ a # me)}

(* UpdateWorkflow and SaveWorkflow. *)
Put(w, rec) == wfRec' = [wfRec EXCEPT ![w] = rec] /\ left' = left \ {w}

ProcessFrame == UNCHANGED <<cancelled, proc, restarts>>
----------------------------------------------------------------------------
(* Requests. *)

Answer(r, code) == req' = [req EXCEPT ![r] = Handler(code)]

RequestFrame == UNCHANGED <<run, cancels>> /\ ProcessFrame

NextRequest(r) ==
  /\ proc = "up"
  /\ MayBegin
  /\ req[r].step = "idle" /\ \A q \in 1..(r - 1) : req[q].step # "idle"

Take(r, kind, w, S) ==
  /\ NextRequest(r)
  /\ req' = [req EXCEPT ![r] =
               [step |-> "tasks", kind |-> kind, wf |-> w, todo |-> S, seen |-> S, at |-> None]]

(* handleCreateWorkflow: SaveWorkflow, whether or not the id is taken. *)
CreateWorkflow(r, w, S) ==
  /\ Take(r, "create", w, S)
  /\ Put(w, [status |-> "PENDING", body |-> r])
  /\ Touch(w, <<"request", r>>)
  /\ UNCHANGED <<taskRec, agentRec, registry>>
  /\ RequestFrame

(* handleUpdateWorkflow: GetWorkflow, and UpdateWorkflow with PENDING.     *)
UpdateWorkflow(r, w, S) ==
  /\ wfRec[w] # Absent
  /\ Take(r, "update", w, S)
  /\ Put(w, [status |-> "PENDING", body |-> r])
  /\ Touch(w, <<"request", r>>)
  /\ UNCHANGED <<taskRec, agentRec, registry>>
  /\ RequestFrame

(* The agent of a task is registered and saved before the task is; an      *)
(* error of SaveAgent is ignored.                                          *)
RegisterAgent(w, t) ==
  /\ registry' = IF t \in WithAgent THEN registry \cup {<<w, t>>} ELSE registry
  /\ \/ agentRec' = IF t \in WithAgent THEN agentRec \cup {<<w, t>>} ELSE agentRec
     \/ "SaveAgent" \in Faults /\ UNCHANGED agentRec

(* The record of a task is written, or the handler answers 500. *)
WriteTask(r, t, accepted) ==
  LET w == req[r].wf
  IN  /\ IF accepted
           THEN /\ taskRec' = [taskRec EXCEPT ![w][t] = r]
                /\ req' = [req EXCEPT ![r].todo = @ \ {t}, ![r].step = "tasks", ![r].at = None]
                /\ Touch(w, <<"request", r>>)
           ELSE Answer(r, "error") /\ UNCHANGED <<taskRec, disturbed>>
      /\ UNCHANGED <<wfRec, left>>
      /\ RequestFrame

(* SaveTask refuses a task without workflow. *)
SaveTaskOf(r, t) ==
  \/ WriteTask(r, t, wfRec[req[r].wf] # Absent)
  \/ "SaveTask" \in Faults /\ WriteTask(r, t, FALSE)

CreateTask(r, t) ==
  /\ req[r].step = "tasks"
  /\ req[r].kind = "create"
  /\ t \in req[r].todo
  /\ RegisterAgent(req[r].wf, t)
  /\ SaveTaskOf(r, t)

(* The update looks whether the record exists, and then writes it: with    *)
(* SaveTask when GetTask erred, with UpdateTask when it did not.           *)
LookUpTask(r, t) ==
  /\ req[r].step = "tasks"
  /\ req[r].kind = "update"
  /\ t \in req[r].todo
  /\ RegisterAgent(req[r].wf, t)
  /\ \/ /\ taskRec[req[r].wf][t] = 0 \/ "GetTask" \in Faults
        /\ SaveTaskOf(r, t)
     \/ /\ taskRec[req[r].wf][t] # 0
        /\ req' = [req EXCEPT ![r].step = "found", ![r].at = t]
        /\ UNCHANGED <<wfRec, taskRec, left, disturbed>>
        /\ RequestFrame

(* UpdateTask refuses a task that is gone. *)
UpdateTask(r, t) ==
  /\ req[r].step = "found"
  /\ t = req[r].at
  /\ \/ WriteTask(r, t, taskRec[req[r].wf][t] # 0)
     \/ "UpdateTask" \in Faults /\ WriteTask(r, t, FALSE)
  /\ UNCHANGED <<agentRec, registry>>

(* When all are written the tasks the request does not name are deleted.   *)
ListExisting(r) ==
  /\ req[r].step = "tasks"
  /\ req[r].kind = "update"
  /\ req[r].todo = {}
  /\ req' = [req EXCEPT ![r].step = "delete",
                        ![r].todo = {t \in Task : taskRec[req[r].wf][t] # 0} \ req[r].seen]
  /\ UNCHANGED <<records, registry, left, disturbed>>
  /\ RequestFrame

DeleteTask(r, t) ==
  LET w == req[r].wf
  IN  /\ req[r].step = "delete"
      /\ t \in req[r].todo
      /\ IF taskRec[w][t] # 0
           THEN /\ taskRec' = [taskRec EXCEPT ![w][t] = 0]
                /\ req' = [req EXCEPT ![r].todo = @ \ {t}]
                /\ Touch(w, <<"request", r>>)
           ELSE Answer(r, "error") /\ UNCHANGED <<taskRec, disturbed>>
      /\ UNCHANGED <<wfRec, agentRec, registry, left>>
      /\ RequestFrame

(* Mutant of Applied: the update ends without deleting. *)
AppliedKeepingOthers(r) ==
  /\ req[r].todo = {}
  /\ req[r].step = "tasks"

(* Everything the request asks for has been done. *)
Applied(r) ==
  /\ req[r].todo = {}
  /\ req[r].step = IF req[r].kind = "create" THEN "tasks" ELSE "delete"

Respond(r) ==
  /\ Applied(r)
  /\ Answer(r, "ok")
  /\ UNCHANGED <<records, registry, left, disturbed>>
  /\ RequestFrame

(* The deletion of the other tasks errs: 500, and what was written stays.  *)
RequestErrs(r) ==
  /\ \/ /\ "GetWorkflowTasks" \in Faults
        /\ req[r].step = "tasks" /\ req[r].kind = "update" /\ req[r].todo = {}
     \/ /\ "DeleteTask" \in Faults
        /\ req[r].step = "delete" /\ req[r].todo # {}
  /\ Answer(r, "error")
  /\ UNCHANGED <<records, registry, left, disturbed>>
  /\ RequestFrame

(* handleDeleteWorkflow: one call; a run in flight is not asked. *)
DeleteWorkflow(r, w) ==
  /\ NextRequest(r)
  /\ wfRec[w] # Absent
  /\ Put(w, Absent)
  /\ taskRec' = [taskRec EXCEPT ![w] = [t \in Task |-> 0]]
  /\ Answer(r, "deleted")
  /\ Touch(w, <<"request", r>>)
  /\ UNCHANGED <<agentRec, registry>>
  /\ RequestFrame
----------------------------------------------------------------------------
(* handleExecuteWorkflow, and the goroutine it starts. *)

RunGoTo(e, pc) == run' = [run EXCEPT ![e].pc = pc]
RunEnds(e, pc) == run' = [run EXCEPT ![e] = Goroutine(pc)]
Fails(e) == run' = [run EXCEPT ![e].pc = "leaving", ![e].err = TRUE]

ExecFrame == UNCHANGED <<agentRec, req>> /\ ProcessFrame
ReadOnly == UNCHANGED <<wfRec, taskRec, left, disturbed>>

GetWorkflow(e, w) ==
  /\ proc = "up"
  /\ MayBegin
  /\ run[e].pc = "idle" /\ \A d \in 1..(e - 1) : run[d].pc # "idle"
  /\ wfRec[w] # Absent
  /\ run' = [run EXCEPT ![e].pc = "read", ![e].wf = w, ![e].body = wfRec[w].body]
  /\ ReadOnly
  /\ UNCHANGED <<registry, cancels>>
  /\ ExecFrame

(* handleListAgents: the agents of the store and of the registry. *)
ListAgents == agentRec \cup registry

(* Mutant of AgentsToRegister: agents are not registered again. *)
NoAgents(w, S) == {}

(* The agents the task records name; those in the registry are kept. *)
AgentsToRegister(w, S) == {<<w, t>> : t \in S \cap WithAgent} \ registry

(* GetWorkflowTasks, validateExecutableWorkflow, and the agents that the   *)
(* registry lacks.                                                         *)
GetTasks(e) ==
  LET w == run[e].wf
      S == {t \in Task : taskRec[w][t] # 0}
  IN  /\ run[e].pc = "read"
      /\ \/ /\ S \in Runnable
            /\ run' = [run EXCEPT ![e].pc = "ready", ![e].tasks = [t \in S |-> taskRec[w][t]]]
            /\ registry' = registry \cup AgentsToRegister(w, S)
         \/ /\ S \notin Runnable \/ "GetWorkflowTasks" \in Faults
            /\ RunEnds(e, "refused")
            /\ UNCHANGED registry
      /\ ReadOnly
      /\ UNCHANGED cancels
      /\ ExecFrame

(* Execute: wg.Add, and the entry in workflowCancels, whoever has it. *)
Register(e) ==
  /\ run[e].pc = "ready"
  /\ RunGoTo(e, "saveWorkflow")
  /\ cancels' = [cancels EXCEPT ![run[e].wf] = e]
  /\ Touch(run[e].wf, <<"exec", e>>)
  /\ UNCHANGED <<wfRec, taskRec, left, registry>>
  /\ ExecFrame

SaveWorkflow(e) ==
  /\ run[e].pc = "saveWorkflow"
  /\ \/ /\ Put(run[e].wf, [status |-> "PENDING", body |-> run[e].body])
        /\ run' = [run EXCEPT ![e].pc = "saveTasks", ![e].todo = DOMAIN run[e].tasks]
        /\ Touch(run[e].wf, <<"exec", e>>)
     \/ "SaveWorkflow" \in Faults /\ Fails(e) /\ UNCHANGED <<wfRec, left, disturbed>>
  /\ UNCHANGED <<taskRec, registry, cancels>>
  /\ ExecFrame

SaveTask(e, t) ==
  LET w == run[e].wf
  IN  /\ run[e].pc = "saveTasks"
      /\ t \in run[e].todo
      /\ \/ /\ wfRec[w] # Absent
            /\ taskRec' = [taskRec EXCEPT ![w][t] = run[e].tasks[t]]
            /\ run' = [run EXCEPT ![e].todo = @ \ {t}]
            /\ Touch(w, <<"exec", e>>)
         \/ /\ wfRec[w] = Absent \/ "SaveTask" \in Faults
            /\ Fails(e)
            /\ UNCHANGED <<taskRec, disturbed>>
      /\ UNCHANGED <<wfRec, left, registry, cancels>>
      /\ ExecFrame

(* UpdateWorkflow with a status, and what follows when it succeeds. *)
Store(e, status, ThenGo) ==
  /\ \/ /\ wfRec[run[e].wf] # Absent
        /\ Put(run[e].wf, [status |-> status, body |-> run[e].body])
        /\ Touch(run[e].wf, <<"exec", e>>)
        /\ ThenGo
     \/ /\ wfRec[run[e].wf] = Absent \/ "UpdateWorkflow" \in Faults
        /\ Fails(e)
        /\ UNCHANGED <<wfRec, left, disturbed>>
  /\ UNCHANGED <<taskRec, registry, cancels>>
  /\ ExecFrame

StartWorkflow(e) ==
  /\ run[e].pc = "saveTasks"
  /\ run[e].todo = {}
  /\ Store(e, "RUNNING", run' = [run EXCEPT ![e].pc = "running", ![e].todo = DOMAIN run[e].tasks])

(* A task is executed: its record is written from the run's own copy, and  *)
(* the task fails when there is no record any more.                        *)
RunTask(e, t) ==
  LET w == run[e].wf
  IN  /\ run[e].pc = "running"
      /\ t \in run[e].todo
      /\ taskRec[w][t] # 0
      /\ taskRec' = [taskRec EXCEPT ![w][t] = run[e].tasks[t]]
      /\ run' = [run EXCEPT ![e].todo = @ \ {t}]
      /\ Touch(w, <<"exec", e>>)
      /\ UNCHANGED <<wfRec, left, registry, cancels>>
      /\ ExecFrame

(* A stage fails: an error of a task or the end of the context inside it.  *)
StageFails(e) ==
  /\ run[e].pc = "running"
  /\ Store(e, "FAILED", Fails(e))

(* The end of the context seen between two stages: nothing is written. *)
StageCancelled(e) ==
  /\ run[e].pc = "running"
  /\ Done(e)
  /\ Fails(e)
  /\ ReadOnly
  /\ UNCHANGED <<registry, cancels>>
  /\ ExecFrame

CompleteWorkflow(e) ==
  /\ run[e].pc = "running"
  /\ run[e].todo = {}
  /\ Store(e, "COMPLETED", RunGoTo(e, "leaving"))

(* Mutant of Leave: the entry stays. *)
LeaveRegistered(e) ==
  /\ run[e].pc = "leaving"
  /\ IF run[e].err THEN RunGoTo(e, "tail") ELSE RunEnds(e, "done")
  /\ cancelled' = cancelled \ {e}
  /\ Touch(run[e].wf, <<"exec", e>>)
  /\ UNCHANGED <<records, left, registry, cancels, req, proc, restarts>>

(* Execute returns: the entry goes, whosever it is, and wg.Done. *)
Leave(e) ==
  /\ run[e].pc = "leaving"
  /\ cancels' = [cancels EXCEPT ![run[e].wf] = 0]
  /\ IF run[e].err THEN RunGoTo(e, "tail") ELSE RunEnds(e, "done")
  /\ cancelled' = cancelled \ {e}
  /\ Touch(run[e].wf, <<"exec", e>>)
  /\ UNCHANGED <<records, left, registry, req, proc, restarts>>

(* Mutant of TailRead: nothing follows the execution. *)
TailSkipped(e) ==
  /\ run[e].pc = "tail"
  /\ RunEnds(e, "done")
  /\ ReadOnly
  /\ UNCHANGED <<registry, cancels>>
  /\ ExecFrame

(* The goroutine meets an error of the store and ends: the verdict is lost. *)
VerdictLost(e) ==
  /\ RunEnds(e, "done")
  /\ left' = left \cup {run[e].wf}
  /\ UNCHANGED <<wfRec, disturbed>>

(* After an error the goroutine of the API reads the record ...  *)
TailRead(e) ==
  LET rec == wfRec[run[e].wf]
      settled == rec = Absent \/ rec.status = "FAILED"
  IN  /\ run[e].pc = "tail"
      /\ \/ settled /\ RunEnds(e, "done") /\ UNCHANGED <<wfRec, left, disturbed>>
         \/ /\ ~ settled
            /\ run' = [run EXCEPT ![e].pc = "tailWrite", ![e].body = rec.body]
            /\ UNCHANGED <<wfRec, left, disturbed>>
         \/ ~ settled /\ "GetWorkflow" \in Faults /\ VerdictLost(e)
      /\ UNCHANGED <<taskRec, registry, cancels>>
      /\ ExecFrame

(* ... and writes it back FAILED; the error of UpdateWorkflow is ignored.  *)
TailWrite(e) ==
  LET w == run[e].wf
  IN  /\ run[e].pc = "tailWrite"
      /\ \/ /\ RunEnds(e, "done")
            /\ IF wfRec[w] # Absent
                 THEN Put(w, [status |-> "FAILED", body |-> run[e].body]) /\ Touch(w, <<"exec", e>>)
                 ELSE UNCHANGED <<wfRec, left, disturbed>>
         \/ wfRec[w] # Absent /\ "UpdateWorkflow" \in Faults /\ VerdictLost(e)
      /\ UNCHANGED <<taskRec, registry, cancels>>
      /\ ExecFrame
----------------------------------------------------------------------------
(* The supervisor finds a stuck task of w and calls CancelWorkflow, some   *)
(* time after it has read the records: the run it hits is the registered.  *)
CancelWorkflow(w) ==
  /\ cancels[w] # 0
  /\ cancelled' = cancelled \cup {cancels[w]}
  /\ UNCHANGED <<records, registry, req, run, cancels, proc, restarts, left, disturbed>>

ProcStep(from, to) ==
  /\ proc = from
  /\ proc' = to
  /\ UNCHANGED <<records, registry, req, run, cancels, cancelled, restarts, left, disturbed>>

(* A signal: httpServer.Shutdown takes no new requests and waits for the   *)
(* active ones, 30 seconds at most; then Shutdown cancels the context of   *)
(* the server.  Requests that end before it are requests before the step.  *)
Shutdown == ProcStep("up", "stopping")

(* Executor.Wait returns nil: nobody is inside Execute.  A handler that    *)
(* still worked would have used up the 30 seconds, which Wait shares.      *)
WaitReturns ==
  /\ Active = {} /\ \A e \in Exec : run[e].pc # "read"
  /\ InExecute = {}
  /\ ProcStep("stopping", "stopped")

(* The process ends: after Wait, because the 30 seconds are over, or by a  *)
(* crash.  Goroutines and maps are gone, the records stay.                 *)
Exit ==
  /\ proc # "exited"
  /\ proc' = "exited"
  /\ registry' = {}
  /\ req' = [r \in Request |-> IF r \in Active THEN Handler("lost") ELSE req[r]]
  /\ run' = [e \in Exec |-> IF e \in InFlight THEN Goroutine("killed") ELSE run[e]]
  /\ cancels' = [w \in Workflow |-> 0]
  /\ cancelled' = {}
  /\ left' = {w \in Workflow : wfRec[w].status = "RUNNING"}
  /\ disturbed' = {}
  /\ UNCHANGED <<records, restarts>>

(* The supervisor started with the new process only cancels what runs in   *)
(* it: the records are as they were.                                       *)
Restart ==
  /\ restarts < MaxRestarts
  /\ restarts' = restarts + 1
  /\ proc = "exited"
  /\ proc' = "up"
  /\ UNCHANGED <<records, registry, req, run, cancels, cancelled, left, disturbed>>

RequestStep(r) ==
  \/ \E w \in Workflow, S \in Bodies : CreateWorkflow(r, w, S) \/ UpdateWorkflow(r, w, S)
  \/ \E t \in Task : CreateTask(r, t) \/ LookUpTask(r, t) \/ UpdateTask(r, t) \/ DeleteTask(r, t)
  \/ ListExisting(r) \/ Respond(r) \/ RequestErrs(r)
  \/ \E w \in Workflow : DeleteWorkflow(r, w)

RunStep(e) ==
  \/ GetTasks(e) \/ Register(e) \/ SaveWorkflow(e) \/ StartWorkflow(e)
  \/ \E t \in Task : SaveTask(e, t) \/ RunTask(e, t)
  \/ StageFails(e) \/ StageCancelled(e) \/ CompleteWorkflow(e)
  \/ Leave(e) \/ TailRead(e) \/ TailWrite(e)

Next ==
  \/ \E r \in Request : RequestStep(r)
  \/ \E e \in Exec, w \in Workflow : GetWorkflow(e, w)
  \/ \E e \in Exec : RunStep(e)
  \/ \E w \in Workflow : CancelWorkflow(w)
  \/ Shutdown \/ WaitReturns \/ Exit \/ Restart

Spec == Init /\ [][Next]_vars
----------------------------------------------------------------------------
(* A workflow that is RUNNING is being executed; or nobody wrote its record *)
(* since the process that executed it ended, or since the goroutine that   *)
(* was to write FAILED met an error of the store (server.go:853, 857).     *)
(* Nothing else leaves a record RUNNING for ever: not a cancellation       *)
(* between stages, a verdict that was not stored, a record deleted and     *)
(* made again, or two executions of one workflow.                          *)
RunningHasOwner ==
  \A w \in Workflow :
    wfRec[w].status = "RUNNING" =>
      w \in left \/ \E e \in InExecute \cup InTail : run[e].wf = w

(* Where nothing else wrote the workflow meanwhile, the verdict of an      *)
(* execution is in its record once the goroutine of the API ends, even     *)
(* when Execute returned without writing one (executor.go:206-210) or the  *)
(* store refused its verdict (289, 340): unless the store errs once more   *)
(* in the calls of the goroutine itself.                                   *)
VerdictStored ==
  [][\A e \in Exec :
       /\ run'[e].pc = "done" /\ run[e].pc # "done"
       /\ <<"exec", e>> \notin disturbed
       /\ run[e].wf \notin left'
       => wfRec'[run[e].wf].status = IF run[e].err THEN "FAILED" ELSE "COMPLETED"]_vars

(* workflowCancels reaches runs: an entry is that of a run inside Execute  *)
(* of that workflow, and every such run has its entry unless another run   *)
(* or request came across it.  Of two overlapping executions of a workflow *)
(* one can no longer be cancelled.                                         *)
Cancellable ==
  /\ \A w \in Workflow : cancels[w] # 0 => cancels[w] \in InExecute /\ run[cancels[w]].wf = w
  /\ \A e \in InExecute : <<"exec", e>> \notin disturbed => cancels[run[e].wf] = e

(* A request that answers 200 or 201 and was alone did what it says: the   *)
(* workflow is PENDING with its name, its tasks are stored, and after an   *)
(* update no others are.                                                   *)
RequestApplied ==
  [][\A r \in Request :
       req'[r].step = "ok" /\ req[r].step # "ok" /\ <<"request", r>> \notin disturbed =>
         LET w == req[r].wf
             own == {t \in Task : taskRec'[w][t] = r}
         IN  /\ wfRec'[w] = [status |-> "PENDING", body |-> r]
             /\ own = req[r].seen
             /\ req[r].kind = "update" => {t \in Task : taskRec'[w][t] # 0} = own]_vars

(* The agents of a workflow that is executed are registered, in whatever   *)
(* process the workflow was created (server.go:835), and as long as        *)
(* SaveAgent succeeds the agent of every stored task is listed             *)
(* (server.go:897).                                                        *)
AgentsSurvive ==
  /\ \A e \in InExecute, t \in WithAgent : t \in DOMAIN run[e].tasks => <<run[e].wf, t>> \in registry
  /\ "SaveAgent" \notin Faults =>
       \A w \in Workflow, t \in WithAgent : taskRec[w][t] # 0 => <<w, t>> \in ListAgents

(* "Cancel running workflows and wait for goroutines to complete cleanup"  *)
(* (cmd/server/main.go:150): after a clean stop no record says RUNNING,    *)
(* but for an execution whose goroutine began when Wait had returned.      *)
CleanStopSettles ==
  [][proc = "stopped" /\ proc' = "exited" =>
       \A w \in Workflow :
         wfRec[w].status = "RUNNING" => w \in left \/ \E e \in InExecute : run[e].wf = w]_vars
=============================================================================
