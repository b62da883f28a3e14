# TLA+ verification of the LLM orchestrator

The orchestrator is a Go program that runs *workflows*: graphs of tasks that are
ordered by their dependencies, handed to agents (LLM calls, tools, or registered
workers) under retries, timeouts and human approvals, and persisted to a store
while they run. This directory models the part of it that is hard to get right,
checks it with TLC on small instances and proves the main invariants with TLAPS for
every value of the constants.

Paths below are relative to `src/`. `PROJECT.json` lists, for every definition that
stands for code, the file and lines it translates.

## 1. Inventory

### Components

| Component | Code | State | Operations | Correct when |
|---|---|---|---|---|
| Validator | `internal/dag/validator.go` | call-local: visited set, recursion stack | `Validate`: references, self dependencies, cycles (DFS) | accepts exactly the graphs without unknown reference and cycle, in every map order |
| Planner | `internal/dag/topo.go` | call-local: indegrees, processed set, plan | `BuildExecutionPlan` | dependencies in earlier stages, every task once, none lost, none later than needed |
| Executor | `internal/executor/executor.go` | `workflowCancels`, wait group, limiter, one in-memory workflow per run | `Execute`, `Resume`, `executeTask`, `executeWithRetry`, `CancelWorkflow`, `Wait` | stage barrier, fail-fast, the caller is told what the store holds, every run returns, no slot is lost |
| Limiter | `internal/executor/limiter.go` | channel of slots; token bucket | `Acquire`, `Release` | never over capacity, every slot comes back |
| Supervisor | `internal/executor/recover.go` | ticker, stop channel | `Start`, `Stop`, `checkStuckTasks` | cancels only, never writes a terminal status itself |
| Entities | `internal/core/task.go`, `workflow.go` | status, attempt, times, input, output | `Start`, `Complete`, `Fail`, `WaitForApproval`, … | only legal status changes |
| Checkpoint | `internal/core/checkpoint.go` | a snapshot of statuses and attempts | `CreateCheckpoint`, `RestoreFromCheckpoint` | a consistent cut from which a run can go on |
| Store | `internal/store/memory.go`, `postgres.go`, `store.go`, `migrations/` | workflow, task, checkpoint, agent, artifact and event records | save, update, get, list, delete | one record per id, the last write wins; no task without its workflow; until a call is answered differently the two stores agree, creation times and overtaken checkpoints apart |
| HTTP API | `internal/api/server.go` | agent registry, token totals, WebSocket clients, background executions | create, update, delete, execute, approve, plan, stream | a request that succeeds did what it says; RUNNING means that somebody runs it; every token is counted once |
| Event bus | `internal/events/bus.go` | buffered channel, handler lists | `Subscribe`, `Unsubscribe`, `Publish` | each handler sees accepted events of its types, once, in order (with one worker), and in the end all of them |
| Retry policy | `internal/core/retry.go`, `internal/executor/retry.go` | none | `CalculateDelay`, `RetryWorkerWrapper` | delays stay within their cap |
| Routers | `internal/executor/router.go`, `cost.go` | agent list | capability and cost routing | the chosen agent has the capability, at least cost |
| Agents, stitching | `internal/agents/` | agent registry, tool loop | register, `Execute`, `StitchArtifacts` | the agent used is the one registered; context within its budget |
| Artifacts, tools, memory | `internal/core/` | maps behind a mutex | register, get, list | a prompt can refer to what its dependencies produced |
| DSL | `internal/dsl/dsl.go` | none | `Validate`, `Compile` | compiles exactly what the validator accepts, in whatever order it is written |
| Observers | `internal/observer/` | log, metrics, audit | event handlers | — (reporting) |
| Providers, HTTP client, LLM workers | `internal/providers/`, `httpclient/`, `llm/`, `workers/` | connections | requests to external services | — (I/O; a handler that returns or errs) |
| Plugins, configuration, secrets | `internal/plugin/`, `config/`, `secrets/` | tables read at start | lookups | — |
| Programs | `cmd/server`, `cmd/orch` | wiring, shutdown | start, shut down | shutdown leaves no record half done |
| User interface | `ui/` | browser state | calls of the API | — |

### How they interact

`POST /workflows/{id}/execute` reads the records, builds a `core.Workflow` and calls
`Executor.Execute` in a goroutine. `Execute` registers its cancel function under the
workflow id, saves the records, asks the planner for stages, and for each stage starts
one goroutine per task and waits for all of them. A task goroutine takes a slot of the
limiter that all workflows share, moves the task through its status machine, writes
each status to the store and publishes events. After a stage without error a checkpoint
is written. The supervisor reads the same records and calls `CancelWorkflow`. An
approval request reads and writes the record of a task that waits; the goroutine of
that task polls the record. `Resume` builds the workflow from the records and the
latest checkpoint and calls `Execute`.

So five kinds of actors write the same records: runs, their task goroutines, approval
requests, the API's own handlers and a second run of the same workflow. What they publish
goes through the event bus to the log, the metrics, the audit trail, the token totals and
the WebSocket clients; none of these writes a record a run reads.

### What is hard

*Concurrency*: siblings of a stage, overlapping runs of one workflow, approvals,
supervisor, cancellation at any moment. *Failure*: every store call may err, and some
errors are ignored on purpose; a task may fail in eight places, not all of which record
the failure. *Ordering*: a task reads the outputs of its dependencies, which only the
stage barrier makes available. *Timeouts and retries*: a task's deadline runs while it
waits for a slot, for an approval, or in the delay between two attempts. *Recovery*:
resuming from a checkpoint, a crash of the server, agents that only its memory holds.
*Two of everything*: two stores, two cycle searches, two definitions of what may run
next, which have to agree. `PROJECT.json` lists 40 hazards with their lines and the
properties aimed at each; those without a property say why.

## 2. The modules

| Module | Kind | What it is |
|---|---|---|
| `Validator` | component | `Validate`, call by call of the depth-first search |
| `TopoPlanner` | component | `BuildExecutionPlan`: extends `Validator`, then Kahn's algorithm |
| `DSL` | operators | `Compile` of a declarative workflow with its own cycle search; `ReadyTasks` |
| `Executor` | component | runs, task goroutines, limiter, store, supervisor and approvals |
| `WorkflowRun` | abstract | what a fail-fast execution promises its caller |
| `ExecutorRefinement` | refinement | the mapping from `Executor` to `WorkflowRun` |
| `Api` | composition | requests, background executions, supervisor, shutdown, crash and restart around the records |
| `Store` | component | the memory store and the Postgres store, answering the same calls |
| `EventBus` | component | buffer, workers, dispatch, subscriptions |
| `EventFeed` | abstract | what the bus promises a subscriber |
| `AgentTask` | composition | routing, fallback, retries, prompts, artifacts and token totals, over `EventBus` |
| `PlannerAgreement` | composition | the planner beside `DSL` |
| `MCTopoPlanner`, `MCExecutor`, `MCStore`, `MCAgentTask` | model checking | instances for TLC (`Api` needs none) |
| `ValidatorProofs`, `TopoPlannerProofs`, `ExecutorProofs`, `ExecutorResults`, `StoreProofs`, `ApiProofs`, `AgentTaskProofs` | proofs | see section 5 |
| `InductionLemmas` | proofs | induction, loops and sums for the others |

`Executor` has everything that happens inside one `Execute` and abstracts how a task's
handler works. The other modules take up what it leaves out and abstract its inside in
turn: `AgentTask` opens the handler, `Api` what goes on around executions, `Store` the
records themselves.

### Validator and TopoPlanner

`Validate` runs three checks and stops at the first that fails; `check` is the check in
progress or the verdict. The search of `validateCycles` is cut at every call and return
of `detectCycleDFS`: `path` is Go's call stack, `next[t]` the loop index of the call on
`t`, `visited` and `recursionStack` the two maps. Roots come in Go's random map order,
so `VisitRoot` takes any unvisited task. A dependency list is a sequence: a repeated
entry matters, since the planner counts it twice and must decrement it twice. The branch
of `detectCycleDFS` for a task that is not in the map is left out: references were
checked before.

`TopoPlanner` has one action for each step of the loop: `CollectLevel` takes the tasks
of indegree zero, `DecrementNeighbors` processes one of them. Task ids inside a stage
are sorted in the code; a stage is a set here and its tasks are processed in any order.

### DSL

`orch run` compiles a workflow before it executes it, the server does not. `Compile` is
the code's search as an operator on a definition: `visited`, `recStack` and the early
return of `hasCycle` are kept, the order of the definition is the order of the roots,
and the search comes before the check for unknown ids, so it walks over them.
`PlannerAgreement` sets it beside the validator: `CompilerAgrees`. `ReadyTasks` of
`core/workflow.go` is compared with the planner's stages: `StagesAreReady`.

The recursion of `hasCycle` is written as a function of how deep a call may still nest
(`calls[k]`), and the loops as functions of their index. No call nests deeper than there
are nodes, since each visits a new one, so the bound cuts nothing off; that it does not is
part of the proof of `CompilersAgree`.

### Executor

A *run* is one call of `Execute` or `Resume`, `pc` its place in that function; `tpc` is
the place of each of its task goroutines. Steps are cut where another goroutine can see
or change something: a store call, the limiter, a context, the wait group,
`workflowCancels`. Code between two such points is one action. In memory a run has
`wfStatus` and `task` (status, attempt, the dependency outputs in its input); the store
has `wfRec`, `taskRec` and `checkpoint`. Memory is changed before the store call in the
code, so a failing call leaves the two apart: `UpdateTask` and `UpdateTaskErr`, and
`TryUpdateTask` where the code ignores the error.

| Code | Actions |
|---|---|
| `Resume` 355-379 | `ResumeGetWorkflow`, `ResumeGetTasks`, `ResumeRestore` |
| `execute` 136-353 | `Register`, `SaveWorkflow`, `SaveTask`, `StartWorkflow`, `BuildPlan`, `StageCancelled`, `StartStage`, `StageSucceeds`, `StageErrTolerated`, `StageFails`, `CompleteWorkflow`, `Return` |
| task goroutine of `execute` 237-256 | `Report` |
| `executeTask` 381-611 | `Acquire`, `AcquireCancelled`, `RouteFails`, `WorkerMissing`, `StartTask`, `StartRefused`, `WaitForApproval`, `SeeApproval`, `ApprovalCancelled`, `InterceptorRefuses`, `HandlerSucceeds`, `FailTask`, `Release` |
| `executeWithRetry` 613-675 | `BeginAttempt`, `HandlerErrs`, and the last failure in `FailTask` |
| caller, timeouts | `Abort`, `Expire` |
| `checkStuckTasks`, `CancelWorkflow` | `FindStuck`, `CancelWorkflow` |
| `handleApproveTask` | `ReadForApproval`, `WriteApproval` |

Abstractions, each chosen so that the properties cannot tell:

- *Plan*: `Level` gives the stage of each task; `PlanAssumption` demands of it what
  `TopoPlanner` establishes (`DependenciesFirst`, `EarliestStage`). Workflows the planner
  refuses are in `Rejected`; a resumed run whose task records are incomplete is refused
  by `BuildPlan` because its dependencies are unknown.
- *Handler*: whether an agent, worker or tool succeeds is nondeterministic; it is one
  step, and no record of the task is written between its start and its result.
- *Output*: present exactly when the task is COMPLETED; what it says is not modelled.
- *Time*: a deadline passes at any moment after the goroutine has started. A context
  that ends during the handler call shows as a handler that fails.
- *Store*: the in-memory store; a fault of the database is a call in `Faults` that errs
  without effect. Decoding errors of a checkpoint are not modelled (the code writes
  what it reads).
- *Events, logs, metrics*: left out; nothing the executor does depends on them.
- `RecordToWorkflow` builds neither failure policy, so a resumed run fails fast
  (`Continues`, `Tolerates`).
- Cancelling after the supervisor's five-second grace period is any time after the
  deadline; `FindStuck` asks for the deadline to have passed, which it has whenever the
  supervisor's clock, started later, says so.

### WorkflowRun and its refinement

`WorkflowRun` is the contract of a fail-fast execution: tasks settle one at a time, each
after its dependencies; success is reported only when all have settled; something is
reported in the end. `ExecutorRefinement` maps a run's `pc` and `result` to the phase
and the tasks that are COMPLETED, or FAILED under their own tolerance, to the settled
ones. It shows the calls of `Execute`; a `Resume` (which starts from tasks already done) may go on
beside them and is not seen.

### Api

A handler of `server.go` is cut at its store calls, and its registry call is joined with
the store call after it. `req[r]` is a request that creates or updates, `run[e]` one that
executes together with the goroutine it starts.

| Code | Actions |
|---|---|
| `handleCreateWorkflow` | `CreateWorkflow`, `CreateTask`, `Respond`, `RequestErrs` |
| `handleUpdateWorkflow` | `UpdateWorkflow`, `LookUpTask`, `UpdateTask`, `ListExisting`, `DeleteTask`, `Respond`, `RequestErrs` |
| `handleDeleteWorkflow` | `DeleteWorkflow` |
| `handleExecuteWorkflow` and its goroutine | `GetWorkflow`, `GetTasks`, `TailRead`, `TailWrite` |
| `Execute` | `Register`, `SaveWorkflow`, `SaveTask`, `StartWorkflow`, `RunTask`, `StageFails`, `StageCancelled`, `CompleteWorkflow`, `Leave` |
| supervisor | `CancelWorkflow` |
| `cmd/server/main.go`, `Server.Shutdown`, `Executor.Wait` | `Shutdown`, `WaitReturns`, `Exit`, `Restart` |

Abstractions. What a request writes is the number of the request, in place of names,
prompts and dependencies: a record tells who wrote it, which is what `RequestApplied`
needs. The inside of `Execute` is reduced to its writes of the workflow's records and to
`workflowCancels`; `Executor` has the rest. A stage may fail whenever the run is running,
which stands for every way a task can fail. Requests that plan, list or
show only read and are left out; `ListAgents` is the one read a property uses. The records survive a crash, as on
Postgres; a crash is `Exit` from `up`, and takes goroutines, `workflowCancels` and the
agent registry with it. The 30 seconds that `http.Server.Shutdown` and `Executor.Wait`
share are up when `Exit` happens while something is still going on; `WaitReturns` is the
other outcome, the one the log calls clean. A supervisor may cancel any registered run at
any time: the records it decides from are older than its call. `disturbed` is a history
variable: which actors saw another one write to their workflow while they worked.

Any of the nine calls of the store that the handlers make, the executions make, or the
goroutine makes after an execution, may err where `Faults` says so: `SaveTaskOf`,
`RequestErrs`, `Store`, `TailRead`, `TailWrite`, and so on. An erring call has changed
nothing, and an error of the first call of a request, after which nothing has happened at
all, is left out. When one of the two calls of the goroutine errs the verdict is lost
(`VerdictLost`; `server.go:853` and `857` do nothing then) and nobody in the process looks
at the record again. `left` is a history variable that remembers these workflows, and those a
process ended with RUNNING, until somebody writes their record.

### Store

A call is an operator from the state of a store to its answer and its new state, once for
`memory.go` and once for the SQL statement of `postgres.go`; an action makes the same call
on both and notes in `split` (`parted` for artifacts) where one accepted and the other
refused. The constraints of `migrations/` that decide an answer are in the operators:
foreign keys of tasks, checkpoints and artifacts, what is deleted with a workflow and what
is not, `NOT NULL` of `dependencies` (a nil slice is sent as `NULL`, and
`TaskToRecord` passes a nil slice on), and what `ON CONFLICT` and `UPDATE` leave as it is:
the workflow of an artifact, and the creation time of workflows and tasks (`Over`), which
the memory store replaces. A record is its status, its creation time and whether it has
dependencies; what a store only passes through is left out. The executor stamps a
checkpoint before it calls `SaveCheckpoint` (`StampCheckpoint`), so checkpoints of two runs
may arrive out of the order of their times: the memory store answers the last to arrive,
Postgres the latest. Not modelled are the JSON encoding, the microseconds Postgres cuts
times to, and the creation time of artifacts. The loops over the memory
store's event list are one function, `Only`. The migrations are taken as
applied, but for the foreign key of 000004: it refers to `tasks(id)`, which is not unique
(the key is the pair with the workflow), so Postgres refuses that migration and the
server falls back to the memory store (`cmd/server/main.go:52`); the model is of the
tables without that key, which is what the statements were written for.

### EventBus, EventFeed and AgentTask

An event is numbered by its place among the accepted ones (`accepted` is a history
variable; the channel is what lies after `taken`). `Receive`, `CopySubscribers` and
`CallHandler` are the worker's receive, the copy of the handler list under the read lock
and one call each; handlers subscribe and unsubscribe between any two. `Publish` has the
code's `select` with a default: with the buffer full the event is gone. The handler of a
WebSocket client has a channel of its own and may drop an event. `EventFeed` is what a
subscriber can rely on: accepted events of its types, each once, in order, some missing.
The server starts one worker (`cmd/server/main.go`); the command line starts ten, and has
no order.

`AgentTask` follows a task through `StartTask` (routing: `CapabilityAwareRouter` or
`CostAwareRouter` with its exchange sort, over a registry that lists its agents in map
order), `BeginAttempt`, `Generate` (the agent's prompt, the provider's answer, the usage
event), `FallBack` to the next agent, `AttemptFails` (the last agent, a panic, an answer
that does not fit the schema), `RetryCancelled` and `CompleteTask`. A provider answers or
not; prompts are the sets of tasks whose outputs, stitched artifacts and named references
they contain. `CalculateDelay` keeps its conversions: each turn of its loop multiplies with the factor,
drops what is behind the point (`Truncated`), and a product that does not fit a
`time.Duration` becomes the least one on amd64 (`ToDuration`). The factor, a `float64` in the
code, is any non-negative fraction and the product is exact: that a float has 53 bits, and
a factor that is negative, infinite or no number, are left out. `IntMax` is the greatest
duration. The sort, the sum over an event list and the power in the delay are
functions of an index, one value per turn of the loop. The sum of tokens is one total for all models.

## 3. The runs

Each run finishes within two minutes with two workers. Identifiers are model
values; the MC modules define graphs, costs and policies. Symmetry is used in `store`
only, for creation times and for the contents of agents and artifacts: tasks, runs and requests
play different roles in every other instance.

| Run | Instance | Shows |
|---|---|---|
| `planner` | 3 tasks and an unknown id, every list of at most 2 ids | verdict and plan are right for all 21³ graphs, in every map order: unknown, self, repeated and circular dependencies; the compiler agrees with them; larger graphs are left to the theorems |
| `executor_run` | 1 run, a join `a, b → c`, one slot, one retry of `a`, approval of `b`, deadlines of `a` and `b`, `a` tolerated, `c` may be vetoed, five store calls may fail, the caller may cancel | what the run tells its caller, the store and its handlers; that no goroutine outlives its stage and no task goes on unapproved; that it ends; that it implements `WorkflowRun` |
| `executor_shared` | `Execute` and `Resume` of one workflow, a chain of two tasks, one slot; saves and reads may fail, a task is vetoed, the caller of `Execute` may cancel | inputs and types hold for a run that starts from records read at any moment; no slot is lost or held twice and `Execute` ends beside `Resume` (as `WorkflowRun` with its fairness) |
| `executor_continue` | CONTINUE_ON_FAILURE, a join and a task beside it, two slots; a retry, a veto, a missing worker, no route; two approvals in flight for one task; a second workflow that is refused | every task whose dependencies completed gets its goroutine and the run reports success; what writes a final record again |
| `api` | 1 workflow of two tasks, 2 requests that write and 2 executions (3 in all), every call of the store but `SaveAgent` may err, one restart | who owns a RUNNING record, which runs can be cancelled, what a request that succeeded has done, which agents survive |
| `store` | 1 workflow of one task, an artifact, an agent, two contents, two creation times, two checkpoints, two events with a page of one | where the stores agree, what a deleted workflow takes with it and what each store keeps |
| `agents` | 2 tasks in a chain, the second retried twice, two executors of different cost and an agent of another role, a buffer of two, one worker, a client that comes and goes | tokens, routes, delays, and that the bus implements `EventFeed` and delivers |

Bounds. Three tasks in a join are the least that has siblings and a later stage; one slot
makes them compete; one retry distinguishes first, middle and last attempt; two runs are
what overlapping needs. `MaxRetries` bounds `attempt`, and nothing else in the model
grows, so the state spaces are finite without further constraints. `Approver` bounds
approval requests in flight, not their number. A finished run is not restarted, so the
instances really stop: deadlock checking is off, and that a run does not get stuck is
what `RunsReturn`, `CancelledReturns` and `ImplementsFairRun` say.

In `api`, `Requests`, `Execs` and `Handlers` bound the requests there are: with three, two
can overlap and a third come before or after them, which is what lost updates, a deletion
under a run, or a second execution of a running workflow need; request numbers are never
reused, so it also stops. One workflow suffices because handlers of different workflows
share only the registry, by entries of their own. `SaveAgent` does not err there because
half of `AgentsSurvive` is about a store that keeps agents; its error is ignored in the code.
In `store`, `MaxCheckpoints` and `MaxEvents` bound lists that only grow, and two checkpoints
may arrive in either order. Its tables meet only where two workflows have a task of one name and
share its artifact; that, and any number of workflows, is left to the theorems.
In `agents`, a buffer of two and a chain of tasks that publishes up to ten events make
drops happen, and with `IntMax` 5 the second delay of the policy, 3 times 5/2, is already out of range; a
fraction that loses its half and still fits is left to the theorem.

Each property can fail: for each there is a *mutant* of the code's model (a dropped
guard, a missing reset, an off-by-one; defined just before the operator it replaces and
marked `Mutant of`) under which TLC reports the property violated in the same run.
`PROJECT.json` pairs them.

### Properties

- `VerdictCorrect`, `DependenciesFirst`, `ScheduledOnce`, `PlanComplete`,
  `EarliestStage`, `Returns`: the validator and planner of section 1. `PlanComplete` is
  the one the code never tests: `BuildExecutionPlan` does not compare the number of
  planned tasks with the number of tasks.
- `InputsReady`: a handler of a fail-fast run has the output of every dependency in its
  input, except of one that failed and is tolerated.
- `FailFast`: once a task's error stands, nothing of a later stage is started.
- `SuccessMeansSettled`, `SuccessIsStored`, `StoredCompletedIsSuccess`: a run that
  returns nil has done all tasks and the store says so, whatever calls failed on the
  way; a workflow stored COMPLETED was reported as a success. The record of a tolerated
  *failure* is exempt from `SuccessIsStored`: its store error is ignored
  (`executor.go:557`) and the record can stay RUNNING for ever. So is any task of a run
  that continues on failure: the error of the store call at `executor.go:597` is among
  those it goes on after, so that the run returns nil with a result nobody stored.
- `CheckpointConsistent`: a checkpoint is closed under dependencies and catches no task
  midway.
- `NoStrayGoroutine`, `SlotDiscipline`: barrier and limiter.
- `VerdictFinal`: no write after the verdict, except that of an approval that read the
  record before.
- `OnlyApprovalsReopen`: what takes back a COMPLETED or FAILED record of a task is only ever
  an approval that read it waiting, with two of them in flight, and never a goroutine or a save of the run. That an approval does is the finding of `executor_reapproved` below.
- `ApprovalIsGiven`: a task leaves its poll loop on a RUNNING record; the one it stored
  itself just before it waited is never the one it finds, whichever update fails.
- `ContinueRunsAll`: CONTINUE_ON_FAILURE runs every task whose dependencies completed,
  whatever else fails, and the run returns nil. It asks nothing of the
  dependents of a failed task; what the code does with them is listed below.
- `RunsReturn`, `CancelledReturns`: liveness, section 4.
- `CompilerAgrees`: the second cycle search agrees with the first one on every graph.
  (`StagesAreReady`, that `ReadyTasks` agrees with the stages, is proved only: no program
  runs its tasks by it.)
- `RunningHasOwner`: a RUNNING record is being executed, or the goroutine of the API will
  still look at it, or it is one of `left`. The tail of `handleExecuteWorkflow` is what makes
  it true: `Execute` may return without a verdict in the record. What it rules out is a
  RUNNING left by a cancellation between stages, a verdict the store refused, a workflow
  deleted and made again, or two executions of one workflow; what it cannot rule out is that
  the process ends, or that the tail's own calls err.
- `VerdictStored`: an execution that was alone with its workflow leaves its verdict in the
  record, whichever calls of `Execute` err, unless those of the tail err as well.
- `Cancellable`: `workflowCancels` names only runs inside `Execute`, and names every run
  that nothing has come across.
- `RequestApplied`: a request that answers success and was alone did all it says, an
  update also the deletions.
- `AgentsSurvive`: what is executed finds its agents in the registry, also after a restart.
- `NoOrphans`: no task record without its workflow, in either store, and in Postgres no
  checkpoint either. (The memory store does keep the artifacts of a deleted workflow, and
  takes a checkpoint of one.)
- `AgreeUntilSplit`: until a call on a workflow or artifact was answered differently, the
  two stores answer every read of it alike, but for creation times and for the latest of
  checkpoints that arrived out of order, in which they do differ silently.
- `PostgresKeeps`: what Postgres protects by its keys. `PagesAgree`: pages of events agree
  when events arrived in the order of their times.
- `TokensAccounted`: tokens spent are counted, on their way, or in a dropped event, failed
  attempts and fallbacks included. `CheapestFirst`: the sort is one.
- `BackoffCapped`: the delay is the capped one while the product fits a duration; beyond,
  it is negative, which means no delay: the cap is applied too late.
- `ImplementsFeed`, `AcceptedIsDelivered`: the bus, in order and in the end.

### Where code and documents disagree

Five runs expect a violation; each checks one sentence of the repository on the smallest
instance that shows it.

| Run | The repository says | The code |
|---|---|---|
| `executor_resume_refused` | `architecture.md:74`: checkpoints allow `Resume()` "after a crash or manual pause" | checkpoints hold status RUNNING, `RestoreFromCheckpoint` restores it, and `workflow.Start` refuses a RUNNING workflow: no interrupted workflow with a checkpoint can be resumed |
| `executor_left_open` | `recover.go:103-105`: the goroutine detects `ctx.Done()` and fails the task | in the approval loop it returns without failing it; the task waits for ever |
| `executor_reapproved` | `recover.go:102-105`: the executor's error path "guarantees a single writer for terminal-status transitions" | of two approvals that read the record of one waiting task the second writes RUNNING over the COMPLETED the executor has stored after the first (`server.go:877-889`) |
| `api_shutdown` | `cmd/server/main.go:150`: "Cancel running workflows and wait for goroutines to complete cleanup" | `Wait` counts `Execute`, not the goroutine of the API around it: a run cancelled between two stages returns without a record, and the process may end cleanly before the FAILED is written |
| `agents_context` | `architecture.md:36`: tasks can reference artifacts "by name or ID" | `RecordToWorkflow` leaves `WorkflowID` empty, and the registry finds no artifact for it: in a workflow executed through the API no reference is replaced |

Seen while modelling, not given a run of their own:

- After a failed stage CONTINUE_ON_FAILURE goes on with the dependents of the failed task too,
  which then run without its output (`executor.go:271`); `architecture.md:23` says that it
  "continues executing independent tasks". `ContinueRunsAll` speaks of the independent ones only.
- The supervisor does not recover interrupted workflows after a restart
  (`cmd/server/main.go:83`): it only calls `CancelWorkflow`, which knows the runs of its own
  process (`recover.go:106`), so a record that an ended process left RUNNING stays RUNNING until
  somebody updates, deletes or executes the workflow. `RunningHasOwner` excepts it (`left`).
- Two approvals of one task also break `SuccessIsStored`, with the same write over COMPLETED.
- Of two overlapping runs of a workflow the first to return deletes the other's entry in
  `workflowCancels` (`executor.go:162`), which then cannot be cancelled. `Cancellable`
  excepts it.
- When `GetWorkflow` or `UpdateWorkflow` errs after a failed `Execute` the verdict is lost
  and the record stays RUNNING in a live process (`server.go:853`, `857`). `RunningHasOwner`
  and `VerdictStored` except it.
- The tail of one execution writes FAILED over the record of another one that was started
  meanwhile (`server.go:857`). `VerdictStored` excepts what was `disturbed`.
- A record saved or updated again keeps its creation time in Postgres and gets a new one in
  memory (`postgres.go:68-70`, `memory.go:39`); after two overlapping runs the stores may
  answer different latest checkpoints (`executor.go:327-331`).
- The records of artifacts are overwritten by a later execution (`ON CONFLICT`), while the
  registry keeps the first; `architecture.md:34` calls artifacts immutable.
- `StitchArtifacts` stops at the first artifact that does not fit, in map order, so it may
  leave out those of direct dependencies.
- `Register` refuses an agent id it has: an updated prompt is not used before a restart.
- `cmd/orch/main.go:152` ignores that an approval was rejected.

## 4. Fairness

`Executor` assumes weak fairness of every run that has begun and of every task goroutine:
the Go scheduler runs what can run, handlers return (they get a context and use clients
with timeouts), and the poll ticker of the approval loop fires. The limiter needs strong
fairness of `Acquire`: a slot becomes free again and again, and Go serves goroutines
blocked on a channel in the order they came. Nothing is assumed of the environment: no
caller has to cancel, no deadline to pass, no approval to be given, no supervisor to
look. Hence `RunsReturn` excepts a run one of whose tasks waits for an approval, and
`CancelledReturns` says that even such a run returns once its context ends.
`TopoPlanner` is one sequential call that keeps running: weak fairness of `Next`.
`AgentTask` assumes weak fairness of the bus workers only: they loop over the channel, and
handlers return (they add to a map, append to a log, or call the store). Nothing is
assumed of tasks or clients. `Store` and `Api` state safety only and
assume nothing.

## 5. What is proved

TLAPS checks these for every number of tasks, runs, workflows, requests, slots and
retries, for every plan and every set of faults:

| Theorem | Module | Says |
|---|---|---|
| `ValidatorCorrect` | `ValidatorProofs` | `ValSpec => []VerdictCorrect` |
| `PlannerTypeCorrect` | `TopoPlannerProofs` | `Spec => []TypeOK`: no counter falls below zero |
| `PlanInOrder`, `PlanWithoutRepeats`, `PlanIsTight` | `TopoPlannerProofs` | `Spec => []DependenciesFirst`, `[]ScheduledOnce`, `[]EarliestStage` |
| `PlanHasAllTasks` | `TopoPlannerProofs` | `Spec => []PlanComplete` |
| `ReadyTasksAgree` | `TopoPlannerProofs` | `Spec => []StagesAreReady` |
| `CompilersAgree` | `TopoPlannerProofs` | finite `Task`: `Spec => []CompilerAgrees` |
| `TypeCorrect` | `ExecutorProofs` | `Spec => []TypeOK` |
| `StageBarrier` | `ExecutorProofs` | `Spec => []NoStrayGoroutine` |
| `FailFastHolds` | `ExecutorProofs` | `Spec => []FailFast` |
| `LimiterSound` | `ExecutorProofs` | `Spec => []SlotDiscipline` |
| `HandlersHaveInputs` | `ExecutorProofs` | `Spec => []InputsReady` |
| `SuccessIsMeant` | `ExecutorProofs` | `Spec => []SuccessMeansSettled` |
| `CompletedIsEarned` | `ExecutorResults` | `Spec => []StoredCompletedIsSuccess` |
| `ContinuesToTheEnd` | `ExecutorResults` | `Spec => []ContinueRunsAll` |
| `CheckpointsAreCuts` | `ExecutorResults` | no `Resume`: `Spec => []CheckpointConsistent` |
| `RunImplemented` | `ExecutorResults` | fail-fast: `Spec => ImplementsRun`, of every `Execute`, with any `Resume` beside it |
| `VerdictsAreFinal` | `ExecutorResults` | own workflows: `Spec => VerdictFinal` |
| `SuccessStored` | `ExecutorResults` | own workflows, one approver: `Spec => []SuccessIsStored` |
| `OnlyApprovalsReopenRecords` | `ExecutorResults` | own workflows: `Spec => OnlyApprovalsReopen` |
| `NoTaskIsOrphaned`, `StoresAgreeUntilSplit` | `StoreProofs` | `Spec => []NoOrphans`, `[]AgreeUntilSplit` |
| `PostgresForgetsNothing`, `PagesAreAlike` | `StoreProofs` | `Spec => []PostgresKeeps`, `[]PagesAgree` |
| `RunningIsOwned`, `RunsAreCancellable` | `ApiProofs` | `Spec => []RunningHasOwner`, `[]Cancellable` |
| `AgentsAreKnown` | `ApiProofs` | `Spec => []AgentsSurvive` |
| `VerdictsAreStored`, `RequestsAreApplied` | `ApiProofs` | `Spec => VerdictStored`, `Spec => RequestApplied` |
| `FeedImplemented` | `AgentTaskProofs` | one worker: `Spec => ImplementsFeed`: the bus implements `EventFeed` |
| `TokensAreAccounted` | `AgentTaskProofs` | `Spec => []TokensAccounted` |
| `ExecutorsCheapestFirst`, `DelaysAreCapped` | `AgentTaskProofs` | `Spec => []CheapestFirst`, `[]BackoffCapped` |

Assumptions on constants are named in the modules and evaluated by TLC in the runs:
`NamesAssumption` (the tasks are names, dependency lists are sequences of names),
`PlanAssumption` (what `TopoPlanner` establishes of stages), `ConfigAssumption`,
`NoneAssumption`, `BusAssumption`, `AgentAssumption`, `SetsAssumption` and
`EventAssumption` (ranges of the parameters; the agents of a registry are finitely many).

Some theorems have hypotheses of their own. Each is there because the code does not
promise more:

- *Finite `Task`* in `CompilersAgree`: `workflow.Tasks` is a map, `def.Tasks` a slice. The
  other theorems of the planner do not need it.
- *No `Resume`* in `CheckpointsAreCuts`: a resumed run starts from records other calls wrote,
  at any moment of another run, and from tasks already done.
- *Fail-fast* in `RunImplemented`: with CONTINUE_ON_FAILURE dependents of a failed task
  run too, so the run promises less than `WorkflowRun`.
- *Own workflows* (`OwnWorkflows`: no two runs of one workflow, no `Resume`): two
  executions of a workflow overwrite each other's records. `Api` is where they overlap,
  and there the theorems except what was `disturbed`.
- *One approver* (`OneApprover`) in `SuccessStored`: of two approvals in flight the second
  can write over a final record (run `executor_reapproved`).
- *One worker* in `FeedImplemented`: with more there is no order.

*Validator.* `VerdictCorrect` speaks of the verdict only. `ValInv` follows the search:
`path` lists the recursion stack without repetition and follows the dependencies; the
dependencies a call has passed are explored; a task that was left is passed completely;
the explored tasks contain no cycle. When a task is left, all its dependencies are
explored, so a cycle through it would need an explored task that leads back to it, which
cannot be. When a dependency is on the stack, the path from it to the current task is the
cycle.

*Planner.* `TopoInv` adds to `ValInv` what the counters count: `indegree[t]` is the number
of positions of the list of `t` that hold a task not processed yet (`CountInv`), so it is
zero exactly when all dependencies are processed, repeated ones included. What is planned
is processed or of the current level (`LevelInv`), so a new stage has only planned
dependencies and no planned task; a task not planned has a dependency that was not
planned before the last stage (`WaitingInv`), so it is never late. If the loop ended with
tasks left, each would wait for one of them: a cycle, which `ValInv` excludes. That
`ReadyTasks` agrees is `CountInv` again.

*Compiler.* `CompilerAgrees` compares the state of one search with the result of another,
which is a recursive function and has no invariant. It is proved by induction on the depth
a call may nest (`CallWorks`, `HasCycleWorks`), inside it on the neighbours of a node
(`RoundKept`), and outside on the tasks of the definition (`RootKept`). What the
inductions carry is `Sound`: what is visited and off the stack leads nowhere else and has
no cycle (`NoNewCycle`). A neighbour on the stack closes a cycle (`BackEdge`), because
everything on the stack reaches the node of the call (`Reaches`). At the end everything is
visited and the stack is empty, so the search has found a cycle exactly when there is one
(`SearchWorks`), and the validator's verdict, by `ValInv` and `ErrorsMeant`, is the same.
`OrderLists` and `ListDescribes` bring any order of the tasks under it.

*Executor.* `TypeCorrect` first: `TypeOK` is inductive, one lemma each for the steps of
task goroutines, runs and environment. `NoStrayGoroutine` is not inductive: that no
goroutine is active outside `join` needs that active ones belong to the current stage
(`ActiveInStage`), which needs that none exists before the plan (`NoneBeforePlan`).
`FailFast` needs that an error keeps its run at its stage (`ErrorsStop`) and that
goroutines were started in the order of the stages (`StartedInOrder`). `BarrierInv` is
their conjunction with `TypeOK`. `LimiterSound` carries, besides the equation of
`holders` with the goroutines between `Acquire` and `Release`, that `holders` is finite,
without which its cardinality says nothing.

`InputsReady` and `SuccessMeansSettled` are about what earlier stages left behind.
`RunInv` says of each run where its plan begins and that it knows the dependencies of its
tasks (`PlanWalked`); that of the tasks of a stage only those already COMPLETED got no
goroutine (`StagesStarted`); that a fail-fast run leaves no task of an earlier stage
unsettled (`StagesSettled`); that a task between its start and its last attempt holds the
outputs it was given (`InputsKept`); and what a result means (`ResultMeant`).

`ExecutorResults` adds the records. `CompletedInv`: COMPLETED gets into a
record, or into the memory of a `Resume` that may save it, only after some run returned
nil, and never into a checkpoint.
`ExecuteInv` follows the tasks of a run that is no `Resume`, which start as `NewTask` and
are never midway outside the join; a checkpoint is written there, hence a cut. `ContinueInv`
says what an unhindered run that continues cannot have met. With workflows of their own,
`VerdictInv` ties each workflow record to the end of its run. `FinalInv` has what holds with
any number of approvals: a record is final only behind its goroutine, and every approval
under way read a waiting one, so that nobody else writes it again. `RecordsInv`, with one
approver, ties each task record to its goroutine: WAITING_FOR_APPROVAL only where it waits, and
the completed task itself where it returned without an error; a ticket of an approval is
of a task that still waits. Only the steps of a run, for its own records, have to be
looked at then. `RunImplemented` maps each
action of an `Execute`, and those of a `Resume` stutter: most stutter too, and the end of a
handler that succeeded, or of a tolerated failure, is `Settle`; its dependencies are settled
by `StagesSettled`.

*Store.* `StoreInv` has what the tables of one store owe each other (`OwnTables`: no task
without its workflow, in Postgres no artifact either, checkpoints in order) and what the two owe
each other where they have answered alike (`Together`). A call is treated once, for both
stores, by the tables it touches. `PagesAgree` compares a backward loop over a list with
`ORDER BY ... LIMIT`: if the list is in the order of times, the last `n` of its entries are
those that fewer than `n` are later than, by counting.

*Event bus.* Order is a matter of the one worker. `BusInv` says: its event is the last
one taken from the channel; before it has copied the subscribers every handler has seen
only earlier events, and afterwards so has every handler it has still to call, each of
which listens to the event's type. Then a call shows a handler a later event than all it
has seen, and every other step is hidden from the feed or accepts an event.

*Tokens, routes, delays.* `TokensAccounted` needs that no handler is called twice with an
event, now with any number of workers: `Once` says that an event is in the hands of one
worker at most and that what a handler has seen is taken and no longer owed to it. Then the
sum over the events still to come loses exactly what the totals gain (`SumOfNats`).
`CheapestFirst` is the correctness of the exchange sort, by induction on its two loops: the
places before `i` are sorted and none of them is dearer than a later one, and the list
keeps its members. `BackoffCapped` follows the products by induction on the attempt: one
that fits is the ideal one, and once one did not fit the factor is above one, so that none
fits again (`Tracks`, `Multiplied`; `Smaller` and `Greater` say what a fraction does to a
number).

*Api.* `RunningHasOwner` is not inductive: an execution that leaves `Execute` with a success
is counted among the owners but will look at nothing any more. `OwnerInv` asks for an owner
that still owes something (`Owes`: it runs, leaves with an error, or is in the tail), which
a success does not, since it has just written COMPLETED; if the record is RUNNING again by
then, another execution wrote that and owes for itself. The other four say what somebody
who is not in `disturbed` finds as it left it: an execution its entry in `workflowCancels`
(`Cancellable` with `ApiOK`), its record (`VerdictKnown`), a request the records it has
written so far and no others (`AsAsked`). A step of anybody else on the same workflow puts
it into `disturbed`, so only its own steps need work (`Meets`). `AgentsKnown` follows an
agent from the request that registers it to the execution, across a restart by way of the
agent records.

*Induction.* The library's induction theorems take the property as an operator, which the
provers here cannot instantiate. `InductionLemmas` states induction for a property that
is a *set*: a set of numbers, of numbers in an interval, of subsets. That suffices for all
of the above: a recursive function of an index is shown to be what its loop says
(`IntervalRecursion`), and what the loop keeps is then a set of indices.

Only model-checked: `ApprovalIsGiven`, and the liveness properties (`Returns`, `RunsReturn`, `CancelledReturns`,
`ImplementsFairRun`, `AcceptedIsDelivered`), which are beyond the prover, as is `ENABLED`.
Every other safety invariant and action property of the passing runs is a theorem. The
five runs that expect a violation have nothing to prove.

## 6. Not modelled, and the plan

Not modelled:

- *Reconfiguration* of the executor (limiter, router, middleware, plugins): no program
  does it after start.
- `TokenBucketLimiter`, `RetryWorkerWrapper`, tools, memory, plugins, the worker registry:
  no program uses or fills them.
- `Supervisor.Start` and `Stop`: once each per process. (`Stop` closes a channel that a
  second `Start` would need.)
- Handlers of the API that only read, the chat helper and the settings: they write no
  record of a workflow. `cmd/orch` runs one workflow in a process of its own.
- Requests to providers, the parsing of their answers, logging, metrics and tracing,
  configuration and secrets, the browser client: input and output whose effect here is a
  call that succeeds or fails.

Next in the plan:

1. `CheckpointConsistent` for a `Resume` whose records come from one finished run, and
   `SuccessIsStored` for runs that follow one another on one workflow, in place of
   `OwnWorkflows`.
2. A refinement of `Api`'s executions by `Executor`: the projection of a run to its writes
   of the workflow's records.
3. Limiters and retry wrapper, should a program begin to use them.
