--------------------------- MODULE ExecutorResults ---------------------------
(***************************************************************************)
(* What a run tells its caller and leaves in the store, for every value of *)
(* the constants: the records and checkpoints behind a result, runs that   *)
(* continue on failure, and that an Execute implements WorkflowRun.        *)
(***************************************************************************)
EXTENDS ExecutorProofs, ExecutorRefinement

(* COMPLETED gets into the records only with the success of a run: until   *)
(* its verdict a run that has started is RUNNING, one that has not is what *)
(* Resume read, and no checkpoint is of a completed workflow.              *)
Succeeded(w) == \E r \in Run : WorkflowOf[r] = w /\ result[r] = "ok"

Starting == {"getTasks", "getCheckpoint", "register", "saveWorkflow", "saveTasks"}

CompletedInv ==
  /\ \A w \in Workflow : wfRec[w] = "COMPLETED" => Succeeded(w)
  /\ \A r \in Run : pc[r] \in {"plan", "stage", "join"} => wfStatus[r] = "RUNNING"
  /\ \A r \in Run : pc[r] \in Starting /\ wfStatus[r] = "COMPLETED" => Succeeded(WorkflowOf[r])
  /\ \A r \in Run \ Resumed : pc[r] \in Starting \cup {"idle"} =>
       pc[r] \in {"idle", "saveWorkflow", "saveTasks"} /\ wfStatus[r] = "PENDING"
  /\ \A w \in Workflow : checkpoint[w].status \in {Absent, "RUNNING"}

(* A result, once there, stays. *)
LEMMA ResultStays ==
  ASSUME TypeOK, RunInv, NEW r \in Run, RunStep(r)
  PROVE  \A q \in Run : result[q] # None => result'[q] = result[q]
<1>1. SUFFICES ASSUME NEW q \in Run, result[q] # None PROVE result'[q] = result[q]
  OBVIOUS
<1>2. CASE q # r
  BY <1>2, RunElsewhere DEF SameRun
<1>3. CASE q = r
  <2>1. pc[r] \in {"return", "done"}
    BY <1>1, <1>3 DEF RunInv, RunOK, ResultMeant
  <2>2. Return(r)
    BY <2>1 DEF RunStep, ResumeGetWorkflow, ResumeGetTasks, ResumeRestore, Register,
                SaveWorkflow, SaveTask, StartWorkflow, BuildPlan, StageCancelled, StartStage,
                StageSucceeds, StageErrTolerated, StageFails, CompleteWorkflow, Joined
  <2> QED
    BY <1>3, <2>2 DEF Return
<1> QED
  BY <1>2, <1>3

LEMMA CompletedRunStep ==
  ASSUME TypeOK, RunInv, CompletedInv, NEW r \in Run, RunStep(r)
  PROVE  CompletedInv'
<1> DEFINE w == WorkflowOf[r]
<1>1. /\ w \in Workflow /\ pc \in [Run -> PC] /\ wfStatus \in [Run -> WorkflowStatus]
      /\ wfRec \in [Workflow -> WorkflowStatus \cup {Absent}]
      /\ checkpoint \in [Workflow -> Checkpoint]
      /\ result \in [Run -> {None, "ok", "error"}]
  BY ConfigAssumption DEF TypeOK
<1>2. \A v \in Workflow : Succeeded(v) => Succeeded(v)'
  <2>1. SUFFICES ASSUME NEW v, NEW q \in Run, WorkflowOf[q] = v, result[q] = "ok"
                 PROVE  Succeeded(v)'
    BY DEF Succeeded
  <2>2. result'[q] = "ok"
    BY <2>1, ResultStays DEF None
  <2> QED
    BY <2>1, <2>2 DEF Succeeded
<1>3. \A q \in Run \ {r} : pc'[q] = pc[q] /\ wfStatus'[q] = wfStatus[q]
  BY RunElsewhere DEF SameRun
<1>4. WorkflowOf \in [Run -> Workflow]
  BY ConfigAssumption
(* It suffices to look at the run, the record and the checkpoint. *)
<1>5. ASSUME \/ wfRec' = wfRec
             \/ \E s : wfRec' = [wfRec EXCEPT ![w] = s] /\ (s = "COMPLETED" => Succeeded(w)'),
             pc'[r] \in {"plan", "stage", "join"} => wfStatus'[r] = "RUNNING",
             pc'[r] \in Starting /\ wfStatus'[r] = "COMPLETED" => Succeeded(w)',
             r \notin Resumed /\ pc'[r] \in Starting \cup {"idle"} =>
               pc'[r] \in {"idle", "saveWorkflow", "saveTasks"} /\ wfStatus'[r] = "PENDING",
             \/ checkpoint' = checkpoint
             \/ \E s : checkpoint' = [checkpoint EXCEPT ![w] = s] /\ s.status = "RUNNING"
      PROVE  CompletedInv'
  <2>1. \A v \in Workflow : wfRec'[v] = "COMPLETED" => Succeeded(v)'
    BY <1>1, <1>2, <1>5 DEF CompletedInv
  <2>2. \A v \in Workflow : checkpoint'[v].status \in {Absent, "RUNNING"}
    BY <1>1, <1>5 DEF CompletedInv
  <2>3. \A q \in Run : pc'[q] \in {"plan", "stage", "join"} => wfStatus'[q] = "RUNNING"
    BY <1>3, <1>5 DEF CompletedInv
  <2>4. \A q \in Run : pc'[q] \in Starting /\ wfStatus'[q] = "COMPLETED"
                         => Succeeded(WorkflowOf[q])'
    BY <1>2, <1>3, <1>4, <1>5 DEF CompletedInv
  <2>5. \A q \in Run \ Resumed : pc'[q] \in Starting \cup {"idle"} =>
          pc'[q] \in {"idle", "saveWorkflow", "saveTasks"} /\ wfStatus'[q] = "PENDING"
    BY <1>3, <1>5 DEF CompletedInv
  <2> QED
    BY <2>1, <2>2, <2>3, <2>4, <2>5 DEF CompletedInv
<1> USE DEF Starting
<1>s. storeVars' = storeVars => wfRec' = wfRec /\ checkpoint' = checkpoint
  BY DEF storeVars
<1>6. CASE ResumeGetWorkflow(r)
  <2>1. /\ r \in Resumed /\ wfRec' = wfRec /\ checkpoint' = checkpoint
        /\ pc'[r] \in {"getTasks", "done"}
        /\ pc'[r] = "getTasks" => wfStatus'[r] = wfRec[w]
    BY <1>1, <1>6, <1>s DEF ResumeGetWorkflow, RunGoTo
  <2> QED
    BY <1>1, <1>2, <1>5, <2>1 DEF CompletedInv
<1>7. CASE ResumeGetTasks(r) \/ SaveWorkflow(r) \/ \E t \in Task : SaveTask(r, t)
  <2>1. /\ pc[r] \in Starting /\ pc'[r] \in {"getCheckpoint", "saveTasks", "return", "done"}
        /\ pc'[r] = "getCheckpoint" => pc[r] = "getTasks"
        /\ wfStatus' = wfStatus /\ checkpoint' = checkpoint
        /\ wfRec' = wfRec \/ wfRec' = [wfRec EXCEPT ![w] = wfStatus[r]]
    BY <1>1, <1>7, <1>s DEF ResumeGetTasks, SaveWorkflow, SaveTask, RunGoTo, RunReturns
  <2> QED
    BY <1>1, <1>2, <1>5, <2>1 DEF CompletedInv
<1>8. CASE ResumeRestore(r)
  <2>1. /\ pc[r] = "getCheckpoint" /\ pc'[r] = "register"
        /\ wfRec' = wfRec /\ checkpoint' = checkpoint
        /\ \/ wfStatus'[r] = checkpoint[w].status /\ checkpoint[w].status # Absent
           \/ wfStatus'[r] = wfStatus[r]
    BY <1>1, <1>8, <1>s DEF ResumeRestore, RunGoTo
  <2>2. wfStatus'[r] = "RUNNING" \/ wfStatus'[r] = wfStatus[r]
    BY <1>1, <2>1 DEF CompletedInv
  <2>3. r \in Resumed
    BY <2>1 DEF CompletedInv
  <2> QED
    BY <1>1, <1>2, <1>5, <2>1, <2>2, <2>3 DEF CompletedInv
<1>9. CASE Register(r)
  <2>1. /\ pc[r] \in {"idle", "register"} /\ (pc[r] = "idle" => r \notin Resumed)
        /\ pc'[r] = "saveWorkflow" /\ wfStatus' = wfStatus
        /\ wfRec' = wfRec /\ checkpoint' = checkpoint
    BY <1>1, <1>9, <1>s DEF Register, RunGoTo
  <2> QED
    BY <1>1, <1>2, <1>5, <2>1 DEF CompletedInv
<1>10. CASE StartWorkflow(r)
  <2>1. /\ checkpoint' = checkpoint
        /\ \/ pc'[r] = "return" /\ wfRec' = wfRec
           \/ /\ pc'[r] = "plan" /\ wfStatus'[r] = "RUNNING"
              /\ wfRec' = [wfRec EXCEPT ![w] = "RUNNING"]
    BY <1>1, <1>10, <1>s DEF StartWorkflow, RunGoTo, RunReturns
  <2> QED
    BY <1>5, <2>1
<1>11. CASE \/ BuildPlan(r) \/ StageCancelled(r) \/ StartStage(r) \/ StageErrTolerated(r)
            \/ Return(r)
  <2>1. /\ wfRec' = wfRec /\ checkpoint' = checkpoint /\ wfStatus' = wfStatus
        /\ \/ pc[r] \in {"plan", "stage", "join"} /\ pc'[r] \in {"stage", "join", "return"}
           \/ pc'[r] = "done"
    BY <1>1, <1>11, <1>s DEF BuildPlan, StageCancelled, StartStage, StageErrTolerated, Return,
                             Joined, NextStage, RunGoTo, RunReturns
  <2> QED
    BY <1>5, <2>1 DEF CompletedInv
<1>12. CASE StageSucceeds(r)
  <2>1. /\ wfRec' = wfRec /\ wfStatus' = wfStatus /\ pc[r] = "join" /\ pc'[r] = "stage"
        /\ \/ checkpoint' = [checkpoint EXCEPT ![w] = [status |-> wfStatus[r], tasks |-> task[r]]]
           \/ checkpoint' = checkpoint
    BY <1>1, <1>12, <1>s DEF StageSucceeds, Joined, NextStage, RunGoTo
  <2>2. wfStatus[r] = "RUNNING"
    BY <2>1 DEF CompletedInv
  <2>3. [status |-> wfStatus[r], tasks |-> task[r]].status = "RUNNING"
    BY <2>2
  <2> QED
    BY <1>5, <2>1, <2>2, <2>3
<1>13. CASE StageFails(r)
  <2>1. /\ checkpoint' = checkpoint /\ pc'[r] = "return"
        /\ wfRec' = wfRec \/ wfRec' = [wfRec EXCEPT ![w] = "FAILED"]
    BY <1>1, <1>13 DEF StageFails, RunGoTo, RunReturns
  <2> QED
    BY <1>5, <2>1
<1>14. CASE CompleteWorkflow(r)
  <2>1. /\ checkpoint' = checkpoint /\ pc'[r] = "return"
        /\ \/ wfRec' = wfRec
           \/ wfRec' = [wfRec EXCEPT ![w] = "COMPLETED"] /\ result'[r] = "ok"
    BY <1>1, <1>14 DEF CompleteWorkflow, RunGoTo, RunReturns
  <2>2. result'[r] = "ok" => Succeeded(w)'
    BY DEF Succeeded
  <2> QED
    BY <1>5, <2>1, <2>2
<1> QED
  BY <1>6, <1>7, <1>8, <1>9, <1>10, <1>11, <1>12, <1>13, <1>14 DEF RunStep

LEMMA CompletedAlways == Spec => []CompletedInv
<1>1. Init => CompletedInv
  BY DEF Init, CompletedInv, Starting, NoCheckpoint, Absent
<1>2. BarrierInv /\ RunInv /\ CompletedInv /\ [Next]_vars => CompletedInv'
  <2> SUFFICES ASSUME BarrierInv, RunInv, CompletedInv, [Next]_vars PROVE CompletedInv'
    OBVIOUS
  <2>1. ASSUME UNCHANGED <<pc, result, wfStatus, wfRec, checkpoint>> PROVE CompletedInv'
    BY <2>1 DEF CompletedInv, Succeeded
  <2>2. CASE EnvStep \/ UNCHANGED vars
    BY <2>1, <2>2 DEF EnvStep, Abort, Expire, FindStuck, CancelWorkflow, ReadForApproval,
                      WriteApproval, vars, runVars, storeVars
  <2>3. ASSUME NEW r \in Run, NEW t \in Task, TaskStep(r, t) PROVE CompletedInv'
    BY <2>1, <2>3, TaskRest
  <2>4. ASSUME NEW r \in Run, RunStep(r) PROVE CompletedInv'
    BY <2>4, CompletedRunStep DEF BarrierInv
  <2> QED
    BY <2>2, <2>3, <2>4 DEF Next
<1> QED
  BY <1>1, <1>2, RunAlways, PTL DEF Spec

(* A workflow is stored COMPLETED only when some run of it has returned    *)
(* nil, whatever other runs of it there are, resumed ones included.        *)
THEOREM CompletedIsEarned == Spec => []StoredCompletedIsSuccess
<1>1. CompletedInv => StoredCompletedIsSuccess
  BY DEF CompletedInv, Succeeded, StoredCompletedIsSuccess
<1> QED
  BY <1>1, CompletedAlways, PTL
----------------------------------------------------------------------------
(* The tasks of an Execute are as submitted until their goroutine starts,  *)
(* and their status follows it until executeTask returns.                  *)
StatusFollows(r) ==
  \A t \in Task :
    /\ tpc[r][t] = None => task[r][t] = NewTask
    /\ tpc[r][t] \in {"acquire", "prepare"} => task[r][t].status = "PENDING"
    /\ tpc[r][t] \in {"approval", "gate", "running", "backoff"} => task[r][t].status = "RUNNING"
    /\ tpc[r][t] = "waiting" => task[r][t].status = "WAITING_FOR_APPROVAL"

ExecuteInv == \A r \in Run \ Resumed : StatusFollows(r)

LEMMA ExecuteTaskStep ==
  ASSUME BarrierInv, ExecuteInv, NEW r \in Run, NEW t \in Task, TaskStep(r, t)
  PROVE  ExecuteInv'
<1>0. TypeOK
  BY DEF BarrierInv
<1>1. PICK l \in TaskPC, s \in TaskRecord : Leads(r, t, l, s)
  BY <1>0, TaskEffect
<1>2. /\ \A q \in Run, u \in Task :
           /\ tpc'[q][u] = IF q = r /\ u = t THEN l ELSE tpc[q][u]
           /\ task'[q][u] = IF q = r /\ u = t THEN s ELSE task[q][u]
  BY <1>0, <1>1, GoPoints
<1>3. SUFFICES ASSUME NEW q \in Run \ Resumed PROVE StatusFollows(q)'
  BY DEF ExecuteInv
<1>4. StatusFollows(q)
  BY DEF ExecuteInv
<1>5. CASE q # r
  BY <1>2, <1>4, <1>5 DEF StatusFollows
<1>6. CASE q = r
  <2>1. Effect(r, t, l, s)
    BY <1>1 DEF Leads
  <2>2. l # None
    BY <2>1 DEF Effect, Passes, Prepares, Proceeds, Ends, None
  <2>3. /\ l \in {"acquire", "prepare"} => s.status = "PENDING"
        /\ l \in {"approval", "gate", "running", "backoff"} => s.status = "RUNNING"
        /\ l = "waiting" => s.status = "WAITING_FOR_APPROVAL"
    BY <1>4, <1>6, <2>1 DEF Effect, Passes, Prepares, Proceeds, Ends, StatusFollows
  <2> QED
    BY <1>2, <1>4, <1>6, <2>2, <2>3 DEF StatusFollows
<1> QED
  BY <1>5, <1>6

LEMMA ExecuteRunStep ==
  ASSUME BarrierInv, RunInv, CompletedInv, ExecuteInv, NEW r \in Run, RunStep(r)
  PROVE  ExecuteInv'
<1>1. SUFFICES ASSUME NEW q \in Run \ Resumed PROVE StatusFollows(q)'
  BY DEF ExecuteInv
<1>2. StatusFollows(q) /\ TypeOK
  BY DEF ExecuteInv, BarrierInv
<1>3. ASSUME task'[q] = task[q], tpc'[q] = tpc[q] PROVE StatusFollows(q)'
  BY <1>2, <1>3 DEF StatusFollows
<1>4. CASE q # r
  BY <1>2, <1>3, <1>4, RunElsewhere DEF SameRun
<1>5. CASE q = r /\ StartStage(r)
  <2>1. /\ pc[r] = "stage" /\ task' = task
        /\ tpc' = [tpc EXCEPT ![r] = [t \in Task |->
              IF t \in StageTasks(r) /\ task[r][t].status # "COMPLETED"
              THEN "acquire" ELSE tpc[r][t]]]
    BY <1>5 DEF StartStage
  <2>2. \A t \in Task : \/ tpc'[r][t] = tpc[r][t]
                        \/ tpc'[r][t] = "acquire" /\ t \in StageTasks(r)
    BY <1>2, <2>1 DEF TypeOK
  <2>3. \A t \in StageTasks(r) : tpc[r][t] = None
    BY <2>1, PlanAssumption, <1>2 DEF RunInv, RunOK, StagesStarted, StageTasks, Known, TypeOK
  <2>4. \A t \in StageTasks(r) : task[r][t].status = "PENDING"
    BY <1>2, <1>5, <2>3 DEF StatusFollows, NewTask, StageTasks, Known
  <2> QED
    BY <1>2, <1>5, <2>1, <2>2, <2>4 DEF StatusFollows, None
<1>6. CASE q = r /\ ~ StartStage(r)
  <2>1. pc[r] \notin {"getTasks", "getCheckpoint"}
    BY <1>6 DEF CompletedInv, Starting
  <2>2. tpc' = tpc /\ task' = task
    BY <1>6, <2>1
       DEF RunStep, RunFrame, goVars, ResumeGetWorkflow, ResumeGetTasks, ResumeRestore, Register,
           SaveWorkflow, SaveTask, StartWorkflow, BuildPlan, StageCancelled, StageSucceeds,
           StageErrTolerated, StageFails, CompleteWorkflow, Return
  <2> QED
    BY <1>3, <2>2
<1> QED
  BY <1>4, <1>5, <1>6

LEMMA ExecuteAlways == Spec => []ExecuteInv
<1>1. Init => ExecuteInv
  BY DEF Init, ExecuteInv, StatusFollows, None
<1>2. BarrierInv /\ RunInv /\ CompletedInv /\ ExecuteInv /\ [Next]_vars => ExecuteInv'
  <2> SUFFICES ASSUME BarrierInv, RunInv, CompletedInv, ExecuteInv, [Next]_vars
               PROVE  ExecuteInv'
    OBVIOUS
  <2>1. CASE EnvStep \/ UNCHANGED vars
    BY <2>1, EnvFrame DEF ExecuteInv, StatusFollows
  <2> QED
    BY <2>1, ExecuteTaskStep, ExecuteRunStep DEF Next
<1> QED
  BY <1>1, <1>2, RunAlways, CompletedAlways, PTL DEF Spec

(* All that is known of a run by itself, and the tasks of an Execute. *)
ResultInv == BarrierInv /\ RunInv /\ CompletedInv /\ ExecuteInv

LEMMA ResultAlways == Spec => []ResultInv
BY RunAlways, CompletedAlways, ExecuteAlways, PTL DEF ResultInv

(* An Execute knows all tasks. *)
LEMMA KnowsAll ==
  ASSUME ResultInv, NEW r \in Run \ Resumed
  PROVE  Known(r) = Task
<1>1. \A t \in Task : tpc[r][t] # None => t \in Known(r)
  BY DEF ResultInv, BarrierInv, StartedInOrder
<1>2. \A t \in Task : tpc[r][t] = None => task[r][t].status = "PENDING"
  BY DEF ResultInv, ExecuteInv, StatusFollows, NewTask
<1> QED
  BY <1>1, <1>2 DEF Known, Absent
----------------------------------------------------------------------------
(* Every checkpoint of a fail-fast Execute is a consistent cut.            *)
LEMMA CheckpointStep ==
  ASSUME Resumed = {}, ResultInv, ResultInv', CheckpointConsistent, [Next]_vars
  PROVE  CheckpointConsistent'
<1>1. CASE checkpoint' = checkpoint
  BY <1>1 DEF CheckpointConsistent
<1>2. CASE checkpoint' # checkpoint
  <2>1. PICK r \in Run : StageSucceeds(r)
    <3>1. ~ EnvStep /\ ~ UNCHANGED vars
      BY <1>2 DEF EnvStep, Abort, Expire, FindStuck, CancelWorkflow, ReadForApproval,
                  WriteApproval, vars, storeVars
    <3>2. ~ \E r \in Run, t \in Task : TaskStep(r, t)
      BY <1>2, TaskRest
    <3>3. PICK r \in Run : RunStep(r)
      BY <3>1, <3>2 DEF Next
    <3>4. StageSucceeds(r)
      BY <1>2, <3>3 DEF RunStep, storeVars, ResumeGetWorkflow, ResumeGetTasks, ResumeRestore,
           Register, SaveWorkflow, SaveTask, StartWorkflow, BuildPlan, StageCancelled, StartStage,
           StageErrTolerated, StageFails, CompleteWorkflow, Return
    <3> QED
      BY <3>4
  <2>2. TypeOK /\ r \notin Resumed
    BY DEF ResultInv, BarrierInv
  <2> DEFINE w == WorkflowOf[r]
  <2>3. /\ checkpoint' = [checkpoint EXCEPT ![w] = [status |-> wfStatus[r], tasks |-> task[r]]]
        /\ task' = task /\ tpc' = tpc /\ stage'[r] = stage[r] + 1 /\ pc[r] = "join"
    BY <1>2, <2>1, <2>2 DEF StageSucceeds, Joined, NextStage, RunFrame, goVars, TypeOK
  <2>4. w \in Workflow /\ checkpoint'[w].tasks = task[r] /\ stage[r] \in Nat
    BY <2>2, <2>3, ConfigAssumption DEF TypeOK
  <2>5. \A v \in Workflow \ {w} : checkpoint'[v] = checkpoint[v]
    BY <2>2, <2>3 DEF TypeOK
  <2>6. SUFFICES ASSUME ~ ContinueOnFailure, NEW t \in Task
                 PROVE  /\ Settled(r, t) => \A d \in Deps[t] : Settled(r, d)
                        /\ ~ Settled(r, t) => task[r][t].status = "PENDING"
    <3> DEFINE done(v, u) ==
           \/ checkpoint'[v].tasks[u].status = "COMPLETED"
           \/ checkpoint'[v].tasks[u].status = "FAILED" /\ u \in Tolerated
    <3>1. \A t \in Task : done(w, t) <=> Settled(r, t)
      BY <2>2, <2>4 DEF Settled, Tolerates
    <3>2. \A t \in Task : Deps[t] \subseteq Task
      BY PlanAssumption
    <3>3. ~ ContinueOnFailure => \A t \in Task :
            /\ done(w, t) => \A d \in Deps[t] : done(w, d)
            /\ ~ done(w, t) => checkpoint'[w].tasks[t].status \in {"PENDING", Absent}
      BY <2>4, <2>6, <3>1, <3>2
    <3>4. \A v \in Workflow \ {w} : ~ ContinueOnFailure => \A t \in Task :
            checkpoint'[v].status # Absent =>
              /\ done(v, t) => \A d \in Deps[t] : done(v, d)
              /\ ~ done(v, t) => checkpoint'[v].tasks[t].status \in {"PENDING", Absent}
      BY <2>5 DEF CheckpointConsistent
    <3> QED
      BY <3>3, <3>4 DEF CheckpointConsistent
  <2>7. /\ Known(r)' = Known(r) /\ Continues(r)' = Continues(r)
        /\ \A u \in Task : Settled(r, u)' = Settled(r, u)
    BY <2>3 DEF Known, Continues, Settled, Tolerates
  <2>8. \A u \in Task : Level[u] < stage[r] + 1 => Settled(r, u)
    <3>1. Known(r) = Task
      BY <2>2, KnowsAll
    <3>2. StagesSettled(r)'
      BY DEF ResultInv, RunInv, RunOK
    <3> QED
      BY <2>3, <2>6, <2>7, <3>1, <3>2 DEF StagesSettled, Continues
  <2>9. \A u \in Task : ~ (Level[u] < stage[r] + 1) => task[r][u].status = "PENDING"
    <3>1. SUFFICES ASSUME NEW u \in Task, ~ (Level[u] < stage[r] + 1)
                   PROVE  task[r][u].status = "PENDING"
      OBVIOUS
    <3>2. tpc[r][u] # None => Level[u] <= stage[r]
      BY <2>3 DEF ResultInv, BarrierInv, StartedInOrder
    <3>3. tpc[r][u] = None
      BY <2>4, <3>1, <3>2, PlanAssumption
    <3> QED
      BY <2>2, <3>3 DEF ResultInv, ExecuteInv, StatusFollows, NewTask
  <2>10. \A d \in Deps[t] : d \in Task /\ Level[d] < Level[t]
    BY PlanAssumption
  <2>11. CASE Level[t] < stage[r] + 1
    <3>1. \A d \in Deps[t] : Level[d] < stage[r] + 1
      BY <2>4, <2>10, <2>11, PlanAssumption
    <3> QED
      BY <2>8, <2>10, <2>11, <3>1
  <2>12. CASE ~ (Level[t] < stage[r] + 1)
    BY <2>9, <2>12 DEF Settled
  <2> QED
    BY <2>11, <2>12
<1> QED
  BY <1>1, <1>2

(* Whatever fails, an Execute under fail-fast never saves a checkpoint     *)
(* that has a task without its dependencies or a task midway               *)
(* (executor.go:317-330).  A Resume does not keep it: it starts from       *)
(* records that other calls wrote.                                         *)
THEOREM CheckpointsAreCuts ==
  ASSUME Resumed = {}
  PROVE  Spec => []CheckpointConsistent
<1>1. Init => CheckpointConsistent
  BY DEF Init, CheckpointConsistent, NoCheckpoint
<1>2. ResultInv /\ ResultInv' /\ CheckpointConsistent /\ [Next]_vars => CheckpointConsistent'
  BY CheckpointStep
<1> QED
  BY <1>1, <1>2, ResultAlways, PTL DEF Spec
----------------------------------------------------------------------------
(* What keeps a continuing run going: nobody outside may cancel it, its    *)
(* graph has a plan and the store does not fail.                           *)
Unhindered(r) ==
  /\ Continues(r) /\ r \notin Abortable /\ WorkflowOf[r] \notin Rejected
  /\ Faults = {} /\ HasTimeout = {}

Continued(r) ==
  /\ r \in cancelled => pc[r] = "done"
  /\ pc[r] \in {"return", "done"} =>
       result[r] = "ok" /\ \A t \in Task : tpc[r][t] = "finished"
  /\ \A t \in Task : Level[t] < stage[r] => tpc[r][t] = "finished"

(* Without deadlines the supervisor finds nothing to cancel.               *)
NothingStuck == HasTimeout = {} => stuck = {} /\ \A r \in Run : expired[r] = {}

ContinueInv == NothingStuck /\ \A r \in Run : Unhindered(r) => Continued(r)

LEMMA ContinueTaskStep ==
  ASSUME BarrierInv, NEW q \in Run, NEW t \in Task, TaskStep(q, t),
         NEW r \in Run, Unhindered(r), Continued(r)
  PROVE  Continued(r)'
<1>0. TypeOK
  BY DEF BarrierInv
<1>1. PICK l \in TaskPC, s \in TaskRecord : Leads(q, t, l, s)
  BY <1>0, TaskEffect
<1>2. \A u \in Task : tpc'[r][u] = IF r = q /\ u = t THEN l ELSE tpc[r][u]
  BY <1>0, <1>1, GoPoints
<1>3. tpc[q][t] # "finished"
  BY <1>1 DEF Leads, Effect, Passes, Prepares, Proceeds, Ends
<1>4. \A u \in Task : tpc[r][u] = "finished" => tpc'[r][u] = "finished"
  BY <1>2, <1>3
<1>5. UNCHANGED <<pc, stage, result>> /\ (r \in cancelled' => r \in cancelled)
  BY TaskRest DEF Unhindered
<1> QED
  BY <1>4, <1>5 DEF Continued

LEMMA ContinueRunStep ==
  ASSUME ResultInv, NEW r \in Run, RunStep(r), Unhindered(r), Continued(r)
  PROVE  Continued(r)'
<1>1. /\ TypeOK /\ RunOK(r) /\ r \in Run \ Resumed
      /\ Faults = {} /\ Continues(r) /\ WorkflowOf[r] \notin Rejected
  BY DEF ResultInv, BarrierInv, RunInv, Unhindered, Continues
<1>2. Known(r) = Task
  BY <1>1, KnowsAll
<1>3. /\ pc \in [Run -> PC] /\ stage \in [Run -> Nat]
      /\ result \in [Run -> {None, "ok", "error"}]
      /\ tpc \in [Run -> [Task -> TaskPC]] /\ Level \in [Task -> Nat]
  BY <1>1, PlanAssumption DEF TypeOK
<1>4. /\ pc[r] \notin {"getTasks", "getCheckpoint", "register"}
      /\ pc[r] \in {"idle", "saveWorkflow", "saveTasks"} => wfStatus[r] = "PENDING"
  BY <1>1 DEF ResultInv, CompletedInv, Starting
<1>g. goVars' = goVars => tpc' = tpc
  BY DEF goVars
<1>c. ctxVars' = ctxVars => cancelled' = cancelled
  BY DEF ctxVars
(* Up to the plan nothing can fail. *)
<1>5. CASE \/ ResumeGetWorkflow(r) \/ ResumeGetTasks(r) \/ ResumeRestore(r) \/ Register(r)
           \/ SaveWorkflow(r) \/ StartWorkflow(r) \/ BuildPlan(r) \/ StageCancelled(r)
           \/ \E t \in Task : SaveTask(r, t)
  <2>1. \A t \in Task : Deps[t] \subseteq Task
    BY PlanAssumption
  <2>2. /\ tpc' = tpc /\ stage' = stage /\ cancelled' = cancelled /\ pc[r] # "done"
        /\ pc'[r] \notin {"return", "done"}
    BY <1>1, <1>2, <1>3, <1>4, <1>5, <1>g, <1>c, <2>1
       DEF Continued, ResumeGetWorkflow, ResumeGetTasks, ResumeRestore, Register, SaveWorkflow,
           StartWorkflow, BuildPlan, StageCancelled, SaveTask, RunFrame, RunGoTo
  <2> QED
    BY <2>2 DEF Continued
<1>6. CASE StartStage(r)
  <2>1. /\ stage' = stage /\ cancelled' = cancelled /\ pc[r] = "stage" /\ pc'[r] = "join"
        /\ \A t \in Task : t \notin StageTasks(r) => tpc'[r][t] = tpc[r][t]
    BY <1>3, <1>6, <1>c DEF StartStage, RunGoTo
  <2>2. \A t \in Task : Level[t] < stage[r] => t \notin StageTasks(r)
    BY <1>3 DEF StageTasks
  <2> QED
    BY <2>1, <2>2 DEF Continued
<1>7. CASE StageSucceeds(r) \/ StageErrTolerated(r)
  <2>1. /\ tpc' = tpc /\ cancelled' = cancelled /\ Joined(r) /\ pc[r] = "join"
        /\ pc'[r] = "stage" /\ stage'[r] = stage[r] + 1
    BY <1>3, <1>7, <1>g, <1>c DEF StageSucceeds, StageErrTolerated, Joined, NextStage, RunFrame,
                                  RunGoTo
  <2>2. \A t \in StageTasks(r) : tpc[r][t] # None
    BY <1>1, <2>1 DEF RunOK, StagesStarted, ResultInv, ExecuteInv, StatusFollows, StageTasks,
                      Known, NewTask
  <2>3. \A t \in Task : Level[t] = stage[r] => tpc[r][t] = "finished"
    BY <1>2, <2>1, <2>2 DEF Joined, StageTasks
  <2>4. \A t \in Task : Level[t] < stage[r] + 1 => Level[t] < stage[r] \/ Level[t] = stage[r]
    <3>1. stage[r] \in Nat /\ \A t \in Task : Level[t] \in Nat
      BY <1>3
    <3> QED
      BY <3>1
  <2> QED
    BY <2>1, <2>3, <2>4 DEF Continued
<1>8. CASE StageFails(r)
  BY <1>1, <1>8 DEF StageFails
<1>9. CASE CompleteWorkflow(r)
  <2>1. /\ tpc' = tpc /\ cancelled' = cancelled /\ stage' = stage /\ pc[r] = "stage"
        /\ pc'[r] = "return" /\ result'[r] = "ok" /\ StageTasks(r) = {}
    BY <1>1, <1>3, <1>9, <1>g, <1>c DEF CompleteWorkflow, RunFrame, RunGoTo, RunReturns
  <2>2. \A t \in Task : Level[t] < stage[r]
    BY <1>1, <1>2, <2>1, NothingBeyond DEF RunOK, PlanWalked
  <2> QED
    BY <2>1, <2>2 DEF Continued
<1>10. CASE Return(r)
  <2>1. /\ tpc' = tpc /\ stage' = stage /\ result' = result
        /\ pc[r] = "return" /\ pc'[r] = "done"
    BY <1>3, <1>10, <1>g DEF Return, RunGoTo
  <2> QED
    BY <2>1 DEF Continued
<1> QED
  BY <1>5, <1>6, <1>7, <1>8, <1>9, <1>10 DEF RunStep

LEMMA ContinueNext ==
  ASSUME ResultInv, ContinueInv, [Next]_vars
  PROVE  ContinueInv'
<1>0. TypeOK
  BY DEF ResultInv, BarrierInv
<1>1. ASSUME UNCHANGED <<pc, stage, result, tpc, expired, stuck>>,
             \A r \in Run : Unhindered(r) /\ r \in cancelled' => r \in cancelled
      PROVE  ContinueInv'
  BY <1>1 DEF ContinueInv, NothingStuck, Continued, Unhindered, Continues
<1>2. CASE EnvStep
  <2>1. UNCHANGED <<pc, stage, result, tpc>>
    BY <1>2 DEF EnvStep, Abort, Expire, FindStuck, CancelWorkflow, ReadForApproval,
                WriteApproval, runVars, goVars
  <2>2. \A r \in Run : Unhindered(r) /\ r \in cancelled' => r \in cancelled
    BY <1>2 DEF EnvStep, Abort, Expire, FindStuck, CancelWorkflow, ReadForApproval,
                WriteApproval, ctxVars, ContinueInv, NothingStuck, Unhindered
  <2>3. HasTimeout = {} => expired' = expired /\ stuck' = stuck
    BY <1>2 DEF EnvStep, Abort, Expire, FindStuck, CancelWorkflow, ReadForApproval,
                WriteApproval, ctxVars, envVars, ContinueInv, NothingStuck
  <2> QED
    BY <2>1, <2>2, <2>3 DEF ContinueInv, NothingStuck, Continued, Unhindered, Continues
<1>3. CASE UNCHANGED vars
  BY <1>1, <1>3 DEF vars, runVars, goVars, ctxVars, envVars
<1>4. ASSUME NEW q \in Run, NEW t \in Task, TaskStep(q, t)
      PROVE  ContinueInv'
  <2>1. UNCHANGED <<expired, stuck>>
    BY <1>4, TaskRest
  <2>2. \A r \in Run : Unhindered(r) => Continued(r)'
    BY <1>4, ContinueTaskStep DEF ContinueInv, ResultInv
  <2> QED
    BY <2>1, <2>2 DEF ContinueInv, NothingStuck, Unhindered, Continues
<1>5. ASSUME NEW q \in Run, RunStep(q)
      PROVE  ContinueInv'
  <2>1. UNCHANGED <<expired, stuck>> /\ cancelled' \subseteq cancelled \cup {q}
    BY <1>5 DEF RunStep, RunFrame, ctxVars, envVars, ResumeGetWorkflow, ResumeGetTasks,
           ResumeRestore, Register, SaveWorkflow, SaveTask, StartWorkflow, BuildPlan,
           StageCancelled, StartStage, StageSucceeds, StageErrTolerated, StageFails,
           CompleteWorkflow, Return
  <2>2. ASSUME NEW r \in Run, Unhindered(r) PROVE Continued(r)'
    <3>1. Continued(r)
      BY <2>2 DEF ContinueInv
    <3>2. CASE r = q
      BY <1>5, <2>2, <3>1, <3>2, ContinueRunStep
    <3>3. CASE r # q
      <4>1. SameRun(r)
        BY <1>0, <1>5, <3>3, RunElsewhere
      <4> QED
        BY <2>1, <3>1, <3>3, <4>1 DEF SameRun, Continued
    <3> QED
      BY <3>2, <3>3
  <2> QED
    BY <2>1, <2>2 DEF ContinueInv, NothingStuck, Unhindered, Continues
<1> QED
  BY <1>2, <1>3, <1>4, <1>5 DEF Next

(* A run under CONTINUE_ON_FAILURE that nobody cancels, with a plan and a  *)
(* store that does not fail, returns nil and has run every task whose      *)
(* dependencies were completed, whatever tasks failed (architecture.md:23, *)
(* executor.go:251-254, 269-283).                                          *)
THEOREM ContinuesToTheEnd == Spec => []ContinueRunsAll
<1>1. Init => ContinueInv
  <2>1. Init => \A t \in Task : \A r \in Run : ~ (Level[t] < stage[r])
    BY PlanAssumption DEF Init
  <2> QED
    BY <2>1 DEF Init, ContinueInv, NothingStuck, Continued
<1>2. ResultInv /\ ContinueInv /\ [Next]_vars => ContinueInv'
  BY ContinueNext
<1>3. ContinueInv => ContinueRunsAll
  BY DEF ContinueInv, Continued, Unhindered, ContinueRunsAll
<1> QED
  BY <1>1, <1>2, <1>3, ResultAlways, PTL DEF Spec
----------------------------------------------------------------------------
(* The refinement: what an Execute shows of its phase, and what it settles. *)
LEMMA PhaseIs ==
  ASSUME TypeOK, NEW r \in Executes
  PROVE  /\ pc[r] = "idle" => phaseBar[r] = "idle"
         /\ pc[r] # "idle" /\ result[r] = None => phaseBar[r] = "running"
         /\ pc[r] # "idle" /\ result[r] = "ok" => phaseBar[r] = "succeeded"
         /\ pc[r] # "idle" /\ result[r] = "error" => phaseBar[r] = "failed"
BY DEF phaseBar, None, TypeOK, Executes

LEMMA SameBars ==
  ASSUME UNCHANGED <<pc, result>>
  PROVE  /\ phaseBar' = phaseBar
         /\ (\A r \in Executes, t \in Task : Settled(r, t)'
               <=> Settled(r, t)) => settledBar' = settledBar
BY DEF phaseBar, settledBar

LEMMA MapTaskStep ==
  ASSUME ~ ContinueOnFailure, ResultInv, NEW r \in Run, NEW t \in Task, TaskStep(r, t)
  PROVE  [Abstract!Next]_Abstract!vars
<1>0. /\ TypeOK /\ BarrierInv /\ RunOK(r) /\ ~ Continues(r)
      /\ r \in Executes => StatusFollows(r)
  BY DEF ResultInv, BarrierInv, RunInv, ExecuteInv, Continues, Executes
<1>1. PICK l \in TaskPC, s \in TaskRecord : Leads(r, t, l, s)
  BY <1>0, TaskEffect
<1>2. \A q \in Run, u \in Task :
        task'[q][u] = IF q = r /\ u = t THEN s ELSE task[q][u]
  BY <1>0, <1>1, GoPoints
<1>3. UNCHANGED <<pc, result>> /\ UNCHANGED stage
  BY TaskRest
<1>4. phaseBar' = phaseBar
  BY <1>3, SameBars
<1>5. \A q \in Run, u \in Task : q # r \/ u # t => (Settled(q, u)' <=> Settled(q, u))
  BY <1>2 DEF Settled, Tolerates
<1>6. Effect(r, t, l, s)
  BY <1>1 DEF Leads
<1>7. r \in Executes /\ Settled(r, t) => Settled(r, t)'
  <2> SUFFICES ASSUME r \in Executes PROVE Settled(r, t) => Settled(r, t)'
    OBVIOUS
  <2>1. Settled(r, t) => tpc[r][t] \notin {None, "acquire"} \cup {"prepare"} \cup Prepared
    BY <1>0 DEF StatusFollows, Settled, Prepared, NewTask
  <2>2. Settled(r, t) => s = task[r][t]
    BY <1>6, <2>1 DEF Effect, Passes, Prepares, Proceeds, Ends, Prepared
  <2> QED
    BY <1>2, <2>2 DEF Settled, Tolerates
<1>8. CASE r \in Executes => (Settled(r, t)' <=> Settled(r, t))
  <2>1. \A q \in Executes, u \in Task : Settled(q, u)' <=> Settled(q, u)
    BY <1>5, <1>8 DEF Executes
  <2>2. settledBar' = settledBar
    BY <1>3, <2>1, SameBars
  <2> QED
    BY <1>4, <2>2 DEF Abstract!vars
<1>9. CASE r \in Executes /\ Settled(r, t)' /\ ~ Settled(r, t)
  <2>1. tpc[r][t] \notin {None, "finished"}
    BY <1>6 DEF Effect, Passes, Prepares, Proceeds, Ends, None
  <2>2. pc[r] = "join" /\ t \in Known(r) /\ Level[t] = stage[r]
    BY <1>0, <2>1 DEF BarrierInv, ActiveInStage, Active, StageTasks
  <2>3. phaseBar[r] = "running"
    BY <1>0, <1>9, <2>2, PhaseIs DEF RunOK, ResultMeant
  <2>4. \A d \in Deps[t] : d \in Task /\ Settled(r, d)
    BY <1>0, <2>2, PlanAssumption DEF RunOK, PlanWalked, StagesSettled
  <2>5. /\ settledBar[r] = {u \in Task : Settled(r, u)}
        /\ settledBar'[r] = {u \in Task : Settled(r, u)'}
        /\ \A q \in Executes \ {r} : settledBar'[q] = settledBar[q]
        /\ settledBar \in [Executes -> SUBSET Task] /\ settledBar' \in [Executes -> SUBSET Task]
    BY <1>5, <1>9 DEF settledBar, Executes
  <2>6. settledBar'[r] = settledBar[r] \cup {t}
    BY <1>5, <1>9, <2>5
  <2>7. settledBar' = [settledBar EXCEPT ![r] = settledBar[r] \cup {t}]
    BY <1>9, <2>5, <2>6
  <2>8. t \notin settledBar[r] /\ Deps[t] \subseteq settledBar[r]
    BY <1>9, <2>4, <2>5
  <2>9. Abstract!Settle(r, t)
    BY <1>4, <2>3, <2>7, <2>8 DEF Abstract!Settle
  <2> QED
    BY <1>9, <2>9 DEF Abstract!Next
<1> QED
  BY <1>7, <1>8, <1>9

LEMMA MapRunStep ==
  ASSUME ~ ContinueOnFailure, ResultInv, ResultInv', NEW r \in Executes, RunStep(r)
  PROVE  [Abstract!Next]_Abstract!vars
<1> r \in Run /\ r \notin Resumed
  BY DEF Executes
<1>0. TypeOK /\ TypeOK' /\ RunInv /\ RunOK(r)' /\ Known(r) = Task /\ ~ Continues(r)
  BY KnowsAll DEF ResultInv, BarrierInv, RunInv, Continues
<1>1. task' = task
  <2>1. pc[r] \notin {"getTasks", "getCheckpoint"}
    BY DEF ResultInv, CompletedInv, Starting
  <2> QED
    BY <2>1 DEF RunStep, ResumeGetWorkflow, ResumeGetTasks, ResumeRestore, Register,
           SaveWorkflow, SaveTask, StartWorkflow, BuildPlan, StageCancelled, StartStage,
           StageSucceeds, StageErrTolerated, StageFails, CompleteWorkflow, Return
<1>2. settledBar' = settledBar
  BY <1>1 DEF settledBar, Settled, Tolerates
<1>3. \A q \in Executes \ {r} : phaseBar'[q] = phaseBar[q]
  BY <1>0, RunElsewhere DEF SameRun, phaseBar, Executes
<1>4. DOMAIN phaseBar = Executes /\ DOMAIN phaseBar' = Executes
  BY DEF phaseBar
<1>5. ASSUME NEW p, phaseBar'[r] = p
      PROVE  phaseBar' = [phaseBar EXCEPT ![r] = p]
  <2>1. /\ phaseBar = [q \in Executes |-> phaseBar[q]]
        /\ phaseBar' = [q \in Executes |-> phaseBar'[q]]
    BY DEF phaseBar
  <2> QED
    BY <1>3, <1>5, <2>1
<1>6. result[r] \in {None, "ok", "error"} /\ result'[r] \in {None, "ok", "error"}
  BY <1>0 DEF TypeOK
<1>7. pc'[r] # "idle" /\ (pc[r] = "idle" => result'[r] = None)
  <2>1. /\ pc \in [Run -> PC] /\ r \notin Resumed
        /\ result[r] # None => pc[r] \in {"return", "done"}
    BY <1>0 DEF TypeOK, RunInv, RunOK, ResultMeant
  <2> QED
    BY <2>1 DEF RunStep, RunGoTo, RunReturns, ResumeGetWorkflow, ResumeGetTasks, ResumeRestore,
           Register, SaveWorkflow, SaveTask, StartWorkflow, BuildPlan, StageCancelled, StartStage,
           StageSucceeds, StageErrTolerated, StageFails, Joined, NextStage, CompleteWorkflow, Return
<1>8. CASE pc[r] = "idle"
  <2>1. phaseBar[r] = "idle" /\ phaseBar'[r] = "running"
    BY <1>0, <1>7, <1>8, PhaseIs DEF phaseBar, None
  <2>2. Abstract!Begin(r)
    BY <1>2, <1>5, <2>1 DEF Abstract!Begin
  <2> QED
    BY <2>2 DEF Abstract!Next
<1>9. CASE pc[r] # "idle" /\ result'[r] = result[r]
  <2>1. phaseBar'[r] = phaseBar[r]
    BY <1>7, <1>9 DEF phaseBar
  <2>2. phaseBar' = phaseBar
    BY <1>3, <2>1 DEF phaseBar
  <2> QED
    BY <1>2, <2>2 DEF Abstract!vars
<1>10. CASE pc[r] # "idle" /\ result'[r] # result[r]
  <2>1. result[r] = None /\ phaseBar[r] = "running"
    BY <1>0, <1>6, <1>10, ResultStays, PhaseIs
  <2>2. CASE result'[r] = "ok"
    <3>1. phaseBar'[r] = "succeeded"
      BY <1>7, <2>2 DEF phaseBar
    <3>2. \A t \in Task : Settled(r, t)'
      BY <1>0, <1>1, <2>2 DEF RunOK, ResultMeant, Known, Continues
    <3>3. settledBar[r] = Task
      BY <1>2, <3>2 DEF settledBar
    <3>4. Abstract!Succeed(r)
      BY <1>2, <1>5, <2>1, <3>1, <3>3 DEF Abstract!Succeed
    <3> QED
      BY <3>4 DEF Abstract!Next
  <2>3. CASE result'[r] = "error"
    <3>1. phaseBar'[r] = "failed"
      BY <1>7, <2>3 DEF phaseBar
    <3>2. Abstract!Fail(r)
      BY <1>2, <1>5, <2>1, <3>1 DEF Abstract!Fail
    <3> QED
      BY <3>2 DEF Abstract!Next
  <2> QED
    BY <1>6, <1>10, <2>1, <2>2, <2>3
<1> QED
  BY <1>8, <1>9, <1>10

LEMMA MapResumedStep ==
  ASSUME ResultInv, NEW r \in Run \ Executes, RunStep(r)
  PROVE  UNCHANGED Abstract!vars
<1>1. TypeOK
  BY DEF ResultInv, BarrierInv
<1>2. \A q \in Executes : pc'[q] = pc[q] /\ result'[q] = result[q] /\ task'[q] = task[q]
  BY <1>1, RunElsewhere DEF SameRun, Executes
<1>3. phaseBar' = phaseBar
  BY <1>2 DEF phaseBar
<1>4. \A q \in Executes, t \in Task : Settled(q, t)' <=> Settled(q, t)
  BY <1>2 DEF Settled, Tolerates
<1>5. settledBar' = settledBar
  BY <1>4 DEF settledBar
<1> QED
  BY <1>3, <1>5 DEF Abstract!vars

(* Every behaviour of fail-fast Executes, however their task goroutines    *)
(* interleave, whatever fails, expires or is cancelled and whoever resumes *)
(* their workflow meanwhile, is one a caller of WorkflowRun expects: tasks *)
(* settle one by one after their dependencies, and nil is returned when    *)
(* all have settled.                                                       *)
THEOREM RunImplemented ==
  ASSUME ~ ContinueOnFailure
  PROVE  Spec => ImplementsRun
<1>1. Init => Abstract!Init
  <2>1. Init => phaseBar = [r \in Executes |-> "idle"]
    BY DEF Init, phaseBar, Executes
  <2>2. Init => settledBar = [r \in Executes |-> {}]
    BY DEF Init, settledBar, Settled, NewTask, Executes
  <2> QED
    BY <2>1, <2>2 DEF Abstract!Init
<1>2. ResultInv /\ ResultInv' /\ [Next]_vars => [Abstract!Next]_Abstract!vars
  <2> SUFFICES ASSUME ResultInv, ResultInv', [Next]_vars PROVE [Abstract!Next]_Abstract!vars
    OBVIOUS
  <2>1. CASE EnvStep \/ UNCHANGED vars
    <3>1. UNCHANGED <<pc, result>> /\ task' = task
      BY <2>1 DEF EnvStep, Abort, Expire, FindStuck, CancelWorkflow, ReadForApproval,
                  WriteApproval, vars, runVars
    <3>2. \A r \in Executes, t \in Task : Settled(r, t)' <=> Settled(r, t)
      BY <3>1 DEF Settled, Tolerates
    <3> QED
      BY <3>1, <3>2, SameBars DEF Abstract!vars
  <2> QED
    BY <2>1, MapTaskStep, MapRunStep, MapResumedStep DEF Next
<1> QED
  BY <1>1, <1>2, ResultAlways, PTL DEF Spec, ImplementsRun, Abstract!Spec
----------------------------------------------------------------------------
(* The store, when it is Executes only that run and each has a workflow of *)
(* its own.                                                                *)
OwnWorkflows == Resumed = {} /\ \A q, r \in Run : WorkflowOf[q] = WorkflowOf[r] => q = r

(* A workflow has the record of its run, which is final only when the run  *)
(* returns; nil is returned for a COMPLETED one.                           *)
VerdictOK(r) ==
  /\ wfRec[WorkflowOf[r]] \in {"COMPLETED", "FAILED"} => pc[r] \in {"return", "done"}
  /\ result[r] = "ok" => wfRec[WorkflowOf[r]] = "COMPLETED"
  /\ result[r] = "ok" /\ ~ Continues(r) => erred[r] = {}

VerdictInv ==
  /\ \A w \in Workflow : wfRec[w] # Absent => \E r \in Run : WorkflowOf[r] = w
  /\ \A r \in Run : VerdictOK(r)

LEMMA VerdictRunStep ==
  ASSUME OwnWorkflows, ResultInv, VerdictInv, NEW r \in Run, RunStep(r)
  PROVE  VerdictInv'
<1> DEFINE w == WorkflowOf[r]
<1>1. /\ TypeOK /\ BarrierInv /\ RunOK(r) /\ VerdictOK(r) /\ Resumed = {}
      /\ Continues(r)' = Continues(r)
  BY DEF ResultInv, BarrierInv, RunInv, VerdictInv, OwnWorkflows, Continues
<1>2. /\ w \in Workflow /\ pc \in [Run -> PC]
      /\ wfRec \in [Workflow -> WorkflowStatus \cup {Absent}]
      /\ result \in [Run -> {None, "ok", "error"}]
  BY <1>1, ConfigAssumption DEF TypeOK
<1>3. \A q \in Run \ {r} : WorkflowOf[q] # w /\ WorkflowOf[q] \in Workflow
  BY ConfigAssumption DEF OwnWorkflows
<1>4. \A q \in Run \ {r} : SameRun(q)
  BY <1>1, RunElsewhere
<1>5. ASSUME \/ wfRec' = wfRec
             \/ \E st \in WorkflowStatus : wfRec' = [wfRec EXCEPT ![w] = st],
             VerdictOK(r)'
      PROVE  VerdictInv'
  <2>1. \A v \in Workflow \ {w} : wfRec'[v] = wfRec[v]
    BY <1>2, <1>5
  <2>2. \A q \in Run \ {r} : VerdictOK(q)'
    BY <1>3, <1>4, <2>1 DEF VerdictInv, VerdictOK, SameRun, Continues
  <2>3. \A v \in Workflow : wfRec'[v] # Absent => \E q \in Run : WorkflowOf[q] = v
    BY <1>1, <2>1 DEF VerdictInv
  <2> QED
    BY <1>5, <2>2, <2>3 DEF VerdictInv
<1>6. WorkflowStatus = {"PENDING", "RUNNING", "COMPLETED", "FAILED"}
  BY DEF WorkflowStatus
<1>g. /\ goVars' = goVars => erred' = erred
      /\ storeVars' = storeVars => wfRec' = wfRec
  BY DEF goVars, storeVars
<1>r. result[r] # None => pc[r] \in {"return", "done"}
  BY <1>1 DEF RunOK, ResultMeant
<1>s. pc[r] \in {"idle"} \cup Starting => pc[r] \in {"idle", "saveWorkflow", "saveTasks"}
                                          /\ wfStatus[r] = "PENDING"
  BY <1>1 DEF ResultInv, CompletedInv
<1>7. CASE \/ ResumeGetWorkflow(r) \/ ResumeGetTasks(r) \/ ResumeRestore(r) \/ Register(r)
           \/ BuildPlan(r) \/ StageCancelled(r) \/ StartStage(r) \/ StageSucceeds(r)
           \/ StageErrTolerated(r) \/ \E t \in Task : SaveTask(r, t)
  <2>1. /\ wfRec' = wfRec /\ erred' = erred
        /\ pc[r] \notin {"return", "done"}
        /\ result'[r] # "ok"
    BY <1>1, <1>2, <1>7, <1>g, <1>r
       DEF ResumeGetWorkflow, ResumeGetTasks, ResumeRestore, Register, BuildPlan, StageCancelled,
           StartStage, StageSucceeds, StageErrTolerated, SaveTask, Joined, NextStage, RunFrame,
           RunReturns, None
  <2>2. VerdictOK(r)'
    BY <1>1, <2>1 DEF VerdictOK
  <2> QED
    BY <1>5, <2>1, <2>2
<1>8. CASE SaveWorkflow(r)
  <2>1. /\ pc[r] = "saveWorkflow" /\ wfStatus[r] = "PENDING" /\ result'[r] # "ok"
        /\ wfRec' = wfRec \/ wfRec' = [wfRec EXCEPT ![w] = "PENDING"]
    BY <1>2, <1>8, <1>r, <1>s DEF SaveWorkflow, RunReturns, Starting, None
  <2>2. VerdictOK(r)'
    BY <1>1, <1>2, <2>1 DEF VerdictOK
  <2> QED
    BY <1>5, <1>6, <2>1, <2>2
<1>9. CASE StartWorkflow(r)
  <2>1. /\ pc[r] = "saveTasks" /\ result'[r] # "ok"
        /\ wfRec' = wfRec \/ wfRec' = [wfRec EXCEPT ![w] = "RUNNING"]
    BY <1>2, <1>9, <1>r DEF StartWorkflow, RunReturns, None
  <2>2. VerdictOK(r)'
    BY <1>1, <1>2, <2>1 DEF VerdictOK
  <2> QED
    BY <1>5, <1>6, <2>1, <2>2
<1>10. CASE StageFails(r)
  <2>1. /\ pc'[r] = "return" /\ result'[r] = "error"
        /\ wfRec' = wfRec \/ wfRec' = [wfRec EXCEPT ![w] = "FAILED"]
    BY <1>2, <1>10 DEF StageFails, RunReturns, RunGoTo
  <2>2. VerdictOK(r)'
    BY <2>1 DEF VerdictOK
  <2> QED
    BY <1>5, <1>6, <2>1, <2>2
<1>11. CASE CompleteWorkflow(r)
  <2>1. /\ pc[r] = "stage" /\ pc'[r] = "return" /\ erred' = erred /\ StageTasks(r) = {}
        /\ \/ wfRec' = wfRec /\ result'[r] = "error"
           \/ wfRec' = [wfRec EXCEPT ![w] = "COMPLETED"]
    BY <1>2, <1>11, <1>g DEF CompleteWorkflow, RunReturns, RunGoTo, RunFrame
  <2>2. ~ Continues(r) => erred[r] = {}
    BY <1>1, <2>1 DEF BarrierInv, ErrorsStop
  <2>3. VerdictOK(r)'
    BY <1>1, <1>2, <2>1, <2>2 DEF VerdictOK
  <2> QED
    BY <1>5, <1>6, <2>1, <2>3
<1>12. CASE Return(r)
  <2>1. /\ pc'[r] = "done" /\ wfRec' = wfRec /\ erred' = erred /\ result' = result
    BY <1>2, <1>12, <1>g DEF Return, RunGoTo
  <2>2. VerdictOK(r)'
    BY <1>1, <2>1 DEF VerdictOK
  <2> QED
    BY <1>5, <2>1, <2>2
<1> QED
  BY <1>7, <1>8, <1>9, <1>10, <1>11, <1>12 DEF RunStep

LEMMA VerdictNext ==
  ASSUME OwnWorkflows, ResultInv, VerdictInv, [Next]_vars
  PROVE  VerdictInv'
<1>1. ASSUME UNCHANGED <<pc, result, wfRec, erred>>
      PROVE  VerdictInv'
  BY <1>1 DEF VerdictInv, VerdictOK, Continues
<1>2. CASE EnvStep \/ UNCHANGED vars
  BY <1>1, <1>2 DEF EnvStep, Abort, Expire, FindStuck, CancelWorkflow, ReadForApproval,
                    WriteApproval, vars, runVars, goVars, storeVars
<1>3. ASSUME NEW r \in Run, NEW t \in Task, TaskStep(r, t)
      PROVE  VerdictInv'
  <2>1. UNCHANGED <<pc, result, wfRec>>
    BY <1>3, TaskRest
  <2>0. TypeOK
    BY DEF ResultInv, BarrierInv
  <2>2. PICK l \in TaskPC, s \in TaskRecord : Leads(r, t, l, s)
    BY <1>3, <2>0, TaskEffect
  <2>3. \A q \in Run \ {r} : erred'[q] = erred[q]
    BY <2>0, <2>2, GoPoints
  <2>4. tpc[r][t] \notin {None, "finished"}
    BY <2>2 DEF Leads, Effect, Passes, Prepares, Proceeds, Ends, None
  <2>5. result[r] # "ok"
    BY <2>4 DEF ResultInv, BarrierInv, ActiveInStage, Active, RunInv, RunOK, ResultMeant, None
  <2> QED
    BY <2>1, <2>3, <2>5 DEF VerdictInv, VerdictOK, Continues
<1> QED
  BY <1>2, <1>3, VerdictRunStep DEF Next

LEMMA VerdictAlways ==
  ASSUME OwnWorkflows
  PROVE  Spec => [](ResultInv /\ VerdictInv)
<1>1. Init => VerdictInv
  BY ConfigAssumption DEF Init, VerdictInv, VerdictOK, Absent, None
<1>2. ResultInv /\ VerdictInv /\ [Next]_vars => VerdictInv'
  BY VerdictNext
<1> QED
  BY <1>1, <1>2, ResultAlways, PTL DEF Spec

(* Only the goroutine of a task, the save loop of its run and an approval  *)
(* write the record of a task.                                             *)
LEMMA RecordWriters ==
  ASSUME TypeOK, NEW r \in Run, NEW t \in Task, NEW l \in TaskPC, NEW s \in TaskRecord,
         Leads(r, t, l, s)
  PROVE  /\ \A w \in Workflow, u \in Task :
              taskRec'[w][u] = taskRec[w][u] \/ (w = WorkflowOf[r] /\ u = t)
         /\ \/ taskRec'[WorkflowOf[r]][t] = s
            \/ taskRec'[WorkflowOf[r]][t] = taskRec[WorkflowOf[r]][t]
         /\ tpc[r][t] \in Returned \cup {"waiting"} => taskRec' = taskRec
<1>1. taskRec \in [Workflow -> [Task -> TaskRecord]] /\ WorkflowOf[r] \in Workflow
  BY ConfigAssumption DEF TypeOK
<1>2. taskRec' = taskRec \/ Stores(r, t, s)
  BY DEF Leads, Effect, Passes, Prepares, Proceeds, Ends
<1>3. Stores(r, t, s) => \A w \in Workflow, u \in Task :
        taskRec'[w][u] = IF w = WorkflowOf[r] /\ u = t THEN s ELSE taskRec[w][u]
  BY <1>1, Except2 DEF Stores
<1>4. tpc[r][t] \in Returned \cup {"waiting"} => taskRec' = taskRec
  BY DEF Leads, Effect, Passes, Prepares, Proceeds, Ends, Returned
<1> QED
  BY <1>1, <1>2, <1>3, <1>4

(* After a verdict nothing of the run is left that writes.                 *)
LEMMA VerdictStands ==
  ASSUME OwnWorkflows, ResultInv, VerdictInv, [Next]_vars,
         NEW w \in Workflow, wfRec[w] \in {"COMPLETED", "FAILED"}
  PROVE  /\ wfRec'[w] = wfRec[w] /\ checkpoint'[w] = checkpoint[w]
         /\ tickets' = tickets => taskRec'[w] = taskRec[w]
<1>0. TypeOK
  BY DEF ResultInv, BarrierInv
<1>1. PICK o \in Run : WorkflowOf[o] = w /\ pc[o] \in {"return", "done"}
  BY DEF VerdictInv, VerdictOK, Absent
<1>2. \A r \in Run : r # o => WorkflowOf[r] # w
  BY <1>1 DEF OwnWorkflows
<1>3. CASE EnvStep \/ UNCHANGED vars
  <2>1. UNCHANGED <<wfRec, checkpoint>> /\ (tickets' = tickets => taskRec' = taskRec)
    BY <1>3 DEF EnvStep, Abort, Expire, FindStuck, CancelWorkflow, ReadForApproval,
                WriteApproval, vars, storeVars
  <2> QED
    BY <2>1
<1>4. ASSUME NEW r \in Run, NEW t \in Task, TaskStep(r, t)
      PROVE  wfRec' = wfRec /\ checkpoint' = checkpoint /\ taskRec'[w] = taskRec[w]
  <2>1. PICK l \in TaskPC, s \in TaskRecord : Leads(r, t, l, s)
    BY <1>0, <1>4, TaskEffect
  <2>2. tpc[r][t] \notin {None, "finished"}
    BY <2>1 DEF Leads, Effect, Passes, Prepares, Proceeds, Ends, None
  <2>3. pc[r] = "join"
    BY <2>2 DEF ResultInv, BarrierInv, ActiveInStage, Active
  <2>4. WorkflowOf[r] # w
    BY <1>1, <1>2, <2>3
  <2>5. taskRec' = taskRec \/ Stores(r, t, s)
    BY <2>1 DEF Leads, Effect, Passes, Prepares, Proceeds, Ends
  <2>6. taskRec \in [Workflow -> [Task -> TaskRecord]]
    BY <1>0 DEF TypeOK
  <2>7. taskRec'[w] = taskRec[w]
    BY <2>4, <2>5, <2>6 DEF Stores
  <2> QED
    BY <1>4, <2>7, TaskRest
<1>5. ASSUME NEW r \in Run, RunStep(r)
      PROVE  wfRec'[w] = wfRec[w] /\ checkpoint'[w] = checkpoint[w] /\ taskRec'[w] = taskRec[w]
  <2>1. CASE WorkflowOf[r] = w
    <3>1. pc[r] \in {"return", "done"}
      BY <1>1, <1>2, <2>1
    <3>2. Return(r)
      BY <1>5, <3>1 DEF RunStep, ResumeGetWorkflow, ResumeGetTasks, ResumeRestore, Register,
           SaveWorkflow, SaveTask, StartWorkflow, BuildPlan, StageCancelled, StartStage,
           StageSucceeds, StageErrTolerated, StageFails, Joined, CompleteWorkflow
    <3> QED
      BY <3>2 DEF Return, storeVars
  <2>2. CASE WorkflowOf[r] # w
    <3>1. /\ wfRec \in [Workflow -> WorkflowStatus \cup {Absent}]
          /\ checkpoint \in [Workflow -> Checkpoint]
          /\ taskRec \in [Workflow -> [Task -> TaskRecord]]
      BY <1>0 DEF TypeOK
    <3>2. \/ taskRec' = taskRec
          \/ \E t \in Task : taskRec' = [taskRec EXCEPT ![WorkflowOf[r]][t] = task[r][t]]
      BY <1>5 DEF RunStep, storeVars, ResumeGetWorkflow, ResumeGetTasks, ResumeRestore, Register,
           SaveWorkflow, SaveTask, StartWorkflow, BuildPlan, StageCancelled, StartStage,
           StageSucceeds, StageErrTolerated, StageFails, CompleteWorkflow, Return
    <3>3. wfRec' = wfRec \/ \E st : wfRec' = [wfRec EXCEPT ![WorkflowOf[r]] = st]
      BY <1>5 DEF RunStep, storeVars, ResumeGetWorkflow, ResumeGetTasks, ResumeRestore, Register,
           SaveWorkflow, SaveTask, StartWorkflow, BuildPlan, StageCancelled, StartStage,
           StageSucceeds, StageErrTolerated, StageFails, CompleteWorkflow, Return
    <3>4. checkpoint' = checkpoint \/ \E cp : checkpoint' = [checkpoint EXCEPT ![WorkflowOf[r]] = cp]
      BY <1>5 DEF RunStep, storeVars, ResumeGetWorkflow, ResumeGetTasks, ResumeRestore, Register,
           SaveWorkflow, SaveTask, StartWorkflow, BuildPlan, StageCancelled, StartStage,
           StageSucceeds, StageErrTolerated, StageFails, CompleteWorkflow, Return
    <3>5. taskRec'[w] = taskRec[w]
      BY <2>2, <3>1, <3>2
    <3>6. wfRec'[w] = wfRec[w] /\ checkpoint'[w] = checkpoint[w]
      BY <2>2, <3>1, <3>3, <3>4
    <3> QED
      BY <3>5, <3>6
  <2> QED
    BY <2>1, <2>2
<1> QED
  BY <1>3, <1>4, <1>5 DEF Next

(* COMPLETED or FAILED, written once, closes the books of a workflow: the  *)
(* run changes neither its record nor its checkpoint nor its tasks again,  *)
(* and only an approval that is still under way can write a task.          *)
THEOREM VerdictsAreFinal ==
  ASSUME OwnWorkflows
  PROVE  Spec => VerdictFinal
<1>1. ResultInv /\ VerdictInv /\ [Next]_vars =>
        [\A w \in Workflow : wfRec[w] \in {"COMPLETED", "FAILED"} =>
           /\ wfRec'[w] = wfRec[w] /\ checkpoint'[w] = checkpoint[w]
           /\ tickets' = tickets => taskRec'[w] = taskRec[w]]_vars
  BY VerdictStands
<1> QED
  BY <1>1, VerdictAlways, PTL DEF Spec, VerdictFinal
----------------------------------------------------------------------------
(* A terminal record, whoever approves and how often: it is behind the     *)
(* goroutine of its task, and every approval under way read a waiting one. *)
Terminal == {"COMPLETED", "FAILED"}

FinalInv ==
  /\ \A r \in Run, t \in Task :
       taskRec[WorkflowOf[r]][t].status \in Terminal => tpc[r][t] \in Returned
  /\ \A k \in tickets : k.rec.status = "WAITING_FOR_APPROVAL"

LEMMA FinalTaskStep ==
  ASSUME OwnWorkflows, ResultInv, FinalInv, NEW r \in Run, NEW t \in Task, TaskStep(r, t)
  PROVE  FinalInv'
<1> DEFINE w == WorkflowOf[r]
<1>0. TypeOK /\ StatusFollows(r) /\ WorkflowOf \in [Run -> Workflow]
  BY ConfigAssumption DEF ResultInv, BarrierInv, ExecuteInv, OwnWorkflows
<1>1. PICK l \in TaskPC, s \in TaskRecord : Leads(r, t, l, s)
  BY <1>0, TaskEffect
<1>2. \A q \in Run, u \in Task : tpc'[q][u] = IF q = r /\ u = t THEN l ELSE tpc[q][u]
  BY <1>0, <1>1, GoPoints
<1>3. /\ \A v \in Workflow, u \in Task :
           taskRec'[v][u] = taskRec[v][u] \/ (v = WorkflowOf[r] /\ u = t)
      /\ taskRec'[WorkflowOf[r]][t] = s \/ taskRec'[WorkflowOf[r]][t] = taskRec[WorkflowOf[r]][t]
  BY <1>0, <1>1, RecordWriters
<1>4. Effect(r, t, l, s) /\ tickets' = tickets
  BY <1>1, TaskRest DEF Leads
<1>5. taskRec'[w][t].status \in Terminal => l \in Returned
  <2>1. taskRec[w][t].status \in Terminal => tpc[r][t] \in Returned
    BY DEF FinalInv
  <2>2. taskRec[w][t].status \in Terminal => l \in Returned
    BY <1>4, <2>1 DEF Effect, Passes, Prepares, Proceeds, Ends, Returned
  <2>3. CASE taskRec' = taskRec
    BY <2>2, <2>3
  <2>4. CASE taskRec' # taskRec
    BY <1>0, <1>3, <1>4, <2>2, <2>4
       DEF Effect, Passes, Prepares, Proceeds, Ends, Returned, StatusFollows, Terminal
  <2> QED
    BY <2>3, <2>4
<1>6. ASSUME NEW q \in Run, NEW u \in Task, taskRec'[WorkflowOf[q]][u].status \in Terminal
      PROVE  tpc'[q][u] \in Returned
  <2>1. CASE q = r /\ u = t
    BY <1>2, <1>5, <1>6, <2>1
  <2>2. CASE ~ (q = r /\ u = t)
    <3>1. WorkflowOf[q] \in Workflow /\ ~ (WorkflowOf[q] = w /\ u = t)
      BY <1>0, <2>2 DEF OwnWorkflows
    <3> QED
      BY <1>2, <1>3, <1>6, <2>2, <3>1 DEF FinalInv
  <2> QED
    BY <2>1, <2>2
<1> QED
  BY <1>4, <1>6 DEF FinalInv

LEMMA FinalRunStep ==
  ASSUME OwnWorkflows, ResultInv, FinalInv, NEW r \in Run, RunStep(r)
  PROVE  FinalInv'
<1>0. /\ TypeOK /\ StatusFollows(r) /\ RunOK(r) /\ WorkflowOf \in [Run -> Workflow]
      /\ taskRec \in [Workflow -> [Task -> TaskRecord]]
      /\ tpc \in [Run -> [Task -> TaskPC]]
  BY ConfigAssumption DEF ResultInv, BarrierInv, RunInv, ExecuteInv, OwnWorkflows, TypeOK
<1>1. tickets' = tickets
  BY DEF RunStep, RunFrame, envVars, ResumeGetWorkflow, ResumeGetTasks, ResumeRestore, Register,
         SaveWorkflow, SaveTask, StartWorkflow, BuildPlan, StageCancelled, StartStage,
         StageSucceeds, StageErrTolerated, StageFails, CompleteWorkflow, Return
<1>2. \A q \in Run, u \in Task : tpc[q][u] # None => tpc'[q][u] = tpc[q][u]
  <2>1. \A q \in Run \ {r} : SameRun(q)
    BY <1>0, RunElsewhere
  <2>2. CASE StartStage(r)
    <3>1. /\ pc[r] = "stage"
          /\ tpc' = [tpc EXCEPT ![r] = [u \in Task |->
               IF u \in StageTasks(r) /\ task[r][u].status # "COMPLETED"
               THEN "acquire" ELSE tpc[r][u]]]
      BY <2>2 DEF StartStage
    <3>2. \A u \in Task : tpc'[r][u] = tpc[r][u] \/ u \in StageTasks(r)
      BY <1>0, <3>1
    <3>3. \A u \in StageTasks(r) : tpc[r][u] = None
      BY <1>0, <3>1, PlanAssumption DEF RunOK, StagesStarted, StageTasks, Known, TypeOK
    <3> QED
      BY <2>1, <3>2, <3>3 DEF SameRun
  <2>3. CASE ~ StartStage(r)
    BY <2>3 DEF RunStep, RunFrame, goVars, ResumeGetWorkflow, ResumeGetTasks,
         ResumeRestore, Register, SaveWorkflow, SaveTask, StartWorkflow, BuildPlan, StageCancelled,
         StageSucceeds, StageErrTolerated, StageFails, CompleteWorkflow, Return
  <2> QED
    BY <2>2, <2>3
<1>3. \A v \in Workflow, u \in Task :
        taskRec'[v][u] = taskRec[v][u] \/ taskRec'[v][u].status \notin Terminal
  <2>1. CASE \E t \in Task : SaveTask(r, t)
    <3>1. PICK t \in Task : SaveTask(r, t)
      BY <2>1
    <3>2. /\ pc[r] = "saveTasks"
          /\ taskRec' = taskRec \/ taskRec' = [taskRec EXCEPT ![WorkflowOf[r]][t] = task[r][t]]
      BY <3>1 DEF SaveTask
    <3>a. tpc[r][t] = None
      BY <3>2 DEF ResultInv, BarrierInv, NoneBeforePlan
    <3>b. task[r][t] \in TaskRecord
      BY <1>0 DEF TypeOK
    <3>3. tpc[r][t] = None /\ task[r][t] \in TaskRecord
      BY <3>a, <3>b
    <3>4. task[r][t].status = "PENDING"
      BY <1>0, <3>3 DEF StatusFollows, NewTask
    <3>5. taskRec' = [taskRec EXCEPT ![WorkflowOf[r]][t] = task[r][t]] =>
            \A v \in Workflow, u \in Task :
              taskRec'[v][u] = IF v = WorkflowOf[r] /\ u = t THEN task[r][t] ELSE taskRec[v][u]
      BY <1>0, <3>3, Except2
    <3> QED
      BY <3>2, <3>4, <3>5 DEF Terminal
  <2>2. CASE ~ \E t \in Task : SaveTask(r, t)
    BY <2>2 DEF RunStep, storeVars, ResumeGetWorkflow, ResumeGetTasks, ResumeRestore, Register,
         SaveWorkflow, StartWorkflow, BuildPlan, StageCancelled, StartStage, StageSucceeds,
         StageErrTolerated, StageFails, CompleteWorkflow, Return
  <2> QED
    BY <2>1, <2>2
<1> QED
  BY <1>0, <1>1, <1>2, <1>3 DEF FinalInv, Returned, None

LEMMA FinalEnvStep ==
  ASSUME TypeOK, FinalInv, EnvStep \/ UNCHANGED vars
  PROVE  FinalInv'
<1>0. tpc' = tpc /\ WorkflowOf \in [Run -> Workflow]
  BY EnvFrame, ConfigAssumption
<1>1. ASSUME NEW a \in Approver, NEW w \in Workflow, NEW t \in Task, ReadForApproval(a, w, t)
      PROVE  FinalInv'
  BY <1>0, <1>1 DEF ReadForApproval, storeVars, FinalInv
<1>2. ASSUME NEW k \in tickets, WriteApproval(k)
      PROVE  FinalInv'
  <2> DEFINE s == [k.rec EXCEPT !.status = "RUNNING"]
  <2>1. k.wf \in Workflow /\ k.id \in Task /\ k.rec \in TaskState
        /\ taskRec \in [Workflow -> [Task -> TaskRecord]]
    BY DEF TypeOK, Ticket
  <2>2. s \in TaskRecord /\ s.status = "RUNNING"
    BY <2>1 DEF TaskState, TaskRecord, TaskStatus
  <2>3. taskRec' = taskRec \/ taskRec' = [taskRec EXCEPT ![k.wf][k.id] = s]
    BY <1>2 DEF WriteApproval
  <2> HIDE DEF s
  <2>4. taskRec' = [taskRec EXCEPT ![k.wf][k.id] = s] => \A w \in Workflow, t \in Task :
          taskRec'[w][t] = IF w = k.wf /\ t = k.id THEN s ELSE taskRec[w][t]
    BY <2>1, <2>2, Except2
  <2>5. \A w \in Workflow, t \in Task :
          taskRec'[w][t] = taskRec[w][t] \/ taskRec'[w][t].status = "RUNNING"
    BY <2>2, <2>3, <2>4
  <2>6. tickets' \subseteq tickets
    BY <1>2 DEF WriteApproval
  <2> QED
    BY <1>0, <2>5, <2>6 DEF FinalInv, Terminal
<1>3. CASE \/ UNCHANGED vars
           \/ \E r \in Run : Abort(r)
           \/ \E r \in Run, t \in Task : Expire(r, t)
           \/ \E w \in Workflow : FindStuck(w)
           \/ \E w \in Workflow : CancelWorkflow(w)
  BY <1>0, <1>3 DEF vars, Abort, Expire, FindStuck, CancelWorkflow, storeVars, envVars, FinalInv
<1> QED
  BY <1>1, <1>2, <1>3 DEF EnvStep

LEMMA FinalAlways ==
  ASSUME OwnWorkflows
  PROVE  Spec => [](ResultInv /\ FinalInv)
<1>1. Init => FinalInv
  BY ConfigAssumption DEF Init, FinalInv, NoTask, Terminal, Absent
<1>2. ResultInv /\ FinalInv /\ [Next]_vars => FinalInv'
  <2> SUFFICES ASSUME ResultInv, FinalInv, [Next]_vars PROVE FinalInv'
    OBVIOUS
  <2>1. TypeOK
    BY DEF ResultInv, BarrierInv
  <2> QED
    BY <2>1, FinalTaskStep, FinalRunStep, FinalEnvStep DEF Next
<1> QED
  BY <1>1, <1>2, ResultAlways, PTL DEF Spec

(* However many approvals are under way, the record of a task stored       *)
(* COMPLETED or FAILED is changed by one thing only, an approval that read *)
(* it waiting (server.go:877-889): no goroutine of a run takes it back     *)
(* (recover.go:102-105).                                                   *)
THEOREM OnlyApprovalsReopenRecords ==
  ASSUME OwnWorkflows
  PROVE  Spec => OnlyApprovalsReopen
<1>1. ResultInv /\ FinalInv /\ [Next]_vars =>
        [\A w \in Workflow, t \in Task :
           taskRec[w][t].status \in {"COMPLETED", "FAILED"} /\ taskRec'[w][t] # taskRec[w][t] =>
             WrittenByApproval(w, t)]_vars
  <2>1. SUFFICES ASSUME ResultInv, FinalInv, [Next]_vars, NEW w \in Workflow, NEW t \in Task,
                        taskRec[w][t].status \in {"COMPLETED", "FAILED"},
                        taskRec'[w][t] # taskRec[w][t]
                 PROVE  WrittenByApproval(w, t)
    OBVIOUS
  <2>0. TypeOK /\ taskRec \in [Workflow -> [Task -> TaskRecord]]
    BY <2>1 DEF ResultInv, BarrierInv, TypeOK
  <2>2. \A r \in Run : WorkflowOf[r] = w => tpc[r][t] \in Returned
    BY <2>1 DEF FinalInv, Terminal
  <2>3. ASSUME NEW r \in Run, NEW u \in Task, TaskStep(r, u)
        PROVE  FALSE
    <3>1. PICK l \in TaskPC, s \in TaskRecord : Leads(r, u, l, s)
      BY <2>0, <2>3, TaskEffect
    <3> QED
      BY <2>0, <2>1, <2>2, <3>1, RecordWriters
  <2>4. ASSUME NEW r \in Run, RunStep(r)
        PROVE  FALSE
    <3>1. CASE \E u \in Task : SaveTask(r, u)
      <4>1. PICK u \in Task : SaveTask(r, u)
        BY <3>1
      <4>2. /\ tpc[r][u] = None
            /\ taskRec' = taskRec \/ taskRec' = [taskRec EXCEPT ![WorkflowOf[r]][u] = task[r][u]]
        BY <2>1, <4>1 DEF SaveTask, ResultInv, BarrierInv, NoneBeforePlan
      <4>3. ~ (WorkflowOf[r] = w /\ u = t)
        BY <2>2, <4>2 DEF Returned, None
      <4> QED
        BY <2>0, <2>1, <4>2, <4>3
    <3>2. CASE ~ \E u \in Task : SaveTask(r, u)
      BY <2>1, <2>4, <3>2 DEF RunStep, storeVars, ResumeGetWorkflow, ResumeGetTasks,
           ResumeRestore, Register, SaveWorkflow, StartWorkflow, BuildPlan, StageCancelled,
           StartStage, StageSucceeds, StageErrTolerated, StageFails, CompleteWorkflow, Return
    <3> QED
      BY <3>1, <3>2
  <2>5. ASSUME NEW k \in tickets, WriteApproval(k)
        PROVE  WrittenByApproval(w, t)
    <3>1. k.wf \in Workflow /\ k.id \in Task
      BY <2>0 DEF TypeOK, Ticket
    <3>2. /\ taskRec' = [taskRec EXCEPT ![k.wf][k.id] = [k.rec EXCEPT !.status = "RUNNING"]]
          /\ tickets' = tickets \ {k}
      BY <2>1, <2>5 DEF WriteApproval
    <3>3. k.wf = w /\ k.id = t
      BY <2>0, <2>1, <3>1, <3>2
    <3>4. taskRec'[w][t] = [k.rec EXCEPT !.status = "RUNNING"]
      BY <2>0, <3>2, <3>3
    <3> QED
      BY <2>1, <3>2, <3>3, <3>4 DEF WrittenByApproval, FinalInv
  <2>6. CASE \/ UNCHANGED vars
             \/ EnvStep /\ ~ \E k \in tickets : WriteApproval(k)
    BY <2>1, <2>6 DEF vars, storeVars, EnvStep, Abort, Expire, FindStuck, CancelWorkflow,
                ReadForApproval
  <2> QED
    BY <2>1, <2>3, <2>4, <2>5, <2>6 DEF Next, EnvStep
<1> QED
  BY <1>1, FinalAlways, PTL DEF Spec, OnlyApprovalsReopen
----------------------------------------------------------------------------
(* One approval at a time.  Two that have both read a waiting task can     *)
(* write it back one after the task has gone on (server.go:877-889).       *)
OneApprover == \A x, y \in Approver : x = y

(* The record of a task is final only behind its goroutine, waits only     *)
(* where the goroutine does, and holds the result the goroutine returned.  *)
RecordOK(r, t, rec) ==
  /\ rec.status \in {"COMPLETED", "FAILED"} => tpc[r][t] \in Returned
  /\ rec.status = "WAITING_FOR_APPROVAL" => tpc[r][t] \in Returned \cup {"waiting"}
  /\ task[r][t].status = "COMPLETED" /\ t \notin erred[r] => rec = task[r][t]

RecordsOK(r) == \A t \in Task : RecordOK(r, t, taskRec[WorkflowOf[r]][t])

(* The one approval under way is of a task that still waits.               *)
TicketsOK ==
  /\ \A k, m \in tickets : k = m
  /\ \A k \in tickets : taskRec[k.wf][k.id].status = "WAITING_FOR_APPROVAL"

RecordsInv ==
  /\ \A w \in Workflow, t \in Task :
       taskRec[w][t].status # Absent => \E r \in Run : WorkflowOf[r] = w
  /\ \A r \in Run : RecordsOK(r)
  /\ TicketsOK

LEMMA RecordsTaskStep ==
  ASSUME OwnWorkflows, ResultInv, RecordsInv, NEW r \in Run, NEW t \in Task, TaskStep(r, t)
  PROVE  RecordsInv'
<1> DEFINE w == WorkflowOf[r]
           old == taskRec[w][t]
<1>0. TypeOK /\ StatusFollows(r) /\ WorkflowOf \in [Run -> Workflow]
  BY ConfigAssumption DEF ResultInv, BarrierInv, ExecuteInv, OwnWorkflows
<1>1. PICK l \in TaskPC, s \in TaskRecord : Leads(r, t, l, s)
  BY <1>0, TaskEffect
<1>2. /\ \A q \in Run, u \in Task :
           /\ tpc'[q][u] = IF q = r /\ u = t THEN l ELSE tpc[q][u]
           /\ task'[q][u] = IF q = r /\ u = t THEN s ELSE task[q][u]
      /\ \A q \in Run \ {r} : erred'[q] = erred[q]
      /\ erred' = erred \/ Errs(r, t)
      /\ Errs(r, t) => erred'[r] = erred[r] \cup {t}
  BY <1>0, <1>1, GoPoints
<1>3. /\ \A v \in Workflow, u \in Task :
           taskRec'[v][u] = taskRec[v][u] \/ (v = WorkflowOf[r] /\ u = t)
      /\ taskRec'[WorkflowOf[r]][t] = s \/ taskRec'[WorkflowOf[r]][t] = taskRec[WorkflowOf[r]][t]
      /\ tpc[r][t] \in Returned \cup {"waiting"} => taskRec' = taskRec
  BY <1>0, <1>1, RecordWriters
<1>4. Effect(r, t, l, s) /\ tickets' = tickets
  BY <1>1, TaskRest DEF Leads
<1>5. RecordOK(r, t, old) /\ \A u \in Task \ {t} : RecordOK(r, u, taskRec[w][u])
  BY DEF RecordsInv, RecordsOK
<1>6. RecordOK(r, t, taskRec[w][t])'
  <2> DEFINE new == taskRec'[w][t]
  <2>1. tpc'[r][t] = l /\ task'[r][t] = s
    BY <1>2
  <2>2. (new = s \/ new = old) /\ (tpc[r][t] \in Returned \cup {"waiting"} => new = old)
    BY <1>3
  <2>3. old.status \in {"COMPLETED", "FAILED"} => tpc[r][t] \in Returned
    BY <1>5 DEF RecordOK
  <2>4. old.status = "WAITING_FOR_APPROVAL" => tpc[r][t] \in Returned \cup {"waiting"}
    BY <1>5 DEF RecordOK
  <2>5. new.status \in {"COMPLETED", "FAILED"} => l \in Returned
    BY <1>0, <1>4, <2>2, <2>3 DEF Effect, Passes, Prepares, Proceeds, Ends, Returned, StatusFollows
  <2>6. new.status = "WAITING_FOR_APPROVAL" => l \in Returned \cup {"waiting"}
    <3>1. tpc[r][t] = "waiting" => l = "release" \/ (l = "gate" /\ old.status = "RUNNING")
      BY <1>4 DEF Effect, Passes, Prepares, Proceeds, Ends
    <3>2. tpc[r][t] \in Returned => l \in Returned
      BY <1>4 DEF Effect, Passes, Prepares, Proceeds, Ends, Returned
    <3>3. CASE tpc[r][t] \in Returned \cup {"waiting"}
      BY <2>2, <3>1, <3>2, <3>3 DEF Returned
    <3>4. CASE tpc[r][t] \notin Returned \cup {"waiting"}
      <4>1. s.status = "WAITING_FOR_APPROVAL" => l \in Returned \cup {"waiting"}
        BY <1>0, <1>4, <3>4 DEF Effect, Passes, Prepares, Proceeds, Ends, Returned, StatusFollows
      <4> QED
        BY <2>2, <2>4, <3>4, <4>1
    <3> QED
      BY <3>3, <3>4
  <2>7. s.status = "COMPLETED" /\ t \notin erred'[r] => new = s
    <3>1. SUFFICES ASSUME s.status = "COMPLETED", t \notin erred'[r] PROVE new = s
      OBVIOUS
    <3>2. ~ Errs(r, t) /\ t \notin erred[r]
      BY <1>2, <3>1
    <3>3. CASE s = task[r][t] /\ taskRec' = taskRec
      BY <1>5, <3>1, <3>2, <3>3 DEF RecordOK
    <3>4. CASE Stores(r, t, s)
      <4>1. taskRec \in [Workflow -> [Task -> TaskRecord]] /\ w \in Workflow
        BY <1>0 DEF TypeOK
      <4> QED
        BY <3>4, <4>1, Except2 DEF Stores
    <3>5. CASE Prepares(r, t, l, s) \/ Proceeds(r, t, l, s)
      BY <1>0, <3>1, <3>2, <3>5 DEF Prepares, Proceeds, StatusFollows
    <3> QED
      BY <1>4, <3>1, <3>2, <3>3, <3>4, <3>5 DEF Effect, Passes, Ends
  <2> QED
    BY <2>1, <2>5, <2>6, <2>7 DEF RecordOK
<1>7. \A u \in Task \ {t} : RecordOK(r, u, taskRec[w][u])'
  <2>1. SUFFICES ASSUME NEW u \in Task \ {t} PROVE RecordOK(r, u, taskRec[w][u])'
    OBVIOUS
  <2>2. /\ taskRec'[w][u] = taskRec[w][u] /\ tpc'[r][u] = tpc[r][u] /\ task'[r][u] = task[r][u]
        /\ u \notin erred'[r] => u \notin erred[r]
    BY <1>0, <1>2, <1>3
  <2> QED
    BY <1>5, <2>2 DEF RecordOK
<1>8. \A q \in Run \ {r} : RecordsOK(q)'
  <2>1. SUFFICES ASSUME NEW q \in Run \ {r}, NEW u \in Task
                 PROVE  RecordOK(q, u, taskRec[WorkflowOf[q]][u])'
    BY DEF RecordsOK
  <2>2. WorkflowOf[q] \in Workflow /\ WorkflowOf[q] # w
    BY <1>0 DEF OwnWorkflows
  <2>3. /\ taskRec'[WorkflowOf[q]][u] = taskRec[WorkflowOf[q]][u] /\ tpc'[q][u] = tpc[q][u]
        /\ task'[q][u] = task[q][u] /\ erred'[q] = erred[q]
    BY <1>2, <1>3, <2>2
  <2>4. RecordOK(q, u, taskRec[WorkflowOf[q]][u])
    BY DEF RecordsInv, RecordsOK
  <2> QED
    BY <2>3, <2>4 DEF RecordOK
<1>9. TicketsOK'
  <2>1. SUFFICES ASSUME NEW k \in tickets
                 PROVE  taskRec'[k.wf][k.id] = taskRec[k.wf][k.id]
    BY <1>4 DEF RecordsInv, TicketsOK
  <2>2. k.wf \in Workflow /\ k.id \in Task
    BY <1>0 DEF TypeOK, Ticket
  <2>3. CASE k.wf = w /\ k.id = t
    <3>1. old.status = "WAITING_FOR_APPROVAL"
      BY <2>3 DEF RecordsInv, TicketsOK
    <3>2. taskRec' = taskRec
      BY <1>3, <1>5, <3>1 DEF RecordOK
    <3> QED
      BY <3>2
  <2> QED
    BY <1>3, <2>2, <2>3
<1>10. \A v \in Workflow, u \in Task :
         taskRec'[v][u].status # Absent => \E q \in Run : WorkflowOf[q] = v
  BY <1>3 DEF RecordsInv
<1> QED
  BY <1>6, <1>7, <1>8, <1>9, <1>10 DEF RecordsInv, RecordsOK

LEMMA RecordsRunStep ==
  ASSUME OwnWorkflows, ResultInv, RecordsInv, NEW r \in Run, RunStep(r)
  PROVE  RecordsInv'
<1> DEFINE w == WorkflowOf[r]
<1>0. /\ TypeOK /\ StatusFollows(r) /\ RunOK(r) /\ WorkflowOf \in [Run -> Workflow]
      /\ RecordsOK(r) /\ Resumed = {}
  BY ConfigAssumption DEF ResultInv, BarrierInv, RunInv, ExecuteInv, OwnWorkflows, RecordsInv
<1>1. taskRec \in [Workflow -> [Task -> TaskRecord]] /\ w \in Workflow
      /\ tpc \in [Run -> [Task -> TaskPC]]
  BY <1>0 DEF TypeOK
<1>2. \A q \in Run \ {r} : SameRun(q) /\ WorkflowOf[q] # w
  BY <1>0, RunElsewhere DEF OwnWorkflows
<1>3. task' = task /\ erred' = erred /\ tickets' = tickets
  <2>1. pc[r] \notin {"getTasks", "getCheckpoint"}
    BY <1>0 DEF ResultInv, CompletedInv, Starting
  <2> QED
    BY <2>1 DEF RunStep, RunFrame, goVars, envVars, ResumeGetWorkflow, ResumeGetTasks,
           ResumeRestore, Register, SaveWorkflow, SaveTask, StartWorkflow, BuildPlan,
           StageCancelled, StartStage, StageSucceeds, StageErrTolerated, StageFails,
           CompleteWorkflow, Return
(* What holds of the tasks without a goroutine. *)
<1>4. \A u \in Task : tpc[r][u] = None =>
        /\ task[r][u].status = "PENDING"
        /\ taskRec[w][u].status \notin {"COMPLETED", "FAILED", "WAITING_FOR_APPROVAL"}
  BY <1>0 DEF StatusFollows, NewTask, RecordsOK, RecordOK, Returned, None
<1>5. CASE \E t \in Task : SaveTask(r, t)
  <2>1. PICK t \in Task : SaveTask(r, t)
    BY <1>5
  <2>2. /\ tpc' = tpc /\ pc[r] = "saveTasks"
        /\ taskRec' = taskRec \/ taskRec' = [taskRec EXCEPT ![w][t] = task[r][t]]
    BY <2>1 DEF SaveTask, RunFrame, goVars
  <2>3. \A v \in Workflow, u \in Task :
          \/ taskRec'[v][u] = taskRec[v][u]
          \/ v = w /\ u = t /\ taskRec'[v][u] = task[r][t]
    <3>1. task[r][t] \in TaskRecord
      BY <1>0 DEF TypeOK
    <3>2. taskRec' = [taskRec EXCEPT ![w][t] = task[r][t]] =>
            \A v \in Workflow, u \in Task :
              taskRec'[v][u] = IF v = w /\ u = t THEN task[r][t] ELSE taskRec[v][u]
      BY <1>1, <3>1, Except2
    <3> QED
      BY <2>2, <3>2
  <2>4. \A u \in Task : tpc[r][u] = None
    BY <2>2 DEF ResultInv, BarrierInv, NoneBeforePlan
  <2>5. RecordsOK(r)'
    <3>1. SUFFICES ASSUME NEW u \in Task PROVE RecordOK(r, u, taskRec[w][u])'
      BY DEF RecordsOK
    <3>2. taskRec'[w][u] = taskRec[w][u] \/ taskRec'[w][u] = task[r][u]
      BY <1>1, <2>3
    <3>3. /\ task[r][u].status = "PENDING"
          /\ taskRec[w][u].status \notin {"COMPLETED", "FAILED", "WAITING_FOR_APPROVAL"}
      BY <1>4, <2>4
    <3> QED
      BY <1>3, <3>2, <3>3 DEF RecordOK
  <2>6. \A q \in Run \ {r} : RecordsOK(q)'
    <3>1. SUFFICES ASSUME NEW q \in Run \ {r}, NEW u \in Task
                   PROVE  RecordOK(q, u, taskRec[WorkflowOf[q]][u])'
      BY DEF RecordsOK
    <3>2. taskRec'[WorkflowOf[q]][u] = taskRec[WorkflowOf[q]][u]
      BY <1>0, <1>2, <2>3
    <3>3. RecordOK(q, u, taskRec[WorkflowOf[q]][u])
      BY DEF RecordsInv, RecordsOK
    <3> QED
      BY <1>3, <2>2, <3>2, <3>3 DEF RecordOK
  <2>7. TicketsOK'
    <3>1. SUFFICES ASSUME NEW k \in tickets
                   PROVE  taskRec'[k.wf][k.id] = taskRec[k.wf][k.id]
      BY <1>3 DEF RecordsInv, TicketsOK
    <3>2. k.wf \in Workflow /\ k.id \in Task /\ taskRec[k.wf][k.id].status = "WAITING_FOR_APPROVAL"
      BY <1>0 DEF TypeOK, Ticket, RecordsInv, TicketsOK
    <3> QED
      BY <1>4, <2>3, <2>4, <3>2
  <2>8. \A v \in Workflow, u \in Task :
          taskRec'[v][u].status # Absent => \E q \in Run : WorkflowOf[q] = v
    BY <2>3 DEF RecordsInv
  <2> QED
    BY <2>5, <2>6, <2>7, <2>8 DEF RecordsInv
<1>6. CASE ~ \E t \in Task : SaveTask(r, t)
  <2>1. taskRec' = taskRec
    BY <1>6 DEF RunStep, storeVars, ResumeGetWorkflow, ResumeGetTasks, ResumeRestore, Register,
           SaveWorkflow, StartWorkflow, BuildPlan, StageCancelled, StartStage, StageSucceeds,
           StageErrTolerated, StageFails, CompleteWorkflow, Return
  <2>2. \A u \in Task : tpc'[r][u] = tpc[r][u] \/ tpc[r][u] = None
    <3>1. CASE StartStage(r)
      <4>1. /\ pc[r] = "stage"
            /\ tpc' = [tpc EXCEPT ![r] = [u \in Task |->
                 IF u \in StageTasks(r) /\ task[r][u].status # "COMPLETED"
                 THEN "acquire" ELSE tpc[r][u]]]
        BY <3>1 DEF StartStage
      <4>2. \A u \in Task : tpc'[r][u] = tpc[r][u] \/ u \in StageTasks(r)
        BY <1>1, <4>1
      <4>3. \A u \in StageTasks(r) : tpc[r][u] = None
        BY <1>0, <4>1, PlanAssumption DEF RunOK, StagesStarted, StageTasks, Known, TypeOK
      <4> QED
        BY <4>2, <4>3
    <3>2. CASE ~ StartStage(r)
      BY <1>6, <3>2 DEF RunStep, RunFrame, goVars, ResumeGetWorkflow, ResumeGetTasks,
           ResumeRestore, Register, SaveWorkflow, StartWorkflow, BuildPlan, StageCancelled,
           StageSucceeds, StageErrTolerated, StageFails, CompleteWorkflow, Return
    <3> QED
      BY <3>1, <3>2
  <2>3. RecordsOK(r)'
    <3>1. SUFFICES ASSUME NEW u \in Task PROVE RecordOK(r, u, taskRec[w][u])'
      BY DEF RecordsOK
    <3>2. RecordOK(r, u, taskRec[w][u])
      BY <1>0 DEF RecordsOK
    <3> QED
      BY <1>3, <1>4, <2>1, <2>2, <3>2 DEF RecordOK
  <2>4. \A q \in Run \ {r} : RecordsOK(q)'
    BY <1>2, <2>1 DEF RecordsInv, RecordsOK, RecordOK, SameRun
  <2>5. TicketsOK'
    BY <1>3, <2>1 DEF RecordsInv, TicketsOK
  <2> QED
    BY <2>1, <2>3, <2>4, <2>5 DEF RecordsInv
<1> QED
  BY <1>5, <1>6

LEMMA RecordsEnvStep ==
  ASSUME OneApprover, TypeOK, RecordsInv, EnvStep
  PROVE  RecordsInv'
<1>0. UNCHANGED <<task, tpc, erred>>
  BY EnvFrame
<1>1. ASSUME taskRec' = taskRec, TicketsOK'
      PROVE  RecordsInv'
  BY <1>0, <1>1 DEF RecordsInv, RecordsOK, RecordOK
<1>2. ASSUME NEW a \in Approver, NEW w \in Workflow, NEW t \in Task, ReadForApproval(a, w, t)
      PROVE  RecordsInv'
  <2> DEFINE k == [by |-> a, wf |-> w, id |-> t, rec |-> taskRec[w][t]]
  <2>1. tickets = {}
    <3>1. \A m \in tickets : m.by \in Approver /\ m.by # a
      BY <1>2 DEF ReadForApproval, TypeOK, Ticket
    <3> QED
      BY <3>1 DEF OneApprover
  <2>2. tickets' = {k} /\ taskRec' = taskRec /\ taskRec[w][t].status = "WAITING_FOR_APPROVAL"
    BY <1>2, <2>1 DEF ReadForApproval, storeVars
  <2>3. k.wf = w /\ k.id = t
    OBVIOUS
  <2>4. TicketsOK'
    BY <2>2, <2>3 DEF TicketsOK
  <2> QED
    BY <1>1, <2>2, <2>4
<1>3. ASSUME NEW k \in tickets, WriteApproval(k)
      PROVE  RecordsInv'
  <2> DEFINE s == [k.rec EXCEPT !.status = "RUNNING"]
  <2>1. k.wf \in Workflow /\ k.id \in Task /\ k.rec \in TaskState
        /\ taskRec \in [Workflow -> [Task -> TaskRecord]]
    BY DEF TypeOK, Ticket
  <2>2. s \in TaskRecord /\ s.status = "RUNNING"
    BY <2>1 DEF TaskState, TaskRecord, TaskStatus
  <2>3. taskRec[k.wf][k.id].status = "WAITING_FOR_APPROVAL"
    BY DEF RecordsInv, TicketsOK
  <2>4. TicketsOK' /\ tickets' = {}
    BY <1>3 DEF WriteApproval, RecordsInv, TicketsOK
  <2>5. CASE taskRec' = taskRec
    BY <1>1, <2>4, <2>5
  <2>6. CASE taskRec' = [taskRec EXCEPT ![k.wf][k.id] = s]
    <3> HIDE DEF s
    <3>1. \A w \in Workflow, t \in Task :
            taskRec'[w][t] = IF w = k.wf /\ t = k.id THEN s ELSE taskRec[w][t]
      BY <2>1, <2>2, <2>6, Except2
    <3>2. \A w \in Workflow, t \in Task :
            taskRec'[w][t].status # Absent => \E r \in Run : WorkflowOf[r] = w
      BY <2>1, <2>3, <3>1 DEF RecordsInv, Absent
    <3>3. ASSUME NEW r \in Run, NEW t \in Task
          PROVE  RecordOK(r, t, taskRec[WorkflowOf[r]][t])'
      <4>1. WorkflowOf[r] \in Workflow /\ RecordOK(r, t, taskRec[WorkflowOf[r]][t])
        BY ConfigAssumption DEF RecordsInv, RecordsOK
      <4>2. CASE WorkflowOf[r] = k.wf /\ t = k.id
        <5>1. ~ (task[r][t].status = "COMPLETED" /\ t \notin erred[r])
          BY <2>3, <4>1, <4>2 DEF RecordOK
        <5> QED
          BY <1>0, <2>2, <3>1, <4>1, <4>2, <5>1 DEF RecordOK
      <4>3. CASE ~ (WorkflowOf[r] = k.wf /\ t = k.id)
        BY <1>0, <3>1, <4>1, <4>3 DEF RecordOK
      <4> QED
        BY <4>2, <4>3
    <3> QED
      BY <2>4, <3>2, <3>3 DEF RecordsInv, RecordsOK
  <2> QED
    BY <1>3, <2>5, <2>6 DEF WriteApproval
<1>4. CASE \/ \E r \in Run : Abort(r)
           \/ \E r \in Run, t \in Task : Expire(r, t)
           \/ \E w \in Workflow : FindStuck(w)
           \/ \E w \in Workflow : CancelWorkflow(w)
  <2>1. UNCHANGED <<taskRec, tickets>>
    BY <1>4 DEF Abort, Expire, FindStuck, CancelWorkflow, storeVars, envVars
  <2>2. TicketsOK'
    BY <2>1 DEF RecordsInv, TicketsOK
  <2> QED
    BY <1>1, <2>1, <2>2
<1> QED
  BY <1>2, <1>3, <1>4 DEF EnvStep

LEMMA RecordsAlways ==
  ASSUME OwnWorkflows, OneApprover
  PROVE  Spec => [](ResultInv /\ VerdictInv /\ RecordsInv)
<1>1. Init => RecordsInv
  BY ConfigAssumption DEF Init, RecordsInv, RecordsOK, RecordOK, TicketsOK, NoTask, NewTask, Absent
<1>2. ResultInv /\ RecordsInv /\ [Next]_vars => RecordsInv'
  <2> SUFFICES ASSUME ResultInv, RecordsInv, [Next]_vars PROVE RecordsInv'
    OBVIOUS
  <2>1. CASE UNCHANGED vars
    BY <2>1 DEF vars, goVars, storeVars, envVars, RecordsInv, RecordsOK, RecordOK, TicketsOK
  <2>2. TypeOK
    BY DEF ResultInv, BarrierInv
  <2> QED
    BY <2>1, <2>2, RecordsTaskStep, RecordsRunStep, RecordsEnvStep DEF Next
<1> QED
  BY <1>1, <1>2, VerdictAlways, ResultAlways, PTL DEF Spec

(* What a run that returned nil leaves in the store is what it did, even   *)
(* when store calls failed on the way (executor.go:338-345, 591-597).      *)
THEOREM SuccessStored ==
  ASSUME OwnWorkflows, OneApprover
  PROVE  Spec => []SuccessIsStored
<1>1. VerdictInv /\ RecordsInv => SuccessIsStored
  BY DEF VerdictInv, VerdictOK, RecordsInv, RecordsOK, RecordOK, SuccessIsStored
<1> QED
  BY <1>1, RecordsAlways, PTL
=============================================================================
