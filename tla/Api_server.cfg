\* One workflow of two tasks, t2 after t1: two writers and two executions, one restart.
CONSTANTS
  Workflow = {w}
  Task = {t1, t2}
  Requests = 2
  Execs = 2
  Handlers = 3
  Bodies = {{t1}, {t1, t2}}
  Runnable = {{t1}, {t1, t2}}
  WithAgent = {t1}
  Faults = {"GetWorkflow", "SaveWorkflow", "UpdateWorkflow", "GetWorkflowTasks", "GetTask", "SaveTask", "UpdateTask", "DeleteTask"}
  MaxRestarts = 1
SPECIFICATION Spec
INVARIANTS RunningHasOwner Cancellable AgentsSurvive
PROPERTIES VerdictStored RequestApplied
CHECK_DEADLOCK FALSE
