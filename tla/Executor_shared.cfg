\* Execute and Resume of one workflow share the only slot; reads and saves fail, a task is refused, the caller cancels.
CONSTANTS
  a = a
  b = b
  c = c
  d = d
  r1 = r1
  r2 = r2
  w1 = w1
  w2 = w2
  Run = {r1, r2}
  Workflow = {w1}
  WorkflowOf <- SameWorkflow
  Task = {a, b}
  Deps <- ChainDeps
  Level <- ChainLevel
  Resumed = {r2}
  Rejected = {}
  NeedsApproval = {}
  HasTimeout = {}
  Unroutable = {}
  NoWorker = {}
  Tolerated = {}
  ContinueOnFailure = FALSE
  MaxRetries <- NoRetries
  Limit = 1
  Abortable = {r1}
  Vetoing = {b}
  Faults = {"SaveTask", "UpdateTask", "GetWorkflow", "GetWorkflowTasks", "GetLatestCheckpoint"}
  Approver = {}
SPECIFICATION FairSpec
INVARIANTS TypeOK InputsReady SlotDiscipline
PROPERTY ImplementsFairRun
CHECK_DEADLOCK FALSE
