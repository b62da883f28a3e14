\* One fail-fast run of a join in which everything may go wrong: store calls fail, tasks time out, wait for approval and are refused, the caller cancels.
CONSTANTS
  a = a
  b = b
  c = c
  d = d
  r1 = r1
  r2 = r2
  w1 = w1
  w2 = w2
  Run = {r1}
  Workflow = {w1}
  WorkflowOf <- SameWorkflow
  Task = {a, b, c}
  Deps <- JoinDeps
  Level <- JoinLevel
  Resumed = {}
  Rejected = {}
  NeedsApproval = {b}
  HasTimeout = {a, b}
  Unroutable = {}
  NoWorker = {}
  Tolerated = {a}
  ContinueOnFailure = FALSE
  MaxRetries <- RetryA
  Limit = 1
  Abortable = {r1}
  Vetoing = {c}
  Faults = {"SaveWorkflow", "SaveTask", "UpdateWorkflow", "UpdateTask", "SaveCheckpoint"}
  Approver = {p1}
SPECIFICATION FairSpec
INVARIANTS SuccessIsStored StoredCompletedIsSuccess SuccessMeansSettled InputsReady FailFast CheckpointConsistent NoStrayGoroutine
PROPERTIES VerdictFinal RunsReturn CancelledReturns ImplementsRun ApprovalIsGiven
CHECK_DEADLOCK FALSE
