\* Resume after a cancelled run.
CONSTANTS
  a = a
  b = b
  c = c
  d = d
  r1 = r1
  r2 = r2
  w1 = w1
  w2 = w2
  Run = {r1, r2}
  Workflow = {w1}
  WorkflowOf <- SameWorkflow
  Task = {a, b}
  Deps <- ChainDeps
  Level <- ChainLevel
  Resumed = {r2}
  Rejected = {}
  NeedsApproval = {}
  HasTimeout = {}
  Unroutable = {}
  NoWorker = {}
  Tolerated = {}
  ContinueOnFailure = FALSE
  MaxRetries <- NoRetries
  Limit = 1
  Abortable = {r1}
  Vetoing = {}
  Faults = {}
  Approver = {}
SPECIFICATION Spec
PROPERTIES ResumeStarts
CHECK_DEADLOCK FALSE
