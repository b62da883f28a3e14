\* A task times out while it waits for approval.
CONSTANTS
  a = a
  b = b
  c = c
  d = d
  r1 = r1
  r2 = r2
  w1 = w1
  w2 = w2
  Run = {r1}
  Workflow = {w1}
  WorkflowOf <- SameWorkflow
  Task = {a, b}
  Deps <- ChainDeps
  Level <- ChainLevel
  Resumed = {}
  Rejected = {}
  NeedsApproval = {a}
  HasTimeout = {a}
  Unroutable = {}
  NoWorker = {}
  Tolerated = {}
  ContinueOnFailure = FALSE
  MaxRetries <- NoRetries
  Limit = 1
  Abortable = {}
  Vetoing = {}
  Faults = {}
  Approver = {}
SPECIFICATION Spec
INVARIANTS NoTaskLeftOpen
CHECK_DEADLOCK FALSE
