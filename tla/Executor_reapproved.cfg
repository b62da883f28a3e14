\* Two approvals of one task.
CONSTANTS
  a = a
  b = b
  c = c
  d = d
  r1 = r1
  r2 = r2
  w1 = w1
  w2 = w2
  Run = {r1}
  Workflow = {w1}
  WorkflowOf <- SameWorkflow
  Task = {a, b}
  Deps <- ChainDeps
  Level <- ChainLevel
  Resumed = {}
  Rejected = {}
  NeedsApproval = {a}
  HasTimeout = {}
  Unroutable = {}
  NoWorker = {}
  Tolerated = {}
  ContinueOnFailure = FALSE
  MaxRetries <- NoRetries
  Limit = 1
  Abortable = {}
  Vetoing = {}
  Faults = {}
  Approver = {p1, p2}
SPECIFICATION Spec
PROPERTIES TerminalRecordFinal
CHECK_DEADLOCK FALSE
