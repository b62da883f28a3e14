\* CONTINUE_ON_FAILURE workflow whose tasks fail in every way, one of them approved twice, beside one the planner refuses.
CONSTANTS
  a = a
  b = b
  c = c
  d = d
  r1 = r1
  r2 = r2
  w1 = w1
  w2 = w2
  Run = {r1, r2}
  Workflow = {w1, w2}
  WorkflowOf <- OwnWorkflow
  Task = {a, b, c, d}
  Deps <- WideDeps
  Level <- WideLevel
  Resumed = {}
  Rejected = {w2}
  NeedsApproval = {a}
  HasTimeout = {}
  Unroutable = {d}
  NoWorker = {c}
  Tolerated = {c}
  ContinueOnFailure = TRUE
  MaxRetries <- RetryA
  Limit = 2
  Abortable = {}
  Vetoing = {b}
  Faults = {}
  Approver = {p1, p2}
SPECIFICATION Spec
INVARIANT ContinueRunsAll
PROPERTY OnlyApprovalsReopen
CHECK_DEADLOCK FALSE
