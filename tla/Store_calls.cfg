\* One workflow and its task, artifact, events and checkpoints: two creation times, two stamps, pages of one event.
SPECIFICATION Spec
CONSTANTS
  w1 = w1
  e1 = e1
  e2 = e2
  d1 = d1
  d2 = d2
  y1 = y1
  y2 = y2
  Workflow = {w1}
  Task = {t1}
  Status = {"PENDING"}
  Time = {y1, y2}
  Agent = {a1}
  Data = {d1, d2}
  Event = {e1, e2}
  WorkflowOfEvent <- EventWorkflows
  TimeOf <- EventTimes
  PageSize = 1
  MaxCheckpoints = 2
  MaxEvents = 2
SYMMETRY DataSymmetry
INVARIANTS NoOrphans AgreeUntilSplit PostgresKeeps PagesAgree
CHECK_DEADLOCK FALSE
