\* One workflow of two tasks, t2 after t1: two writers and two executions, one restart.
CONSTANTS
  Workflow = {w}
  Task = {t1, t2}
  Requests = 2
  Execs = 2
  Handlers = 3
  Bodies = {{t1}, {t1, t2}}
  Runnable = {{t1}, {t1, t2}}
  WithAgent = {t1}
  Faults = {"SaveTask"}
  MaxRestarts = 1
SPECIFICATION Spec

PROPERTY CleanStopSettles
CHECK_DEADLOCK FALSE
