\* Three tasks and an unknown id; every list of at most two ids, repetitions included.
CONSTANTS
  Task = {a, b, c}
  Name = {a, b, c, ghost}
  MaxDeps = 2
  DepLists <- MCDepLists
SPECIFICATION Spec
INVARIANTS TypeOK VerdictCorrect DependenciesFirst ScheduledOnce PlanComplete EarliestStage CompilerAgrees
PROPERTY Returns
CHECK_DEADLOCK FALSE
