CONSTANTS
  t1 = t1
  t2 = t2
  cheap = cheap
  dear = dear
  planner = planner
  Worker = {k1}
  Capacity = 2
  Type <- MCType
  Handler = {"tokens"}
  Client = {}
  Listens <- ListenTokens
  Rebuilt = TRUE
  Task = {t1, t2}
  DependsOn <- MCDependsOn
  Agent = {cheap, dear, planner}
  Executors = {cheap, dear}
  Cost <- MCCost
  CostAware = FALSE
  Assigned <- Unassigned
  MaxRetries <- RetryNone
  Policy <- MCPolicy
  IntMax = 5
  Tokens <- MCTokens
  Size <- MCSize
  MaxChars = 4
SPECIFICATION Spec
INVARIANT DependenciesNamed
CHECK_DEADLOCK FALSE
