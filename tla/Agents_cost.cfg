CONSTANTS
  t1 = t1
  t2 = t2
  cheap = cheap
  dear = dear
  planner = planner
  Worker = {k1}
  Capacity = 2
  Type <- MCType
  Handler = {"audit", "tokens", "client"}
  Client = {"client"}
  Listens <- ListenTokens
  Rebuilt = FALSE
  Task = {t1, t2}
  DependsOn <- MCDependsOn
  Agent = {cheap, dear, planner}
  Executors = {cheap, dear}
  Cost <- MCCost
  CostAware = TRUE
  Assigned <- Unassigned
  MaxRetries <- RetrySecond
  Policy <- MCPolicy
  IntMax = 5
  Tokens <- MCTokens
  Size <- MCSize
  MaxChars = 4
SPECIFICATION Spec
INVARIANTS TokensAccounted CheapestFirst BackoffCapped
PROPERTIES ImplementsFeed AcceptedIsDelivered
CHECK_DEADLOCK FALSE
