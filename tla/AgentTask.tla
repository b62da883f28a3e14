----------------------------- MODULE AgentTask -----------------------------
(***************************************************************************)
(* How tasks are executed by agents: routing (executor/router.go,          *)
(* cost.go), the fallback from agent to agent (executor.go), the agent's   *)
(* call of its provider and the context it is given (agents/), middleware, *)
(* retries and their delay (core/retry.go), artifacts (core/artifact.go),  *)
(* and the events all this publishes, of which the server sums up the      *)
(* tokens spent (api/server.go).  Records, slots, stages and contexts are  *)
(* in module Executor; here a task starts when its dependencies are done.  *)
(***************************************************************************)
EXTENDS EventBus, Integers, SequencesExt, FiniteSetsExt

CONSTANTS
  Rebuilt,      \* RecordToWorkflow has built the workflow, as in the server
  Task,         \* task ids
  DependsOn,    \* the dependencies of each task
  Agent,        \* the agents of the registry
  Executors,    \* those with RoleExecutor
  Cost,         \* the cost of the model of each, 1000 for an unknown model
  CostAware,    \* which router: CostAwareRouter or CapabilityAwareRouter
  Assigned,     \* the AgentID of each task, or None
  MaxRetries,   \* of the retry policy of each task
  Policy,       \* strategy, initialDelay, maxDelay and backoffFactor of each:
                \* the factor is the fraction num / den
  IntMax,       \* the greatest time.Duration
  Tokens,       \* the tokens a call of each agent costs
  Size,         \* the length of each task's artifact in a prompt
  MaxChars      \* the limit of the context

ASSUME AgentAssumption ==
  /\ {"TASK_STARTED", "TASK_RETRIED", "TASK_COMPLETED", "TASK_FAILED", "TASK_TOKEN_USAGE"} \subseteq Type
  /\ DependsOn \in [Task -> SUBSET Task]
  /\ IsFiniteSet(Agent) /\ Executors \subseteq Agent
  /\ Cost \in [Agent -> Nat] /\ Tokens \in [Agent -> Nat]
  /\ MaxRetries \in [Task -> Nat] /\ Size \in [Task -> Nat]
  /\ IntMax \in Nat /\ MaxChars \in Nat
  /\ Policy \in [Task -> [strategy : {"IMMEDIATE", "FIXED", "EXPONENTIAL"},
                          initialDelay : 0..IntMax, maxDelay : 0..IntMax,
                          backoffFactor : [num : Nat, den : Nat \ {0}]]]
  /\ "tokens" \in Handler \ Client

None == "none"
Event == [type : Type, task : Task, tokens : {0} \cup {Tokens[a] : a \in Agent}]

VARIABLES
  pc,         \* where the goroutine of each task is
  agentIDs,   \* the agents it may call, in this order
  turn,       \* the place in agentIDs
  attempt,    \* the attempt of executeWithRetry
  delay,      \* before the next attempt
  artifacts,  \* tasks with an artifact in the ArtifactRegistry
  context,    \* what the last prompt of each task had of other tasks
  spent,      \* history: tokens that providers have counted
  lost,       \* history: those whose event found the buffer full
  tokenStats  \* Server.tokenStats, all models together

taskVars == <<pc, agentIDs, turn, attempt, delay, artifacts, context, spent, lost>>
vars == <<busVars, taskVars, tokenStats>>

Init ==
  /\ BusInit
  /\ pc = [t \in Task |-> "waiting"]
  /\ agentIDs = [t \in Task |-> <<>>]
  /\ turn = [t \in Task |-> 1]
  /\ attempt = [t \in Task |-> 0]
  /\ delay = [t \in Task |-> 0]
  /\ artifacts = {}
  /\ context = [t \in Task |-> [outputs |-> {}, stitched |-> {}, named |-> {}]]
  /\ spent = 0
  /\ lost = 0
  /\ tokenStats = 0
----------------------------------------------------------------------------
(* Routing.  The registry is a map: its list comes in any order. *)

Swap(s, i, j) == [s EXCEPT ![i] = s[j], ![j] = s[i]]

(* Mutant of Dearer: the comparison the other way round. *)
Cheaper(a, b) == Cost[a] < Cost[b]

Dearer(a, b) == Cost[a] > Cost[b]

(* The exchange sort of CostAwareRouter: place i is compared with the      *)
(* places after it, one by one, for each i.                                *)
Exchanged(s, i) ==
  LET upTo[j \in i..Len(s)] ==
        IF j = i THEN s
        ELSE LET r == upTo[j - 1] IN IF Dearer(r[i], r[j]) THEN Swap(r, i, j) ELSE r
  IN  upTo[Len(s)]

SortByCost(ids) ==
  LET sorted[i \in 0..Len(ids)] == IF i = 0 THEN ids ELSE Exchanged(sorted[i - 1], i)
  IN  sorted[Len(ids)]

(* Route: the executors, else for the capability router any one agent.     *)
Routes(t) ==
  CASE Assigned[t] # None                  -> {<<Assigned[t]>>}
    [] CostAware                           -> {SortByCost(ids) : ids \in SetToSeqs(Executors)}
    [] ~CostAware /\ Executors # {}        -> SetToSeqs(Executors)
    [] ~CostAware /\ Executors = {}        -> IF Agent = {} THEN {<<>>} ELSE {<<a>> : a \in Agent}
----------------------------------------------------------------------------
(* CalculateDelay: the product with the factor, here a fraction and exact,  *)
(* loses what is behind the point when it becomes a Duration, before it is *)
(* capped; what does not fit becomes the least Duration (amd64).           *)
Truncated(x, b) == IF x < 0 THEN -(((-x) * b.num) \div b.den) ELSE (x * b.num) \div b.den
ToDuration(x) == IF x > IntMax \/ x < -IntMax THEN -IntMax - 1 ELSE x

(* Mutant of Capped: the cap is forgotten. *)
Uncapped(d, max) == d

Capped(d, max) == IF max > 0 /\ d > max THEN max ELSE d

CalculateDelay(t, n) ==
  LET p == Policy[t]
      grown[i \in 1..n] == IF i = 1 THEN p.initialDelay ELSE ToDuration(Truncated(grown[i - 1], p.backoffFactor))
  IN  IF MaxRetries[t] = 0 \/ p.strategy = "IMMEDIATE" THEN 0
      ELSE Capped(IF p.strategy = "EXPONENTIAL" THEN grown[n] ELSE p.initialDelay, p.maxDelay)

(* StitchArtifacts: the artifacts up to the first that does not fit, each  *)
(* with a line break.                                                      *)
Stitched(order) ==
  LET before(k) == MapThenSumSet(LAMBDA i : Size[order[i]] + 1, 1..(k - 1))
      fits(k) == before(k) + Size[order[k]] <= MaxChars
  IN  {order[k] : k \in {i \in DOMAIN order : \A j \in 1..i : fits(j)}}

(* ListByWorkflow of the task's WorkflowID, which RecordToWorkflow leaves  *)
(* empty (store.go:117-137).                                               *)
Listed(t) == IF Rebuilt THEN {} ELSE artifacts

(* What a prompt has of other tasks: the outputs of the dependencies (all  *)
(* completed), artifacts that were stitched in, in the order of a map, and *)
(* the tasks that a reference like {{name.field}} finds.                   *)
Contexts(t) ==
  {[outputs |-> DependsOn[t], stitched |-> Stitched(order), named |-> Listed(t)] :
     order \in SetToSeqs(Listed(t))}
----------------------------------------------------------------------------
GoTo(t, place) == pc' = [pc EXCEPT ![t] = place]
Tells(t, type) == Publish([type |-> type, task |-> t, tokens |-> 0])
BusFrame == UNCHANGED <<taken, worker, subscribers, seen, tokenStats>>

(* executeTask up to the call of executeWithRetry.  Without an agent it    *)
(* looks for a worker, which no program registers, and fails before the    *)
(* task is announced.                                                      *)
StartTask(t) ==
  /\ pc[t] = "waiting"
  /\ \A d \in DependsOn[t] : pc[d] = "completed"
  /\ \E ids \in Routes(t) :
       /\ agentIDs' = [agentIDs EXCEPT ![t] = ids]
       /\ IF ids = <<>>
            THEN GoTo(t, "failed") /\ UNCHANGED accepted
            ELSE GoTo(t, "started") /\ Tells(t, "TASK_STARTED")
  /\ BusFrame
  /\ UNCHANGED <<turn, attempt, delay, artifacts, context, spent, lost>>

(* An attempt begins with the first agent again. *)
BeginAttempt(t) ==
  /\ pc[t] \in {"started", "backoff"}
  /\ attempt' = [attempt EXCEPT ![t] = @ + 1]
  /\ turn' = [turn EXCEPT ![t] = 1]
  /\ GoTo(t, "calling")
  /\ BusFrame
  /\ UNCHANGED <<accepted, agentIDs, delay, artifacts, context, spent, lost>>

(* Mutant of Generate: usage is told for a first attempt only. *)
GenerateToldOnce(t) ==
  LET a == agentIDs[t][turn[t]]
  IN  /\ pc[t] = "calling" /\ a \in Agent
      /\ context' = [context EXCEPT ![t] = CHOOSE c \in Contexts(t) : TRUE]
      /\ spent' = spent + Tokens[a]
      /\ IF attempt[t] = 1
           THEN /\ Publish([type |-> "TASK_TOKEN_USAGE", task |-> t, tokens |-> Tokens[a]])
                /\ lost' = IF HasRoom THEN lost ELSE lost + Tokens[a]
           ELSE UNCHANGED <<accepted, lost>>
      /\ GoTo(t, "answered")
      /\ BusFrame
      /\ UNCHANGED <<agentIDs, turn, attempt, delay, artifacts>>

(* AgentExecutor.Execute succeeds: the prompt is put together, the         *)
(* provider answers and its usage is published.                            *)
Generate(t) ==
  LET a == agentIDs[t][turn[t]]
  IN  /\ pc[t] = "calling" /\ a \in Agent
      /\ \E c \in Contexts(t) : context' = [context EXCEPT ![t] = c]
      /\ spent' = spent + Tokens[a]
      /\ Publish([type |-> "TASK_TOKEN_USAGE", task |-> t, tokens |-> Tokens[a]])
      /\ lost' = IF HasRoom THEN lost ELSE lost + Tokens[a]
      /\ GoTo(t, "answered")
      /\ BusFrame
      /\ UNCHANGED <<agentIDs, turn, attempt, delay, artifacts>>

(* It errs (no such agent or provider, no answer): the next agent's turn.  *)
FallBack(t) ==
  /\ pc[t] = "calling"
  /\ turn[t] < Len(agentIDs[t])
  /\ turn' = [turn EXCEPT ![t] = @ + 1]
  /\ BusFrame
  /\ UNCHANGED <<accepted, pc, agentIDs, attempt, delay, artifacts, context, spent, lost>>

(* The attempt fails: the last agent errs, one panics (PanicRecovery is    *)
(* outside of the fallback, so the others are not asked), or the answer    *)
(* does not fit the output schema.                                         *)
AttemptFails(t) ==
  /\ pc[t] \in {"calling", "answered"}
  /\ IF attempt[t] <= MaxRetries[t]
       THEN /\ delay' = [delay EXCEPT ![t] = CalculateDelay(t, attempt[t])]
            /\ Tells(t, "TASK_RETRIED")
            /\ GoTo(t, "backoff")
       ELSE /\ Tells(t, "TASK_FAILED")
            /\ GoTo(t, "failed")
            /\ UNCHANGED delay
  /\ BusFrame
  /\ UNCHANGED <<agentIDs, turn, attempt, artifacts, context, spent, lost>>

(* The context ends in the delay. *)
RetryCancelled(t) ==
  /\ pc[t] = "backoff"
  /\ Tells(t, "TASK_FAILED")
  /\ GoTo(t, "failed")
  /\ BusFrame
  /\ UNCHANGED <<agentIDs, turn, attempt, delay, artifacts, context, spent, lost>>

(* Complete, the artifact, the event.  Register keeps an artifact that is  *)
(* there already.                                                          *)
CompleteTask(t) ==
  /\ pc[t] = "answered"
  /\ artifacts' = artifacts \cup {t}
  /\ Tells(t, "TASK_COMPLETED")
  /\ GoTo(t, "completed")
  /\ BusFrame
  /\ UNCHANGED <<agentIDs, turn, attempt, delay, context, spent, lost>>

TaskStep(t) ==
  \/ StartTask(t) \/ BeginAttempt(t) \/ Generate(t) \/ FallBack(t)
  \/ AttemptFails(t) \/ RetryCancelled(t) \/ CompleteTask(t)

(* The handler NewServer subscribes adds the usage of an event up. *)
SumTokens(h, k) ==
  tokenStats' = IF h = "tokens" THEN tokenStats + accepted[worker[k].event].tokens ELSE tokenStats

WorkerStep(k) ==
  \/ (Receive(k) \/ CopySubscribers(k)) /\ UNCHANGED tokenStats
  \/ \E h \in Handler : CallHandler(k, h) /\ SumTokens(h, k)

ClientStep(h) ==
  /\ \E y \in Type : Subscribe(h, y) \/ Unsubscribe(h, y)
  /\ UNCHANGED tokenStats

Next ==
  \/ \E t \in Task : TaskStep(t)
  \/ (\E k \in Worker : WorkerStep(k)) /\ UNCHANGED taskVars
  \/ (\E h \in Client : ClientStep(h)) /\ UNCHANGED taskVars

(* The workers keep receiving, and handlers return (the audit logger's     *)
(* call of the store does, the others only add or append).                 *)
Spec == Init /\ [][Next]_vars /\ \A k \in Worker : WF_vars(WorkerStep(k) /\ UNCHANGED taskVars)
----------------------------------------------------------------------------
(* The cost-aware router tries the executors from the cheapest to the      *)
(* dearest, each once, in whatever order the registry listed them:         *)
(* "minimize token expenditure" (architecture.md:84, router.go:62-103).    *)
CheapestFirst ==
  \A t \in Task :
    CostAware /\ Assigned[t] = None /\ pc[t] # "waiting" =>
      /\ ToSet(agentIDs[t]) = Executors /\ Len(agentIDs[t]) = Cardinality(Executors)
      /\ \A i, j \in DOMAIN agentIDs[t] : i < j => Cost[agentIDs[t][i]] <= Cost[agentIDs[t][j]]

(* Events the token handler has not been called with. *)
Pending == {n \in DOMAIN accepted : n \notin ToSet(seen["tokens"])}

(* No token is counted twice or forgotten, retries, fallbacks and answers  *)
(* that fail validation included: what providers counted is in the totals  *)
(* of the server, on its way there, or was dropped with the buffer full    *)
(* (agents.go:233-247, bus.go:82-88, server.go:74-101).                    *)
TokensAccounted ==
  spent = tokenStats + lost + SumFunctionOnSet([n \in DOMAIN accepted |-> accepted[n].tokens], Pending)

(* The delay of a policy in whole nanoseconds without bound. *)
IdealDelay(p, n) ==
  LET b == p.backoffFactor
      grown[i \in 1..n] == IF i = 1 THEN p.initialDelay ELSE (grown[i - 1] * b.num) \div b.den
  IN  IF p.strategy = "EXPONENTIAL" THEN grown[n] ELSE p.initialDelay

(* The delay before a retry is the one the policy describes, never above   *)
(* its maximum, as long as the product fits a Duration (retry.go:37-55).   *)
(* What does not fit is no delay at all.                                   *)
BackoffCapped ==
  \A t \in Task :
    LET p == Policy[t]
        ideal == IdealDelay(p, attempt[t])
    IN  pc[t] = "backoff" /\ p.strategy # "IMMEDIATE" =>
          IF ideal > IntMax THEN delay[t] < 0
          ELSE delay[t] = IF p.maxDelay = 0 \/ ideal < p.maxDelay THEN ideal ELSE p.maxDelay

(* With its one worker the bus of the server shows each subscriber what it *)
(* promises (bus.go:34-53).                                                *)
Feed == INSTANCE EventFeed
ImplementsFeed == Feed!Spec

(* Whatever clients come and go, the handlers that are there from the      *)
(* start are in the end shown every event the bus has accepted of their    *)
(* types (bus.go:34-53).                                                   *)
AcceptedIsDelivered ==
  []<>(\A h \in Handler \ Client :
         {n \in DOMAIN accepted : accepted[n].type \in Listens[h]} \subseteq ToSet(seen[h]))

(* A task can refer to the artifact of a task it depends on when it is     *)
(* prompted.  Fails for a workflow built by RecordToWorkflow.              *)
DependenciesNamed ==
  \A t \in Task : pc[t] = "answered" => DependsOn[t] \subseteq context[t].named
=============================================================================
