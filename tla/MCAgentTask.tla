---------------------------- MODULE MCAgentTask ----------------------------
(***************************************************************************)
(* Two tasks, the second after the first and retried, and two executors of *)
(* different cost beside an agent of another role.                         *)
(***************************************************************************)
EXTENDS AgentTask

CONSTANTS t1, t2, cheap, dear, planner

MCDependsOn == (t1 :> {}) @@ (t2 :> {t1})
MCCost == (cheap :> 1) @@ (dear :> 3) @@ (planner :> 0)
MCTokens == (cheap :> 1) @@ (dear :> 2) @@ (planner :> 4)
Unassigned == [t \in Task |-> None]
RetrySecond == (t1 :> 0) @@ (t2 :> 2)
RetryNone == [t \in Task |-> 0]

(* The first delay is above the maximum; the second, 7.5 without its half, *)
(* is more than fits.                                                      *)
MCPolicy == [t \in Task |->
  [strategy |-> "EXPONENTIAL", initialDelay |-> 3, maxDelay |-> 2, backoffFactor |-> [num |-> 5, den |-> 2]]]

MCSize == (t1 :> 3) @@ (t2 :> 2)

MCType == {"TASK_STARTED", "TASK_RETRIED", "TASK_COMPLETED", "TASK_FAILED", "TASK_TOKEN_USAGE"}
ListenTokens == [h \in Handler |->
  CASE h = "tokens" -> {"TASK_TOKEN_USAGE"}
    [] h = "audit"  -> MCType
    [] h = "client" -> {"TASK_RETRIED"}]
=============================================================================
