----------------------------- MODULE MCExecutor -----------------------------
EXTENDS ExecutorRefinement, TLC

CONSTANTS a, b, c, d, r1, r2, w1, w2

(* A join: a and b first, side by side, then c. *)
JoinDeps == (a :> {}) @@ (b :> {}) @@ (c :> {a, b})
JoinLevel == (a :> 0) @@ (b :> 0) @@ (c :> 1)

(* The join, and a task beside it. *)
WideDeps == JoinDeps @@ (d :> {})
WideLevel == JoinLevel @@ (d :> 0)

(* Two tasks in sequence. *)
ChainDeps == (a :> {}) @@ (b :> {a})
ChainLevel == (a :> 0) @@ (b :> 1)

NoRetries == [t \in Task |-> 0]
RetryA == [t \in Task |-> IF t = a THEN 1 ELSE 0]

SameWorkflow == [r \in Run |-> w1]
OwnWorkflow == [r \in Run |-> IF r = r1 THEN w1 ELSE w2]
============================================================================
