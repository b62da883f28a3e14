------------------------- MODULE ExecutorRefinement -------------------------
(***************************************************************************)
(* The executor implements WorkflowRun when the workflows are fail-fast:   *)
(* seen are the calls of Execute; a Resume, which starts from tasks        *)
(* already done, may go on beside them.                                    *)
(***************************************************************************)
EXTENDS Executor

Executes == Run \ Resumed

phaseBar ==
  [r \in Executes |-> IF pc[r] = "idle" THEN "idle"
                 ELSE CASE result[r] = "ok" -> "succeeded"
                        [] result[r] = "error" -> "failed"
                        [] OTHER -> "running"]

settledBar == [r \in Executes |-> {t \in Task : Settled(r, t)}]

Abstract == INSTANCE WorkflowRun WITH Run <- Executes, phase <- phaseBar, settled <- settledBar

(* Every behaviour of the executor, its store faults, timeouts, approvals  *)
(* and cancellations included, is a behaviour a caller of WorkflowRun      *)
(* expects.                                                                *)
ImplementsRun == Abstract!Spec

(* With the fairness of the goroutines and no approval to wait for, a run  *)
(* that has begun also ends.                                               *)
ImplementsFairRun == Abstract!FairSpec
============================================================================
