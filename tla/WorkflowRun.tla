---------------------------- MODULE WorkflowRun ----------------------------
(***************************************************************************)
(* What a fail-fast execution of a workflow promises its caller: tasks     *)
(* settle one at a time, each after its dependencies; the run reports      *)
(* success only when all have settled, and it always reports something.    *)
(***************************************************************************)
CONSTANTS Run, Task, Deps

VARIABLES phase, settled
vars == <<phase, settled>>

Init ==
  /\ phase = [r \in Run |-> "idle"]
  /\ settled = [r \in Run |-> {}]

Begin(r) ==
  /\ phase[r] = "idle"
  /\ phase' = [phase EXCEPT ![r] = "running"]
  /\ UNCHANGED settled

Settle(r, t) ==
  /\ phase[r] = "running"
  /\ t \notin settled[r]
  /\ Deps[t] \subseteq settled[r]
  /\ settled' = [settled EXCEPT ![r] = @ \cup {t}]
  /\ UNCHANGED phase

Succeed(r) ==
  /\ phase[r] = "running"
  /\ settled[r] = Task
  /\ phase' = [phase EXCEPT ![r] = "succeeded"]
  /\ UNCHANGED settled

Fail(r) ==
  /\ phase[r] = "running"
  /\ phase' = [phase EXCEPT ![r] = "failed"]
  /\ UNCHANGED settled

Next ==
  \E r \in Run :
    \/ Begin(r)
    \/ \E t \in Task : Settle(r, t)
    \/ Succeed(r)
    \/ Fail(r)

Spec == Init /\ [][Next]_vars

(* A run that has begun ends. *)
FairSpec == Spec /\ \A r \in Run : WF_vars(Succeed(r) \/ Fail(r))
============================================================================
