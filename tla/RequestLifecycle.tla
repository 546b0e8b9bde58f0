-------------------------- MODULE RequestLifecycle --------------------------
(***************************************************************************)
(* What an engine that serves requests promises to its clients, without    *)
(* sequences, pages or batches: an admitted request produces tokens one at *)
(* a time up to its budget, finishes once, and after a cancel produces     *)
(* nothing more and finishes as cancelled. A finished request keeps its    *)
(* tokens until its id is given back.                                      *)
(*                                                                         *)
(* It abstracts the public surface of CpuScheduler in                      *)
(* crates/infer-engine/src/schedule.rs (submit, cancel, step, results and  *)
(* reap).                                                                  *)
(***************************************************************************)
EXTENDS Naturals

CONSTANTS Requests, MaxBudget

VARIABLES
  stage,       \* where each request is
  budget,      \* tokens it may produce
  produced     \* tokens it has produced
vars == <<stage, budget, produced>>

Ended == {"stop", "length", "cancelled", "error"}

Init ==
  /\ stage = [r \in Requests |-> "none"]
  /\ budget = [r \in Requests |-> 0]
  /\ produced = [r \in Requests |-> 0]

Admit(r) ==
  /\ stage[r] = "none"
  /\ stage' = [stage EXCEPT ![r] = "active"]
  /\ \E b \in 1 .. MaxBudget : budget' = [budget EXCEPT ![r] = b]
  /\ UNCHANGED produced

Produce(r) ==
  /\ stage[r] = "active"
  /\ produced' = [produced EXCEPT ![r] = @ + 1]
  /\ \/ produced[r] + 1 < budget[r] /\ UNCHANGED stage
     \/ produced[r] + 1 <= budget[r] /\ stage' = [stage EXCEPT ![r] = "stop"]
     \/ produced[r] + 1 = budget[r] /\ stage' = [stage EXCEPT ![r] = "length"]
  /\ UNCHANGED budget

Fail(r) ==
  /\ stage[r] = "active"
  /\ stage' = [stage EXCEPT ![r] = "error"]
  /\ UNCHANGED <<budget, produced>>

Cancel(r) ==
  /\ stage[r] = "active"
  /\ stage' = [stage EXCEPT ![r] = "cancelling"]
  /\ UNCHANGED <<budget, produced>>

Drop(r) ==
  /\ stage[r] = "cancelling"
  /\ stage' = [stage EXCEPT ![r] = "cancelled"]
  /\ UNCHANGED <<budget, produced>>

Forget(r) ==
  /\ stage[r] \in Ended
  /\ stage' = [stage EXCEPT ![r] = "none"]
  /\ budget' = [budget EXCEPT ![r] = 0]
  /\ produced' = [produced EXCEPT ![r] = 0]

Next ==
  \E r \in Requests :
    \/ Admit(r) \/ Produce(r) \/ Fail(r) \/ Cancel(r) \/ Drop(r) \/ Forget(r)

(* A request that was admitted goes on: a token or its failure, the end of a *)
(* cancel, the end of its place.                                            *)
Advance(r) == Produce(r) \/ Fail(r) \/ Drop(r) \/ Forget(r)
Fairness == \A r \in Requests : WF_vars(Advance(r))

Spec == Init /\ [][Next]_vars
FairSpec == Spec /\ Fairness
=============================================================================
