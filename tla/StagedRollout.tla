--------------------------- MODULE StagedRollout ---------------------------
(***************************************************************************)
(* What a staged rollout promises, without ledger, commands or versions:   *)
(* a target is opened once, when all that holds back its batch has         *)
(* converged; its executor is asked only then, and answers for good; and   *)
(* what is reported of the whole may change at any time, but it is         *)
(* convergence only when every executor converged, and an administrator    *)
(* accepts, once, what is reported as partial.                             *)
(***************************************************************************)
EXTENDS Naturals

CONSTANTS
  Targets,   \* the targets of the manifest
  BatchOf,   \* their batches
  Required,  \* the required ones
  Outcomes,  \* what an executor may answer, "converged" among it
  Reports    \* what may be reported of the whole

VARIABLES
  policy,    \* what to do when an optional target has not converged
  opened,    \* the targets that may have been asked to apply
  receipts,  \* what their executors answered
  reported,  \* the state of the rollout
  accepted   \* whether a partial convergence was accepted

stagedVars == <<policy, opened, receipts, reported, accepted>>

HoldsBack(u, t) == BatchOf[u] < BatchOf[t] /\ (u \in Required \/ policy = "stop_and_hold")

OpenTarget(t) ==
  /\ t \notin opened /\ \A u \in Targets : HoldsBack(u, t) => receipts[u] = "converged"
  /\ opened' = opened \cup {t}
  /\ UNCHANGED <<policy, receipts, reported, accepted>>

Settle(t, outcome) ==
  /\ t \in opened /\ receipts[t] = "none"
  /\ receipts' = [receipts EXCEPT ![t] = outcome]
  /\ UNCHANGED <<policy, opened, reported, accepted>>

Report(state) ==
  /\ state = "converged" => \A t \in Targets : receipts[t] = "converged"
  /\ reported' = state
  /\ UNCHANGED <<policy, opened, receipts, accepted>>

Accept ==
  /\ reported = "partially_converged" /\ ~accepted /\ accepted' = TRUE
  /\ UNCHANGED <<policy, opened, receipts, reported>>

StagedInit ==
  /\ policy \in {"stop_and_hold", "continue_independent"}
  /\ opened = {} /\ receipts = [t \in Targets |-> "none"]
  /\ reported = "pending" /\ accepted = FALSE

StagedNext ==
  \/ \E t \in Targets : OpenTarget(t) \/ \E outcome \in Outcomes : Settle(t, outcome)
  \/ \E state \in Reports : Report(state)
  \/ Accept

StagedSpec == StagedInit /\ [][StagedNext]_stagedVars
=============================================================================
