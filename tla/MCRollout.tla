----------------------------- MODULE MCRollout -----------------------------
(***************************************************************************)
(* A canary, an optional target and a required one, in three batches.      *)
(***************************************************************************)
EXTENDS Rollout, TLC

CONSTANTS canary, middle, last, p, q

MCTargets == {canary, middle, last}
MCBatchOf == [t \in MCTargets |-> CASE t = canary -> 0 [] t = middle -> 1 [] t = last -> 2]
MCRequired == {canary, last}
MCSymmetry == Permutations({p, q})
=============================================================================
