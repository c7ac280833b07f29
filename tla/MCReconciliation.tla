-------------------------- MODULE MCReconciliation --------------------------
(* Two contents, two command processes and two gates, one for an apply and *)
(* one for any action; evidence and gates live in their own second only, a *)
(* proposal one second longer.                                             *)
EXTENDS Reconciliation, TLC

CONSTANTS c1, c2, op1, op2, p, q

MCMaySign == op1 :> {"apply"} @@ op2 :> Actions

MCSymmetry == Permutations({c1, c2}) \cup Permutations({p, q})
=============================================================================
