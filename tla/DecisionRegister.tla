-------------------------- MODULE DecisionRegister --------------------------
(***************************************************************************)
(* What the domain-local authority promises, without database, processes   *)
(* or log: acceptances happen one at a time, each under the next           *)
(* generation, and no request identifier or nonce is accepted twice.       *)
(***************************************************************************)
EXTENDS Naturals

CONSTANTS
  RequestIds,  \* request identifiers
  Nonces       \* single-use values signed with a request

VARIABLES
  count,     \* the accepted generation
  accepted   \* the acceptances so far

registerVars == <<count, accepted>>

Acceptance == [id: RequestIds, nonce: Nonces, generation: Nat]

Accept(id, nonce) ==
  /\ \A a \in accepted : a.id # id /\ a.nonce # nonce
  /\ count' = count + 1
  /\ accepted' = accepted \cup {[id |-> id, nonce |-> nonce, generation |-> count + 1]}

RegisterInit == count = 0 /\ accepted = {}

RegisterNext == \E id \in RequestIds, nonce \in Nonces : Accept(id, nonce)

RegisterSpec == RegisterInit /\ [][RegisterNext]_registerVars
=============================================================================
