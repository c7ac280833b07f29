----------------------------- MODULE LocalApply -----------------------------
(***************************************************************************)
(* What a local operation promises its operator, without controller,       *)
(* journal, adapter or process: it is authorized once, begins once, and    *)
(* settles once; an apply touches its target at most once and only while   *)
(* it is underway, with a receipt that is true of what it did; no other    *)
(* operation replaces the target by what it desires.                       *)
(***************************************************************************)
EXTENDS Naturals

CONSTANTS
  Ids,         \* operation identifiers
  Receipts,    \* the receipts an operation may settle with
  Touched,     \* those that are true only of an apply that touched its target
  Untouched    \* those that are true only of one that did not

VARIABLES
  status,   \* of each operation
  kind,     \* what it was authorized as: an apply or something else
  touches,  \* how often it replaced the target by its desired content
  receipt   \* what it settled with

localVars == <<status, kind, touches, receipt>>

Authorize(id, k) ==
  /\ status[id] = "unauthorized"
  /\ kind' = [kind EXCEPT ![id] = k]
  /\ status' = [status EXCEPT ![id] = "authorized"]
  /\ UNCHANGED <<touches, receipt>>

Begin(id) ==
  /\ status[id] = "authorized"
  /\ status' = [status EXCEPT ![id] = "underway"]
  /\ UNCHANGED <<kind, touches, receipt>>

Touch(id) ==
  /\ status[id] = "underway" /\ kind[id] = "apply" /\ touches[id] = 0
  /\ touches' = [touches EXCEPT ![id] = 1]
  /\ UNCHANGED <<status, kind, receipt>>

Settle(id, r) ==
  /\ status[id] = "underway"
  /\ kind[id] = "apply" /\ r \in Touched => touches[id] = 1
  /\ r \in Untouched => touches[id] = 0
  /\ status' = [status EXCEPT ![id] = "settled"]
  /\ receipt' = [receipt EXCEPT ![id] = r]
  /\ UNCHANGED <<kind, touches>>

LocalInit ==
  /\ status = [id \in Ids |-> "unauthorized"]
  /\ kind = [id \in Ids |-> "none"]
  /\ touches = [id \in Ids |-> 0]
  /\ receipt = [id \in Ids |-> "none"]

LocalNext ==
  \E id \in Ids :
    \/ \E k \in {"apply", "other"} : Authorize(id, k)
    \/ Begin(id) \/ Touch(id) \/ \E r \in Receipts : Settle(id, r)

LocalSpec == LocalInit /\ [][LocalNext]_localVars
=============================================================================
