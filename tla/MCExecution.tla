---------------------------- MODULE MCExecution ----------------------------
(***************************************************************************)
(* Two applies, a reversal of the first that either kind of gate may       *)
(* carry, another only an apply gate can, and an operation that only       *)
(* looks, under the identifier of the second apply.                        *)
(***************************************************************************)
EXTENDS Execution

CONSTANTS a, b, r, c1, c2

Op(id, action, desired, expected, related) ==
  [id |-> id, action |-> action, desired |-> desired, expected |-> expected,
   related |-> related]

MCOperations ==
  {Op(a, "apply", c2, 0, a), Op(b, "apply", c1, 1, b), Op(b, "dry_run", c2, 0, b),
   Op(r, "rollback", c1, 1, a), Op(r, "rollback", c1, 2, a)}
MCTwoApplies == {o \in MCOperations : o.action = "apply"}
MCTwoIds == {a, b}
MCNothingLapses == {}
MCMayLapse == {<<a, "authorization">>, <<b, "operation">>}
MCIds == {a, b, r}
MCConfigs == {c1, c2}
=============================================================================
