--------------------------- MODULE MCAdapterHost ---------------------------
(***************************************************************************)
(* The adapter under any caller: two applies that compete for generation   *)
(* 0, one that follows them, a reversal of the first, operations that      *)
(* only look, one the adapter does not know, and an operation that reuses  *)
(* the first one's identifier for other content.                           *)
(***************************************************************************)
EXTENDS AdapterHost

CONSTANTS a, b, r, c1, c2

Op(id, action, desired, expected, related) ==
  [id |-> id, action |-> action, desired |-> desired, expected |-> expected,
   related |-> related]

MCOperations ==
  {Op(a, "apply", c2, 0, a), Op(a, "apply", c1, 0, a),
   Op(b, "apply", c2, 0, b), Op(b, "apply", c1, 1, b),
   Op(b, "apply", Invalid, 0, b),
   Op(r, "rollback", c1, 1, a), Op(r, "rollback", c1, 2, b),
   Op(a, "dry_run", c2, 0, a), Op(b, "verify", c2, 0, b), Op(b, "other", c2, 0, b)}
MCIds == {a, b, r}
MCConfigs == {c1, c2}
=============================================================================
