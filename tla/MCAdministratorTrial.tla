------------------------- MODULE MCAdministratorTrial -------------------------
(* One administrator: events that repeat an identifier, come in one        *)
(* another's past or after the outcome; outcomes with and without the      *)
(* digest of a result; a second path for the evidence.                     *)
EXTENDS AdministratorTrial, TLC

CONSTANTS p, file1, file2

PathSymmetry == Permutations({file1, file2})

Event(id, at, kind) == [id |-> id, at |-> at, kind |-> kind]
MCEventFiles ==
  {Event("e1", 1, "interaction"), Event("e2", 1, "assistance"), Event("e3", 2, "explicit_input"),
   Event("e1", 3, "manual_secret_transfer")}
Outcome(at, outcome, digest) == [at |-> at, outcome |-> outcome, digest |-> digest]
MCOutcomeFiles ==
  {Outcome(1, "abandoned", FALSE), Outcome(2, "success", TRUE), Outcome(2, "success", FALSE),
   Outcome(3, "success", TRUE)}
=============================================================================
