---------------------------- MODULE MCDiagnostics ----------------------------
(* Evidence that is used up, good for one second, and good for two.        *)
EXTENDS Diagnostics

MCLives == {-1, 0, 1}
=============================================================================
