---------------------------- MODULE MCController ----------------------------
(* Two servers; requests that compete for a generation, share a nonce or   *)
(* share an identifier.                                                    *)
EXTENDS Controller, TLC

CONSTANTS s1, s2, a, b, n1, n2, x, y

MCServers == {s1, s2}
MCRequestIds == {a, b}
MCNonces == {n1, n2}
MCBindings == {x, y}
Signed(id, nonce, expected, kind, binding) ==
  [id |-> id, nonce |-> nonce, expected |-> expected, kind |-> kind, binding |-> binding]
MCRequests ==
  {Signed(a, n1, 0, "plan", x),
   Signed(b, n2, 0, "apply", y),
   Signed(b, n1, 1, "recovery", x),
   Signed(a, n2, 1, "apply", x),
   Signed(b, n2, 1, "legacy", y)}
MCSymmetry == Permutations(MCServers)
=============================================================================
