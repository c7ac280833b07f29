------------------------------ MODULE MCRouting ------------------------------
(* Two revisions, one set, two bindings under one counter of generations   *)
(* and one client; the revisions restrict regions in ways that may exclude *)
(* one another, demand an identity and end early.                          *)
EXTENDS RoutingEnforcement, TLC

BindingSymmetry == Permutations(BindingIds)

Window(f, u) == [from |-> f, until |-> u]
Revision(rules, disposition, u) ==
  [rules |-> rules, disposition |-> disposition, from |-> 0, until |-> u]
InRegions(g) == [fact |-> "region", regions |-> g]

MCPolicies == [
  r1 |-> {Revision({InRegions({"eu"})}, "stored", Forever),
          Revision({InRegions({"eu", "us"}), [fact |-> "flag", flag |-> "encryption"]}, "stored", Forever)},
  r2 |-> {Revision({InRegions({"us"}), [fact |-> "identity", level |-> 2]}, "stored", 1)}]
MCMemberships == {{"r1"}}
MCBindings ==
  {[policies |-> {"r1"}, sets |-> {}, from |-> 0, until |-> Forever],
   [policies |-> {"r2"}, sets |-> {"s1"}, from |-> 0, until |-> 1]}

Candidate(region, flags, identity) == [region |-> region, flags |-> flags, identity |-> identity]
Plain == Candidate("eu", {"encryption"}, 0)
Known == Candidate("us", {"encryption", "manifest"}, 3)
Bound == Candidate("eu", {"encryption", "manifest"}, 2)
MCCandidates == {Plain, Known, Bound}
MCEligibles == {{Known, Bound}}
Policy(g, identity) == [regions |-> g, require |-> {}, identity |-> identity]
MCConfigs == {Policy({}, 0), Policy({"us"}, 0)}
MCRequests == {Policy({}, 2), Policy({"eu"}, 1)}
=============================================================================
