------------------------- MODULE MCPolicyEvaluation -------------------------
(* Three facts: one is the age of the evidence, one stands for both        *)
(* generated sizes.  Every binary operator, all and any over up to two of  *)
(* them and over one another, malformed and generated operands; policies   *)
(* with one body, with allow and deny, with rules that are unknown,        *)
(* chained and cyclic, and the special documents alone and together with   *)
(* the others.                                                             *)
EXTENDS PolicyEvaluation, FiniteSetsExt, SequencesExt

MCFacts == {"member", "evidence_age", "generated"}
MCAgeFacts == {"evidence_age"}

Fresh == [op |-> "lte", fact |-> "evidence_age"]
IsSmall == [op |-> "eq", fact |-> "member", value |-> "small"]
IsEither == [op |-> "in", fact |-> "member", list |-> {"small", "large"}]
Has == [op |-> "contains", fact |-> "member", has |-> TRUE]
Malformed == [op |-> "malformed"]
Nesting(n) == [op |-> "generated", limit |-> "depth", size |-> n]
Generating(limit) == [op |-> "generated", limit |-> limit, fact |-> "generated"]
Ref(name) == [op |-> "ref", name |-> name]
Compound(op, items) == [op |-> op, items |-> items]
Absent == [op |-> "none"]

Atoms == {Fresh, IsSmall}
Operands == Atoms \cup {IsEither, Has, Malformed, Nesting(17), Generating("collection"), Generating("fuel")}
Pairs == {Compound(op, p) : op \in {"all", "any"}, p \in (Operands \X Atoms) \cup (Atoms \X Operands)}
Empty == {Compound(op, <<>>) : op \in {"all", "any"}}
Nested == {Compound(outer, <<e, Compound(inner, <<e1, e2>>)>>) :
             outer, inner \in {"all", "any"}, e, e1, e2 \in Atoms}
Conditions == Atoms \cup {Compound(op, <<e1, e2>>) : op \in {"all", "any"}, e1, e2 \in Atoms}

Document(rules, body, allow, deny) ==
  [rules |-> rules, body |-> body, allow |-> allow, deny |-> deny,
   adapter |-> FALSE, authority |-> FALSE, time |-> FALSE]
Bodies == {Document(NoRules, e, Absent, Absent) : e \in Operands \cup Pairs \cup Empty \cup Nested}
AllowDenies == {Document(NoRules, Absent, e1, e2) :
                  e1 \in {IsEither, Compound("all", <<Fresh, IsSmall>>)}, e2 \in Conditions}
Ruled ==
  {Document([a |-> Fresh, b |-> Compound("all", <<Ref("a"), IsSmall>>)], e, Absent, Absent) :
     e \in {Ref("a"), Ref("b"), Ref("c"), Compound("any", <<Ref("a"), Ref("c")>>)}}
  \cup {Document([a |-> Ref("b"), b |-> Ref("a")], Ref("a"), Absent, Absent),
        Document([a |-> Fresh, b |-> IsSmall], Absent, Ref("b"), Compound("any", <<Ref("a"), Ref("b")>>))}
Special ==
  {[Document(NoRules, b, Absent, Absent) EXCEPT !.adapter = t[1], !.authority = t[2], !.time = t[3]] :
     b \in {Absent, IsSmall}, t \in BOOLEAN \X BOOLEAN \X BOOLEAN}

MCPolicies == Bodies \cup AllowDenies \cup Ruled \cup Special

(* Every expression, with its references replaced, and the operands of all *)
(* of them.  (Closed has a name of its own so that TLC evaluates it once.) *)
Items(S) == UNION {{e.items[i] : i \in DOMAIN e.items} : e \in {x \in S : x.op \in Compounds}}
Written ==
  UNION {{p[k] : k \in Used(p)} \cup {p.rules[r] : r \in DOMAIN p.rules} : p \in MCPolicies}
Replaced ==
  LET both == Compound("all", <<Fresh, IsSmall>>) IN {Fresh, both, Compound("any", <<Fresh, both>>)}
Closed == LET all == Written \cup Replaced IN all \cup Items(all) \cup Items(Items(all))
MCExpressions == Closed

(* The JSON of an expression.                                              *)
Sizes ==
  LET nodes[e \in Closed] ==
        IF e.op \in Compounds THEN FoldLeft(LAMBDA n, item : n + nodes[item], 2, e.items)
        ELSE IF e.op \in {"generated", "ref"} THEN 2
        ELSE IF e.op = "in" THEN 4 + Cardinality(e.list) ELSE 4
      height[e \in Closed] ==
        IF e.op \in Compounds THEN Max({1} \cup {2 + height[e.items[i]] : i \in DOMAIN e.items})
        ELSE IF e.op \in {"generated", "ref"} THEN 1
        ELSE IF e.op = "in" THEN 3 ELSE 2
  IN [e \in Closed |-> [nodes |-> nodes[e], height |-> height[e]]]
MCSize == Sizes

MCLimits ==
  {DefaultLimits} \cup
  {[DefaultLimits EXCEPT !.fuel = 0], [DefaultLimits EXCEPT !.fuel = 2], [DefaultLimits EXCEPT !.nodes = 8],
   [DefaultLimits EXCEPT !.depth = 3, !.references = 1],
   [DefaultLimits EXCEPT !.fuel = 2, !.depth = 3]}

MCSources ==
  {[decision |-> "allow", mandatory |-> TRUE], [decision |-> "deny", mandatory |-> FALSE],
   [decision |-> "indeterminate", mandatory |-> FALSE]}

ASSUME AgesAreBounded /\ TimeStandsAlone
=============================================================================
