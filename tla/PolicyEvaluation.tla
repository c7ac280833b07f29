-------------------------- MODULE PolicyEvaluation --------------------------
(***************************************************************************)
(* The typed policy evaluator (src/src/lib.rs), the decision of a binding  *)
(* over its sources (effective_policy, src/src/policy_lifecycle.rs) and    *)
(* the eligibility of a candidate that is inspected with it                *)
(* (src/src/resolution.rs).                                                *)
(*                                                                         *)
(* A policy is a JSON document; here it is a record of the keys the        *)
(* evaluator looks at, and an expression is a record by its operator.  A   *)
(* fact is absent (missing or null), a small or a large number, or a list. *)
(* The policy of one source is kept in full, a second source of the        *)
(* binding by its decision.                                                *)
(*                                                                         *)
(* The evaluator has no state.  The specification lets the world get worse *)
(* around one policy: evidence ages, expires, goes missing or is           *)
(* malformed, an adapter fails, an authority is withdrawn, limits get      *)
(* tighter, the machine slow, another source joins the binding.            *)
(***************************************************************************)
EXTENDS Naturals, Sequences, FiniteSets

CONSTANTS
  Expressions,   \* what policies and rules are made of, references replaced or not
  Size,          \* the nodes and the height of each of them as JSON
  Policies,      \* the policies to evaluate
  Facts,         \* the facts they are about
  AgeFacts,      \* those whose names contain evidence_age
  AllLimits,     \* the limits an evaluation may be given
  Sources,       \* what a second source may decide, and whether it is mandatory
  MaxWorse       \* a bound on what gets worse

VARIABLES
  policy,    \* of the first source
  limits,
  facts,     \* the context: a value for each fact, and the four keys the
  context,   \*   evaluator treats specially
  slow,      \* the body takes longer than the wall clock allows
  others,    \* the binding's other source, if it has one
  candidate, \* what the snapshot says of the candidate, and whether it has expired
  worse      \* how many things got worse

vars == <<policy, limits, facts, context, slow, others, candidate, worse>>

None == "none"
Numbers == {"small", "large"}
Values == Numbers \cup {"absent", "list"}
NoRules == [r \in {} |-> None]
Limits == [depth: Nat, nodes: Nat, collection: Nat, fuel: Nat, references: Nat, rules: Nat]
DefaultLimits ==
  [depth |-> 16, nodes |-> 256, collection |-> 1024, fuel |-> 50000, references |-> 16, rules |-> 1000]

Compounds == {"all", "any"}
Binaries == {"eq", "lte", "in", "contains"}

---------------------------------------------------------------------------
Truth(b) == IF b THEN "true" ELSE "false"

(* Broken variant: evidence that is too old is only false.                 *)
BinaryWithoutAge(e, known) ==
  LET value == known[e.fact] IN
  CASE value = "absent" -> "unknown"
    [] e.op = "eq" /\ value # "absent" -> Truth(value = e.value)
    [] e.op = "lte" /\ value = "small" -> "true"
    [] e.op = "lte" /\ value = "large" -> "false"
    [] e.op = "in" /\ value \notin {"absent", "list"} -> Truth(value \in e.list)
    [] e.op = "contains" /\ value = "list" -> Truth(e.has)
    [] OTHER -> "invalid"

(* eval_binary: against a value, a list of values, or an element the       *)
(* fact's list has or has not.  The bound of `lte` is between small and    *)
(* large.                                                                  *)
Binary(e, known) ==
  LET value == known[e.fact] IN
  CASE value = "absent" -> "unknown"
    [] e.op = "eq" /\ value # "absent" -> Truth(value = e.value)
    [] e.op = "lte" /\ value = "small" -> "true"
    [] e.op = "lte" /\ value = "large" -> IF e.fact \in AgeFacts THEN "stale" ELSE "false"
    [] e.op = "in" /\ value \notin {"absent", "list"} -> Truth(value \in e.list)
    [] e.op = "contains" /\ value = "list" -> Truth(e.has)
    [] OTHER -> "invalid"

(* eval_generated: the keys that only compare a number with a limit.  The  *)
(* nesting is part of the expression, the size of a collection and the     *)
(* number of operations are facts.  A fact that is no number is taken for  *)
(* zero; a small one is above some tight limits, a large one above all.    *)
Amount(value) == IF value = "large" THEN 50001 ELSE IF value = "small" THEN 3 ELSE 0
Generated(e, known, l) ==
  LET n == IF e.limit = "depth" THEN e.size ELSE Amount(known[e.fact]) IN
  IF n > l[e.limit] THEN "limit" ELSE "true"

(* Every evaluation returns its verdict and the fuel it left.              *)
Verdicts == {"true", "false", "unknown", "stale", "invalid", "limit"}
Results == [verdict: Verdicts, fuel: Nat]
Result(verdict, fuel) == [verdict |-> verdict, fuel |-> fuel]

(* What an operand leaves as it is, and what is remembered while the       *)
(* others are evaluated; any other verdict ends eval_all and eval_any.     *)
Neutral(op) == IF op = "all" THEN "true" ELSE "false"
Remembered(op) == IF op = "all" THEN "false" ELSE "unknown"
Loops == [result: Results, ended: BOOLEAN]

(* Broken variant: an operand that is neither true nor false is passed     *)
(* over.                                                                   *)
AfterOperandLenient(op) ==
  [last \in Loops |-> [r \in Results |->
     [ended |-> FALSE,
      result |-> IF r.verdict = Remembered(op) THEN r ELSE Result(last.result.verdict, r.fuel)]]]

(* The loops of eval_all and eval_any, after one more operand with the     *)
(* result r.                                                               *)
AfterOperand(op) ==
  [last \in Loops |-> [r \in Results |->
     [ended |-> r.verdict \notin {Neutral(op), Remembered(op)},
      result |-> IF r.verdict = Neutral(op) THEN Result(last.result.verdict, r.fuel) ELSE r]]]

(* eval_all, eval_any: the operands in their order, each evaluated with    *)
(* the fuel that the ones before it left.                                  *)
EvalItems(e, eval, fuel) ==
  LET next(item) ==
        [last \in Loops |-> IF last.ended THEN last
                            ELSE AfterOperand(e.op)[last][eval[item][last.result.fuel]]]
      after[i \in 0 .. Len(e.items)] ==
        IF i = 0 THEN [result |-> Result(Neutral(e.op), fuel), ended |-> FALSE]
        ELSE next(e.items[i])[after[i - 1]]
  IN after[Len(e.items)].result

(* eval_expr, with its limits and its context: a function of the number of *)
(* levels there are to the limit of the depth, the expression and the      *)
(* fuel.                                                                   *)
EvalExpr(l, known) ==
  LET eval[n \in Nat] == [e \in Expressions |-> [fuel \in Nat |->
        IF n = 0 \/ fuel = 0 THEN Result("limit", fuel)
        ELSE IF e.op = "generated" THEN Result(Generated(e, known, l), fuel - 1)
        ELSE IF e.op \in Compounds THEN EvalItems(e, eval[n - 1], fuel - 1)
        ELSE IF e.op \in Binaries THEN Result(Binary(e, known), fuel - 1)
        ELSE Result("invalid", fuel - 1)]]
  IN eval

Eval(e, fuel) == EvalExpr(limits, facts)[limits.depth + 1][e][fuel]
Verdict(e, fuel) == Eval(e, fuel).verdict

---------------------------------------------------------------------------
(* validate_value_shape: the nodes and the depth of an expression's JSON.  *)
TooLarge(e, l) == Size[e].nodes > l.nodes \/ Size[e].height > l.depth

(* resolve_value: references are replaced; a cycle or an unknown name is   *)
(* invalid, a chain that is too long exceeds a limit.  The code does not   *)
(* count the levels n: what has more of them than the depth and the        *)
(* references allow is refused as too deep once it is resolved.            *)
Failed(verdict) == [op |-> "failed", verdict |-> verdict]
Resolve(rules, l) ==
  LET resolve[n \in Nat] == [e \in Expressions |-> [stack \in Seq(DOMAIN rules) |->
        IF n = 0 THEN Failed("limit")
        ELSE IF e.op = "ref"
        THEN IF \E i \in DOMAIN stack : stack[i] = e.name THEN Failed("invalid")
             ELSE IF Len(stack) >= l.references THEN Failed("limit")
             ELSE IF e.name \notin DOMAIN rules THEN Failed("invalid")
             ELSE resolve[n - 1][rules[e.name]][Append(stack, e.name)]
        ELSE IF e.op \in Compounds
        THEN LET items == [i \in DOMAIN e.items |-> resolve[n - 1][e.items[i]][stack]]
                 bad == {i \in DOMAIN items : items[i].op = "failed"} IN
             IF bad = {} THEN [op |-> e.op, items |-> items]
             ELSE items[CHOOSE i \in bad : \A j \in bad : i <= j]
        ELSE e]]
  IN resolve

Keys == {"allow", "deny", "body"}
Used(p) == {k \in Keys : p[k].op # None}

(* prepare_policy, its result: without rules the policy itself; with       *)
(* rules, the entry with its references replaced.                          *)
Prepare(p, l) ==
  IF DOMAIN p.rules = {} THEN p
  ELSE [k \in DOMAIN p |-> IF k \in Used(p) THEN Resolve(p.rules, l)[l.depth + l.references + 1][p[k]][<<>>] ELSE p[k]]
Prepared == Prepare(policy, limits)

(* Expressions are closed under taking operands, and hold the policies     *)
(* before and after their references are replaced.                         *)
ASSUME ExpressionsAssumption ==
  /\ \A e \in Expressions :
       /\ e.op # "failed"
       /\ e.op \in Compounds => e.items \in Seq(Expressions)
       /\ e.op = "generated" /\ e.limit = "depth" => e.size \in Nat
       /\ e.op = "generated" /\ e.limit # "depth" => e.limit \in {"collection", "fuel"} /\ e.fact \in Facts \ AgeFacts
       /\ e.op \in Binaries => e.fact \in Facts
  /\ Size \in [Expressions -> [nodes: Nat, height: Nat]]
  /\ \A p \in Policies :
       /\ DOMAIN p = Keys \cup {"rules", "adapter", "authority", "time"}
       /\ \A k \in Used(p) : p[k] \in Expressions
       /\ IsFiniteSet(DOMAIN p.rules) /\ \A r \in DOMAIN p.rules : p.rules[r] \in Expressions
       /\ \A l \in AllLimits : \A k \in Used(p) :
            Prepare(p, l)[k] \in Expressions \cup {Failed("invalid"), Failed("limit")}
ASSUME LimitsAssumption == AllLimits \subseteq Limits /\ DefaultLimits \in AllLimits
ASSUME AgesAssumption == AgeFacts \subseteq Facts

(* The whole document: the keys of the body are its own, allow and deny    *)
(* are one level down.                                                     *)
NodesOf(p, k) == IF k \in Used(p) THEN Size[p[k]].nodes ELSE 0
DocumentTooLarge(p, l) ==
  LET flags == (IF p.adapter THEN 1 ELSE 0) + (IF p.time THEN 1 ELSE 0) + (IF p.authority THEN 2 ELSE 0)
      body == IF "body" \in Used(p) THEN Size[p.body].nodes ELSE 1 IN
  \/ body + flags + NodesOf(p, "allow") + NodesOf(p, "deny") > l.nodes
  \/ \E k \in Used(p) : Size[p[k]].height + (IF k = "body" THEN 0 ELSE 1) > l.depth

(* prepare_policy, its error, of the prepared policy p with these rules:   *)
(* too many rules, a rule or the document too large, a reference that      *)
(* cannot be replaced.  Which one comes first does not count, every one is *)
(* indeterminate.                                                          *)
Violation(p, rules, l) ==
  LET failed == {k \in Used(p) : p[k].op = "failed"} IN
  IF Cardinality(DOMAIN rules) > l.rules \/ \E r \in DOMAIN rules : TooLarge(rules[r], l) THEN "limit"
  ELSE IF failed # {} THEN p[CHOOSE k \in failed : TRUE].verdict
  ELSE IF DocumentTooLarge(p, l) THEN "limit" ELSE None

(* EvaluationLimits::profile_compliant.                                    *)
Compliant(l) == \A k \in DOMAIN l : 0 < l[k] /\ l[k] <= DefaultLimits[k]

---------------------------------------------------------------------------
(* eval_disposition.                                                       *)
Disposition(verdict) ==
  CASE verdict = "true" -> "allow"
    [] verdict \in {"false", "stale"} -> "deny"
    [] OTHER -> "indeterminate"

(* evaluate_allow_deny: `allow` decides, with the fuel that is left, when  *)
(* `deny` is certainly false.                                              *)
AllowDeny(p) ==
  LET d == Eval(p.deny, limits.fuel) IN
  CASE d.verdict = "true" -> "false"
    [] d.verdict = "false" -> Verdict(p.allow, d.fuel)
    [] OTHER -> d.verdict

(* evaluate_policy_body: the first form the document has.  One that has    *)
(* neither is read as an expression.                                       *)
Body(p) ==
  IF p.time THEN CASE context.time = "fresh" -> "true" [] context.time = "expired" -> "stale"
                   [] OTHER -> "unknown"
  ELSE IF {"allow", "deny"} \subseteq Used(p) THEN AllowDeny(p)
  ELSE IF "body" \in Used(p) THEN Verdict(p.body, limits.fuel) ELSE "invalid"

(* evaluate_policy_with_limits: limits and shape, then the preflight (the  *)
(* adapter's answer, a missing apply authority, an explicit deny), then    *)
(* the body, whose verdict is dropped if it took too long.                 *)
Evaluate ==
  LET p == Prepared
      violation == Violation(p, policy.rules, limits) IN
  IF ~Compliant(limits) THEN Disposition("invalid")
  ELSE IF violation # None THEN Disposition(violation)
  ELSE IF p.adapter THEN IF context.adapter = "allow" THEN "allow" ELSE "indeterminate"
  ELSE IF p.authority /\ ~context.authority THEN "deny"
  ELSE IF {"allow", "deny"} \subseteq Used(p) /\ Verdict(p.deny, limits.fuel) = "true" THEN "deny"
  ELSE Disposition(IF slow THEN "limit" ELSE Body(p))

(* InMemoryPolicyRepository::effective_policy, when the first source's     *)
(* policy gives this decision.  That a mandatory source is indeterminate   *)
(* and that an optional one is come to the same decision.                  *)
Effective(decision) ==
  LET decisions == {decision} \cup {s.decision : s \in others} IN
  CASE "deny" \in decisions -> "deny"
    [] decisions = {"allow"} -> "allow"
    [] OTHER -> "indeterminate"

(* candidate_eligibility, for one entry of inspect_resolution.             *)
Eligibility(effective) ==
  IF candidate.expired THEN "unresolved"
  ELSE CASE effective = "deny" -> "ineligible"
         [] effective = "indeterminate" -> "unresolved"
         [] OTHER -> [compatible |-> "eligible", incompatible |-> "ineligible",
                      unknown |-> "unresolved"][candidate.compatibility]

---------------------------------------------------------------------------
(* What may get worse.                                                     *)
Age(f) ==
  /\ f \in AgeFacts /\ facts[f] = "small" /\ facts' = [facts EXCEPT ![f] = "large"]
  /\ UNCHANGED <<limits, context, slow, others, candidate>>

(* Evidence is no longer there, or an age no longer a number.              *)
Vanish(f) ==
  /\ facts[f] # "absent" /\ facts' = [facts EXCEPT ![f] = "absent"]
  /\ UNCHANGED <<limits, context, slow, others, candidate>>

Corrupt(f) ==
  /\ f \in AgeFacts /\ facts[f] # "list" /\ facts' = [facts EXCEPT ![f] = "list"]
  /\ UNCHANGED <<limits, context, slow, others, candidate>>

Lapse ==
  /\ \/ context.adapter = "allow" /\ context' = [context EXCEPT !.adapter = "error"]
     \/ context.authority /\ context' = [context EXCEPT !.authority = FALSE]
     \/ context.time = "fresh" /\ context' = [context EXCEPT !.time = "expired"]
  /\ UNCHANGED <<limits, facts, slow, others, candidate>>

Degrade ==
  /\ \/ ~candidate.expired /\ candidate' = [candidate EXCEPT !.expired = TRUE]
     \/ /\ candidate.compatibility = "compatible"
        /\ \E c \in {"incompatible", "unknown"} : candidate' = [candidate EXCEPT !.compatibility = c]
  /\ UNCHANGED <<limits, facts, context, slow, others>>

Tighten(l) ==
  /\ \A k \in DOMAIN l : l[k] <= limits[k]
  /\ l # limits /\ limits' = l
  /\ UNCHANGED <<facts, context, slow, others, candidate>>

SlowDown ==
  /\ ~slow /\ slow' = TRUE
  /\ UNCHANGED <<limits, facts, context, others, candidate>>

Join(source) ==
  /\ others = {} /\ others' = {source}
  /\ UNCHANGED <<limits, facts, context, slow, candidate>>

Init ==
  /\ policy \in Policies /\ limits = DefaultLimits /\ others = {} /\ slow = FALSE /\ worse = 0
  /\ facts \in [Facts -> Values]
  /\ context \in [adapter: IF policy.adapter THEN {"allow", "error"} ELSE {"error"},
                  authority: IF policy.authority THEN BOOLEAN ELSE {FALSE},
                  time: IF policy.time THEN {"fresh", "expired", "absent"} ELSE {"absent"}]
  /\ candidate = [compatibility |-> "compatible", expired |-> FALSE]

Next ==
  /\ worse < MaxWorse /\ worse' = worse + 1 /\ UNCHANGED policy
  /\ \/ \E f \in Facts : Age(f) \/ Vanish(f) \/ Corrupt(f)
     \/ Lapse \/ Degrade \/ SlowDown
     \/ \E l \in AllLimits : Tighten(l)
     \/ \E source \in Sources : Join(source)

Spec == Init /\ [][Next]_vars

---------------------------------------------------------------------------
(* The reference: an expression in Kleene's logic, where the order of the  *)
(* operands does not count and evidence that is unknown, stale or invalid  *)
(* may turn out either way, and so may what is nested deeper than n and a  *)
(* generated size that is not given.                                       *)
KleeneValues == {"true", "false", "open"}
KleeneAll(values) ==
  IF "false" \in values THEN "false" ELSE IF values \subseteq {"true"} THEN "true" ELSE "open"
KleeneAny(values) ==
  IF "true" \in values THEN "true" ELSE IF values \subseteq {"false"} THEN "false" ELSE "open"
Given(e, known) == e.limit = "depth" \/ known[e.fact] \in Numbers
KleeneAt(known) ==
  LET at[n \in Nat] == [e \in Expressions |->
        IF n = 0 THEN "open"
        ELSE IF e.op = "generated" THEN IF Given(e, known) THEN "true" ELSE "open"
        ELSE IF e.op = "all" THEN KleeneAll({at[n - 1][e.items[i]] : i \in DOMAIN e.items})
        ELSE IF e.op = "any" THEN KleeneAny({at[n - 1][e.items[i]] : i \in DOMAIN e.items})
        ELSE IF e.op \in Binaries /\ Binary(e, known) \in {"true", "false"} THEN Binary(e, known)
        ELSE "open"]
  IN at
Kleene(e) == KleeneAt(facts)[limits.depth + 1][e]

(* The prepared policy p is true on the evidence there is.                 *)
Certain(p) ==
  IF {"allow", "deny"} \subseteq Used(p)
  THEN Kleene(p.allow) = "true" /\ Kleene(p.deny) = "false"
  ELSE Kleene(p.body) = "true"

(* What an allow is certain for: documents without an adapter and without  *)
(* a time of their evidence, and contexts that give the generated sizes.   *)
Plain(p) == ~p.adapter /\ ~p.time
SizesGiven == \A e \in Expressions : e.op = "generated" => Given(e, facts)

(* A plain policy allows only what holds however the evidence that is      *)
(* missing, stale or malformed would turn out: the order of the operands,  *)
(* short circuits, references, fuel and limits never let it allow on a     *)
(* guess.  The exception are the generated sizes: eval_generated takes one *)
(* that is missing or malformed for zero (unwrap_or_default), and allows.  *)
AllowIsCertain ==
  Plain(policy) /\ SizesGiven /\ Evaluate = "allow" => Certain(Prepared)

(* The documents the next property is about: an age is only compared with  *)
(* a bound, and a document whose evidence has a time has not allow and     *)
(* deny as well.  The code refuses neither; for other documents evidence   *)
(* that gets older may widen a decision.                                   *)
AgesAreBounded == \A e \in Expressions : e.op \in Binaries /\ e.fact \in AgeFacts => e.op = "lte"
TimeStandsAlone == \A p \in Policies : p.time => ~ ({"allow", "deny"} \subseteq Used(p))

(* A fact has gone missing.                                                *)
EvidenceLost == \E f \in Facts : facts[f] # "absent" /\ facts'[f] = "absent"

(* In those documents nothing that gets worse while the evidence is there  *)
(* (an older age, one that is no number, a failed adapter, a withdrawn     *)
(* authority, a tighter limit, a slow machine, a further source) makes a   *)
(* candidate eligible or a decision an allow.  Evidence that goes missing  *)
(* may: `any` of a stale age and a true operand denies, and allows without *)
(* the age, and an operand that is unknown early leaves fuel to the        *)
(* others.  But then a plain policy was already true on the evidence there *)
(* was.                                                                    *)
NothingWorseWidens ==
  [][IF EvidenceLost
     THEN \A now \in {Evaluate'} : now = "allow" /\ Plain(policy) /\ SizesGiven' => Certain(Prepared)
     ELSE \A before \in {Evaluate}, now \in {Evaluate'} :
            /\ now = "allow" => before = "allow"
            /\ Effective(now)' = "allow" => Effective(before) = "allow"
            /\ Eligibility(Effective(now))' = "eligible" => Eligibility(Effective(before)) = "eligible"]_vars
=============================================================================
