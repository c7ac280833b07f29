-------------------------- MODULE RoutingEnforcement --------------------------
(***************************************************************************)
(* The projection of the active policy of a binding into the routing       *)
(* policy of the client, and the client that verifies it before every      *)
(* submission (src/src/routing_enforcement.rs), over the repository.       *)
(*                                                                         *)
(* A rule of a revision is [fact, regions], [fact, flag] or [fact, level]; *)
(* the rules of a revision are the operands of its nested `all`s.  A       *)
(* routing policy is [regions, require, identity]: no regions means any    *)
(* region, require holds the flags that are required, identity is the rank *)
(* of the level.  The client library (external) admits the candidates that *)
(* satisfy the policy it is handed; it works while the repository is       *)
(* borrowed, so that nothing is stored or activated meanwhile.             *)
(***************************************************************************)
EXTENDS PolicyLifecycle

CONSTANTS
  Clients,
  Regions, Flags,
  Candidates,                \* [region, flags, identity] of each
  Eligibles,                 \* sets of candidates evidence may call eligible
  Configs, Requests,         \* routing policies of clients and of requests
  MaxTtl                     \* the longest a projection may live

(* The ranks of the levels of a manifest's identity, 0 for none.           *)
Ranks == 0 .. 3
RoutingPolicies == [regions: SUBSET Regions, require: SUBSET Flags, identity: Ranks]

ASSUME RoutingAssumption ==
  /\ MaxTtl \in Nat /\ "manifest" \in Flags
  /\ Configs \subseteq RoutingPolicies /\ Requests \subseteq RoutingPolicies
  /\ \A k \in Candidates : k.identity \in Ranks
  /\ \A rule \in UNION {UNION {content.rules : content \in Policies[r]} : r \in RevisionIds} :
       /\ rule.fact = "flag" => rule.flag \in Flags
       /\ rule.fact = "identity" => rule.level \in Ranks

VARIABLES
  held,      \* the projection made for a client to come
  client,    \* of each client, its projection, baseline and configuration
  task       \* its newest submission

clientVars == <<held, client, task>>
vars == <<clock, repositoryVars, clientVars>>

---------------------------------------------------------------------------
(* validate_candidate_evidence.                                            *)
Evidenced(evidence, from, until) ==
  /\ from < evidence.until /\ evidence.from <= from /\ until <= evidence.until
  /\ evidence.unresolved = 0

RegionRules(rules) == {rule \in rules : rule.fact = "region"}
Required(rules) ==
  {rule.flag : rule \in {q \in rules : q.fact = "flag"}}
    \cup (IF \E rule \in rules : rule.fact = "identity" THEN {"manifest"} ELSE {})
Level(rules) ==
  LET levels == {rule.level : rule \in {q \in rules : q.fact = "identity"}} IN
  IF levels = {} THEN 0 ELSE CHOOSE n \in levels : \A l \in levels : l <= n

(* project_expression, apply_regions, apply_identity: the regions of the   *)
(* rules are met, the flags joined, the highest level is required.         *)
Allowed(rules) == {g \in Regions : \A rule \in RegionRules(rules) : g \in rule.regions}
RoutingPolicy(rules) ==
  [regions |-> IF RegionRules(rules) = {} THEN {} ELSE Allowed(rules),
   require |-> Required(rules), identity |-> Level(rules)]

(* Rules that leave no region deny all: the list of none would mean any.   *)
DenyAll(rules, evidence) ==
  \/ RegionRules(rules) # {} /\ Allowed(rules) = {}
  \/ evidence.eligible = {}

Rules(binding) == UNION {revisions[r].rules : r \in Sources(binding)}
Supported(rules) == rules # {} /\ \A rule \in rules : rule.fact \in {"region", "flag", "identity"}

(* A window that holds the whole of the projection.                        *)
Covers(window, from, until) == window.from <= from /\ from < window.until /\ until <= window.until

(* Broken variant: only the start of the projection has to be inside.      *)
ProjectableAtStart(b, evidence, from, until) ==
  /\ from < until /\ until - from <= MaxTtl
  /\ Evidenced(evidence, from, until)
  /\ b \in DOMAIN activations /\ b \in DOMAIN bindings
  /\ Contains(bindings[b], from) /\ Contains(activations[b], from)
  /\ bindings[b] = activations[b].bound
  /\ Sources(bindings[b]) # {}
  /\ \A r \in Sources(bindings[b]) :
       Usable(revisions[r]) /\ Contains(revisions[r], from) /\ Supported(revisions[r].rules)

(* project_active_routing_policy, its refusals.                            *)
Projectable(b, evidence, from, until) ==
  /\ from < until /\ until - from <= MaxTtl
  /\ Evidenced(evidence, from, until)
  /\ b \in DOMAIN activations /\ b \in DOMAIN bindings
  /\ Covers(bindings[b], from, until) /\ Covers(activations[b], from, until)
  /\ bindings[b] = activations[b].bound
  /\ Sources(bindings[b]) # {}
  /\ \A r \in Sources(bindings[b]) :
       Usable(revisions[r]) /\ Covers(revisions[r], from, until) /\ Supported(revisions[r].rules)

(* project_active_routing_policy, its result.                              *)
Projection(b, evidence, from, until) ==
  LET rules == Rules(bindings[b]) IN
  [binding |-> b, bound |-> bindings[b], digests |-> activations[b].digests,
   generation |-> activations[b].target, evidence |-> evidence, from |-> from, until |-> until,
   policy |-> RoutingPolicy(rules), deny |-> DenyAll(rules, evidence)]

(* verify_routing_enforcement_projection: it is in time, and making it     *)
(* again gives the same.                                                   *)
Verified(p, now) ==
  /\ p.from <= now /\ now < p.until
  /\ Projectable(p.binding, p.evidence, p.from, p.until)
  /\ p = Projection(p.binding, p.evidence, p.from, p.until)

(* Broken variant: two restrictions that exclude one another.              *)
IntersectOpen(left, right) ==
  [policy |-> [regions |-> IF left.regions = {} THEN right.regions
                           ELSE IF right.regions = {} THEN left.regions
                           ELSE left.regions \cap right.regions,
               require |-> left.require \cup right.require,
               identity |-> IF left.identity >= right.identity THEN left.identity ELSE right.identity],
   deny |-> FALSE]

(* intersect_routing_policies.                                             *)
Intersect(left, right) ==
  LET regions == IF left.regions = {} THEN right.regions
                 ELSE IF right.regions = {} THEN left.regions
                 ELSE left.regions \cap right.regions
      identity == IF left.identity >= right.identity THEN left.identity ELSE right.identity IN
  [policy |-> [regions |-> regions, identity |-> identity,
               require |-> left.require \cup right.require
                             \cup (IF identity > 0 THEN {"manifest"} ELSE {})],
   deny |-> left.regions # {} /\ right.regions # {} /\ regions = {}]

(* The client library: the candidates a routing policy admits.             *)
Admits(policy, c) ==
  /\ policy.regions = {} \/ c.region \in policy.regions
  /\ policy.require \subseteq c.flags
  /\ policy.identity <= c.identity
Admitted(policy) == {c \in Candidates : Admits(policy, c)}

---------------------------------------------------------------------------
Sending(c) == c \in DOMAIN task /\ task[c].status = "sending"
Idle == \A c \in Clients : ~Sending(c)

(* project_active_routing_policy, for a client.                            *)
Project(c, b, evidence, until) ==
  /\ Projectable(b, evidence, clock, until)
  /\ held' = Put(held, c, Projection(b, evidence, clock, until))
  /\ UNCHANGED <<clock, repositoryVars, client, task>>

(* ManagedIicpClient::new: the baseline is the projection, which it takes, *)
(* met with the client's own policy.                                       *)
Attach(c, config) ==
  /\ c \in DOMAIN held /\ ~Sending(c) /\ Verified(held[c], clock)
  /\ LET met == Intersect(config, held[c].policy) IN
     client' = Put(client, c, [projection |-> held[c], config |-> config, policy |-> met.policy,
                               deny |-> held[c].deny \/ met.deny])
  /\ held' = Remove(held, c) /\ task' = Remove(task, c)
  /\ UNCHANGED <<clock, repositoryVars>>

(* submit, until the library is called: verify, meet with the request's    *)
(* policy, refuse what is contradictory.  A request without a policy is    *)
(* one without restrictions.                                               *)
Submit(c, request) ==
  /\ c \in DOMAIN client /\ ~Sending(c)
  /\ Verified(client[c].projection, clock)
  /\ LET met == Intersect(client[c].policy, request) IN
     /\ ~client[c].deny /\ ~met.deny
     /\ task' = Put(task, c, [status |-> "sending", request |-> request, policy |-> met.policy,
                              at |-> clock, contacted |-> {}])
  /\ UNCHANGED <<clock, repositoryVars, held, client>>

(* EnforcementRanker: the evidence has to cover every candidate admitted.  *)
Ranked(c) == Admitted(task[c].policy) \subseteq client[c].projection.evidence.eligible

(* The library has found the candidates; the ranker lets it contact one.   *)
Contact(c, k) ==
  /\ Sending(c) /\ Ranked(c) /\ k \in Admitted(task[c].policy)
  /\ task' = [task EXCEPT ![c].status = "sent", ![c].contacted = {k}]
  /\ UNCHANGED <<clock, repositoryVars, held, client>>

(* No candidate is admitted, the ranker refuses them, or the call fails.   *)
GiveUp(c) ==
  /\ Sending(c)
  /\ task' = Remove(task, c)
  /\ UNCHANGED <<clock, repositoryVars, held, client>>

Init == RepositoryInit /\ held = Empty /\ client = Empty /\ task = Empty

EvidenceAt(now) ==
  [eligible: Eligibles, unresolved: {0, 1}, from: {now}, until: (now + 1) .. (now + MaxTtl)]

Dispatch ==
  \E c \in Clients :
    \/ \E b \in BindingIds, evidence \in EvidenceAt(clock), until \in (clock + 1) .. (clock + MaxTtl) :
         Project(c, b, evidence, until)
    \/ \E config \in Configs : Attach(c, config)
    \/ \E request \in Requests : Submit(c, request)
    \/ \E k \in Candidates : Contact(c, k)
    \/ GiveUp(c)

Next ==
  \/ Idle /\ Administer /\ UNCHANGED clientVars
  \/ Dispatch
  \/ Tick /\ UNCHANGED clientVars

Spec == Init /\ [][Next]_vars

---------------------------------------------------------------------------
TypeOK ==
  /\ RepositoryTypeOK
  /\ ReferencesAreClosed
  /\ DOMAIN held \subseteq Clients /\ DOMAIN client \subseteq Clients /\ DOMAIN task \subseteq DOMAIN client
  /\ \A c \in DOMAIN client : client[c].policy \in RoutingPolicies /\ client[c].deny \in BOOLEAN
  /\ \A c \in DOMAIN task :
       task[c] \in [status: {"sending", "sent"}, request: Requests, policy: RoutingPolicies,
                    at: 0 .. MaxClock, contacted: SUBSET Candidates]

(* A rule as its policy means it, read for one candidate.                  *)
Satisfies(k, rule) ==
  CASE rule.fact = "region" -> k.region \in rule.regions
    [] rule.fact = "flag" -> rule.flag \in k.flags
    [] rule.fact = "identity" -> k.identity >= rule.level /\ "manifest" \in k.flags

(* Who is contacted satisfies every rule of every revision that was        *)
(* active, the client's own policy and the request's, and is one the       *)
(* evidence calls eligible: neither projecting nor intersecting ever turns *)
(* a contradiction into no restriction.                                    *)
ContactsObeyEverySource ==
  \A c \in DOMAIN task : \A k \in task[c].contacted :
    LET p == client[c].projection IN
    /\ \A r \in DOMAIN p.digests : \A rule \in p.digests[r].rules : Satisfies(k, rule)
    /\ Admits(client[c].config, k) /\ Admits(task[c].request, k)
    /\ k \in p.evidence.eligible /\ p.evidence.unresolved = 0

(* What is being sent was let through under the generation that is active, *)
(* at a time inside the windows of the binding, of its activation, of      *)
(* every revision and of the evidence: COMPATIBILITY.md:28 to 33.          *)
SendsUnderTheActivePolicy ==
  \A c \in Clients : Sending(c) =>
    LET p == client[c].projection  at == task[c].at IN
    /\ activations[p.binding].target = p.generation
    /\ Contains(bindings[p.binding], at) /\ Contains(activations[p.binding], at)
    /\ \A r \in Sources(bindings[p.binding]) :
         p.digests[r] = revisions[r] /\ Usable(revisions[r]) /\ Contains(revisions[r], at)
    /\ Contains(p.evidence, at)
=============================================================================
