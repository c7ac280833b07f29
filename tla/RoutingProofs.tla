---------------------------- MODULE RoutingProofs ----------------------------
(***************************************************************************)
(* What is sent was let through under the active policy, and whom it       *)
(* reaches satisfies every policy involved, for any revisions, sets,       *)
(* bindings, clients, candidates and requests.                             *)
(***************************************************************************)
EXTENDS RoutingEnforcement, TLAPS

---------------------------------------------------------------------------
(* The operators.                                                          *)

(* Rules as a revision may have them, once it was found to be supported.   *)
Meaningful(rules) ==
  \A rule \in rules :
    /\ rule.fact \in {"region", "flag", "identity"}
    /\ rule.fact = "flag" => rule.flag \in Flags
    /\ rule.fact = "identity" => rule.level \in Ranks

LEMMA HighestRank ==
  ASSUME NEW S \in SUBSET Ranks, S # {}
  PROVE  \E n \in S : \A l \in S : l <= n
  <1>1. CASE 3 \in S
    BY <1>1 DEF Ranks
  <1>2. CASE 3 \notin S /\ 2 \in S
    <2>1. S \subseteq 0 .. 2
      BY <1>2 DEF Ranks
    <2> QED  BY <1>2, <2>1
  <1>3. CASE 3 \notin S /\ 2 \notin S /\ 1 \in S
    <2>1. S \subseteq 0 .. 1
      BY <1>3 DEF Ranks
    <2> QED  BY <1>3, <2>1
  <1>4. CASE 3 \notin S /\ 2 \notin S /\ 1 \notin S
    <2>1. S \subseteq {0}
      BY <1>4 DEF Ranks
    <2>2. PICK n \in S : TRUE
      OBVIOUS
    <2>3. n = 0 /\ \A l \in S : l = 0
      BY <2>1, <2>2
    <2>4. \A l \in S : l <= n
      BY <2>3
    <2> QED  BY <2>4
  <1> QED  BY <1>1, <1>2, <1>3, <1>4

(* The level of some rules is a rank, and at least that of each of them.   *)
LEMMA LevelIsHighest ==
  ASSUME NEW rules, Meaningful(rules)
  PROVE  /\ Level(rules) \in Ranks
         /\ \A rule \in rules : rule.fact = "identity" => rule.level <= Level(rules)
  <1> DEFINE levels == {rule.level : rule \in {q \in rules : q.fact = "identity"}}
  <1>1. levels \subseteq Ranks
    BY DEF Meaningful
  <1>2. CASE levels = {}
    BY <1>2 DEF Level, Ranks
  <1>3. CASE levels # {}
    <2>1. \E n \in levels : \A l \in levels : l <= n
      <3> HIDE DEF levels
      <3> QED  BY <1>1, <1>3, HighestRank
    <2>2. Level(rules) = CHOOSE n \in levels : \A l \in levels : l <= n
      BY <1>3 DEF Level
    <2>3. Level(rules) \in levels /\ \A l \in levels : l <= Level(rules)
      <3> HIDE DEF levels
      <3> QED  BY <2>1, <2>2
    <2> QED  BY <1>1, <2>3
  <1> QED  BY <1>2, <1>3

(* A policy made of rules admits only what satisfies each of the rules.    *)
LEMMA RulesAreObeyed ==
  ASSUME NEW rules, Meaningful(rules)
  PROVE  /\ RoutingPolicy(rules) \in RoutingPolicies
         /\ \A k \in Candidates : \A e :
              ~DenyAll(rules, e) /\ Admits(RoutingPolicy(rules), k) =>
                \A rule \in rules : Satisfies(k, rule)
  <1>1. RoutingPolicy(rules) \in RoutingPolicies
    <2>1. Allowed(rules) \subseteq Regions
      BY DEF Allowed
    <2>2. Required(rules) \subseteq Flags
      BY RoutingAssumption DEF Required, Meaningful
    <2> QED  BY <2>1, <2>2, LevelIsHighest DEF RoutingPolicy, RoutingPolicies
  <1>2. ASSUME NEW k \in Candidates, NEW e, NEW rule \in rules,
               ~DenyAll(rules, e), Admits(RoutingPolicy(rules), k)
        PROVE  Satisfies(k, rule)
    <2>1. CASE rule.fact = "region"
      <3>1. rule \in RegionRules(rules)
        BY <2>1 DEF RegionRules
      <3>2. k.region \in Allowed(rules)
        BY <1>2, <3>1 DEF DenyAll, Admits, RoutingPolicy
      <3> QED  BY <2>1, <3>1, <3>2 DEF Allowed, Satisfies
    <2>2. CASE rule.fact = "flag"
      <3>1. rule.flag \in Required(rules)
        BY <2>2 DEF Required
      <3> QED  BY <1>2, <2>2, <3>1 DEF Satisfies, Admits, RoutingPolicy
    <2>3. CASE rule.fact = "identity"
      <3>1. "manifest" \in Required(rules)
        BY <2>3 DEF Required
      <3>2. Level(rules) <= k.identity /\ Required(rules) \subseteq k.flags
        BY <1>2 DEF Admits, RoutingPolicy
      <3>3. rule.level <= k.identity
        <4>1. rule.level <= Level(rules) /\ Level(rules) \in Ranks /\ rule.level \in Ranks
          BY <2>3, LevelIsHighest DEF Meaningful
        <4>2. k.identity \in Ranks
          BY RoutingAssumption
        <4> QED  BY <3>2, <4>1, <4>2 DEF Ranks
      <3>4. rule.level \in Ranks /\ k.identity \in Ranks
        BY <2>3, RoutingAssumption DEF Meaningful
      <3> QED  BY <2>3, <3>1, <3>2, <3>3, <3>4 DEF Satisfies, Ranks
    <2> QED  BY <2>1, <2>2, <2>3 DEF Meaningful
  <1> QED  BY <1>1, <1>2

(* An intersection that does not deny admits only what both sides admit.   *)
LEMMA IntersectionNarrows ==
  ASSUME NEW left \in RoutingPolicies, NEW right \in RoutingPolicies
  PROVE  /\ Intersect(left, right).policy \in RoutingPolicies
         /\ Intersect(left, right).deny \in BOOLEAN
         /\ \A k \in Candidates :
              ~Intersect(left, right).deny /\ Admits(Intersect(left, right).policy, k) =>
                Admits(left, k) /\ Admits(right, k)
  <1> DEFINE met == Intersect(left, right)
  <1>1. met.policy \in RoutingPolicies /\ met.deny \in BOOLEAN
    BY RoutingAssumption DEF Intersect, RoutingPolicies, Ranks
  <1>2. /\ left.require \subseteq met.policy.require /\ right.require \subseteq met.policy.require
        /\ left.identity <= met.policy.identity /\ right.identity <= met.policy.identity
    BY DEF Intersect, RoutingPolicies, Ranks
  <1>3. ASSUME NEW k \in Candidates, ~met.deny, Admits(met.policy, k)
        PROVE  Admits(left, k) /\ Admits(right, k)
    <2>1. /\ left.regions = {} \/ k.region \in left.regions
          /\ right.regions = {} \/ k.region \in right.regions
      BY <1>3 DEF Intersect, Admits
    <2>2. left.identity <= k.identity /\ right.identity <= k.identity
      BY <1>1, <1>2, <1>3, RoutingAssumption DEF Admits, RoutingPolicies, Ranks
    <2>3. left.require \subseteq k.flags /\ right.require \subseteq k.flags
      BY <1>2, <1>3 DEF Admits
    <2> QED  BY <2>1, <2>2, <2>3 DEF Admits
  <1> QED  BY <1>1, <1>3

---------------------------------------------------------------------------
(* The repository.                                                         *)

(* An activation that was made out names a binding that is stored and is   *)
(* for the generation after the one it was made out for.                   *)
MadeOut(a) ==
  /\ a.expected \in Nat /\ a.expected < MaxGeneration /\ a.target = a.expected + 1
  /\ a.from \in Nat /\ a.until \in Nat

RepositoryInv ==
  /\ RepositoryTypeOK
  /\ ReferencesAreClosed
  /\ ActivationsStayTrue
  /\ \A a \in prepared : MadeOut(a) /\ a.binding \in DOMAIN bindings
  /\ \A b \in DOMAIN activations : MadeOut(activations[b])

LEMMA Windows ==
  /\ \A r \in RevisionIds : \A content \in Policies[r] : content.from \in Nat /\ content.until \in Nat
  /\ \A content \in Bindings : content.from \in Nat /\ content.until \in Nat
  BY RepositoryAssumption

(* Everything a stored binding names is stored.                            *)
LEMMA SourcesAreStored ==
  ASSUME RepositoryInv, NEW b \in DOMAIN bindings
  PROVE  Sources(bindings[b]) \subseteq DOMAIN revisions
  BY DEF RepositoryInv, RepositoryTypeOK, ReferencesAreClosed, Sources

(* What an activation names has windows of natural numbers.                *)
LEMMA ActivationsAreOfSources ==
  ASSUME RepositoryInv, NEW b \in DOMAIN activations
  PROVE  /\ bindings[b].from \in Nat /\ bindings[b].until \in Nat
         /\ activations[b].from \in Nat /\ activations[b].until \in Nat
         /\ \A r \in Sources(bindings[b]) :
              /\ activations[b].digests[r] = revisions[r]
              /\ revisions[r].from \in Nat /\ revisions[r].until \in Nat
  <1>1. b \in DOMAIN bindings /\ bindings[b] \in Bindings
    BY DEF RepositoryInv, RepositoryTypeOK
  <1>2. bindings[b].from \in Nat /\ bindings[b].until \in Nat
    BY <1>1, Windows
  <1>3. activations[b].from \in Nat /\ activations[b].until \in Nat
    BY DEF RepositoryInv, MadeOut
  <1>4. /\ activations[b].bound = bindings[b]
        /\ DOMAIN activations[b].digests = Sources(activations[b].bound)
        /\ \A r \in DOMAIN activations[b].digests : activations[b].digests[r] = revisions[r]
    BY DEF RepositoryInv, ActivationsStayTrue
  <1>5. ASSUME NEW r \in Sources(bindings[b])
        PROVE  revisions[r].from \in Nat /\ revisions[r].until \in Nat
    <2>1. r \in RevisionIds /\ revisions[r] \in Policies[r]
      BY <1>1, SourcesAreStored DEF RepositoryInv, RepositoryTypeOK
    <2> QED  BY <2>1, Windows
  <1> QED  BY <1>2, <1>3, <1>4, <1>5

(* What is stored stays, so what is activated stays true.                  *)
LEMMA NewRevision ==
  ASSUME RepositoryInv, NEW r \in RevisionIds, NEW content \in Policies[r], StoreRevision(r, content)
  PROVE  RepositoryInv'
  <1> USE DEF StoreRevision
  <1>1. /\ DOMAIN revisions' = DOMAIN revisions \cup {r} /\ revisions'[r] = content
        /\ \A x \in DOMAIN revisions : revisions'[x] = revisions[x]
    BY DEF Put
  <1>2. RepositoryTypeOK' /\ ReferencesAreClosed'
    BY <1>1 DEF RepositoryInv, RepositoryTypeOK, ReferencesAreClosed
  <1>3. \A binding : Sources(binding)' = Sources(binding)
    BY DEF Sources
  <1>4. ActivationsStayTrue'
    <2> SUFFICES ASSUME NEW b \in DOMAIN activations
                 PROVE  \A x \in DOMAIN activations[b].digests : activations[b].digests[x] = revisions'[x]
      BY <1>3 DEF RepositoryInv, ActivationsStayTrue
    <2>1. /\ activations[b].bound = bindings[b] /\ b \in DOMAIN bindings
          /\ DOMAIN activations[b].digests = Sources(activations[b].bound)
          /\ \A x \in DOMAIN activations[b].digests : activations[b].digests[x] = revisions[x]
      BY DEF RepositoryInv, RepositoryTypeOK, ActivationsStayTrue
    <2>2. Sources(activations[b].bound) \subseteq DOMAIN revisions
      BY <2>1, SourcesAreStored
    <2> QED  BY <1>1, <2>1, <2>2
  <1> QED  BY <1>2, <1>4 DEF RepositoryInv

LEMMA NewSet ==
  ASSUME RepositoryInv, NEW s \in SetIds, NEW members \in Memberships, StoreSet(s, members)
  PROVE  RepositoryInv'
  <1> USE DEF StoreSet
  <1>1. /\ DOMAIN sets' = DOMAIN sets \cup {s} /\ sets'[s] = members
        /\ \A x \in DOMAIN sets : sets'[x] = sets[x]
    BY DEF Put
  <1>2. RepositoryTypeOK' /\ ReferencesAreClosed'
    BY <1>1 DEF RepositoryInv, RepositoryTypeOK, ReferencesAreClosed
  <1>3. ASSUME NEW b \in DOMAIN bindings
        PROVE  Sources(bindings[b])' = Sources(bindings[b])
    <2>1. bindings[b].sets \subseteq DOMAIN sets
      BY DEF RepositoryInv, ReferencesAreClosed
    <2> QED  BY <1>1, <2>1 DEF Sources
  <1>4. ActivationsStayTrue'
    <2> SUFFICES ASSUME NEW b \in DOMAIN activations
                 PROVE  DOMAIN activations[b].digests = Sources(activations[b].bound)'
      BY DEF RepositoryInv, ActivationsStayTrue
    <2>1. /\ activations[b].bound = bindings[b] /\ b \in DOMAIN bindings
          /\ DOMAIN activations[b].digests = Sources(activations[b].bound)
      BY DEF RepositoryInv, RepositoryTypeOK, ActivationsStayTrue
    <2>2. Sources(bindings[b])' = Sources(bindings[b]) /\ bindings' = bindings /\ activations' = activations
      BY <1>3, <2>1
    <2> QED  BY <2>1, <2>2
  <1> QED  BY <1>2, <1>4 DEF RepositoryInv

LEMMA NewBinding ==
  ASSUME RepositoryInv, NEW b \in BindingIds, NEW content \in Bindings, StoreBinding(b, content)
  PROVE  RepositoryInv'
  <1> USE DEF StoreBinding
  <1>1. /\ DOMAIN bindings' = DOMAIN bindings \cup {b} /\ bindings'[b] = content
        /\ \A x \in DOMAIN bindings : bindings'[x] = bindings[x]
    BY DEF Put
  <1>2. RepositoryTypeOK' /\ ReferencesAreClosed'
    BY <1>1 DEF RepositoryInv, RepositoryTypeOK, ReferencesAreClosed
  <1>3. \A binding : Sources(binding)' = Sources(binding)
    BY DEF Sources
  <1>4. ActivationsStayTrue'
    BY <1>1, <1>3 DEF RepositoryInv, RepositoryTypeOK, ActivationsStayTrue
  <1> QED  BY <1>1, <1>2, <1>4 DEF RepositoryInv

LEMMA NewActivation ==
  ASSUME RepositoryInv, NEW b \in BindingIds, NEW life \in Lifetimes, Prepare(b, life)
  PROVE  RepositoryInv'
  <1> DEFINE a == [binding |-> b, expected |-> generation, target |-> generation + 1,
                   bound |-> bindings[b], digests |-> Digests(bindings[b]),
                   from |-> clock, until |-> IF life = Forever THEN Forever ELSE clock + life]
  <1>1. prepared' = prepared \cup {a} /\ b \in DOMAIN bindings /\ generation < MaxGeneration
    BY DEF Prepare
  <1>2. MadeOut(a)
    BY <1>1, RepositoryAssumption DEF MadeOut, RepositoryInv, RepositoryTypeOK, Forever
  <1>3. UNCHANGED <<clock, revisions, sets, bindings, activations, generation>>
    BY DEF Prepare
  <1>4. \A x \in prepared' : MadeOut(x) /\ x.binding \in DOMAIN bindings
    BY <1>1, <1>2 DEF RepositoryInv
  <1>5. RepositoryTypeOK' /\ ReferencesAreClosed' /\ ActivationsStayTrue'
    BY <1>3 DEF RepositoryInv, RepositoryTypeOK, ReferencesAreClosed, ActivationsStayTrue, Sources
  <1> QED  BY <1>3, <1>4, <1>5 DEF RepositoryInv

LEMMA Activated ==
  ASSUME RepositoryInv, NEW a \in prepared, Activate(a)
  PROVE  RepositoryInv'
  <1> USE DEF Activate
  <1>1. /\ DOMAIN activations' = DOMAIN activations \cup {a.binding} /\ activations'[a.binding] = a
        /\ \A x \in DOMAIN activations \ {a.binding} : activations'[x] = activations[x]
    BY DEF Put
  <1>2. MadeOut(a) /\ a.binding \in DOMAIN bindings /\ a.target = generation + 1 /\ generation' = a.target
    BY DEF RepositoryInv
  <1>3. RepositoryTypeOK' /\ ReferencesAreClosed'
    BY <1>1, <1>2, RepositoryAssumption DEF RepositoryInv, RepositoryTypeOK, ReferencesAreClosed, MadeOut
  <1>4. \A binding : Sources(binding)' = Sources(binding)
    BY DEF Sources
  <1>5. /\ a.bound = bindings[a.binding] /\ DOMAIN a.digests = Sources(a.bound)
        /\ \A r \in DOMAIN a.digests : a.digests[r] = revisions[r]
    BY DEF Digests
  <1>6. ASSUME NEW b \in DOMAIN activations \ {a.binding}
        PROVE  /\ activations[b].binding = b /\ activations[b].bound = bindings[b]
               /\ DOMAIN activations[b].digests = Sources(activations[b].bound)
               /\ \A r \in DOMAIN activations[b].digests : activations[b].digests[r] = revisions[r]
               /\ activations[b].target = activations[b].expected + 1
               /\ activations[b].target \in Nat /\ activations[b].target <= generation
               /\ \A c \in DOMAIN activations \ {b} : activations[c].target # activations[b].target
    BY DEF RepositoryInv, ActivationsStayTrue, MadeOut
  <1>7. generation \in Nat
    BY DEF RepositoryInv, RepositoryTypeOK
  <1>8. ActivationsStayTrue'
    <2> SUFFICES ASSUME NEW b \in DOMAIN activations'
                 PROVE  /\ activations'[b].binding = b /\ activations'[b].bound = bindings'[b]
                        /\ DOMAIN activations'[b].digests = Sources(activations[b].bound)'
                        /\ \A r \in DOMAIN activations'[b].digests : activations'[b].digests[r] = revisions'[r]
                        /\ activations'[b].target = activations'[b].expected + 1
                        /\ activations'[b].target <= generation'
                        /\ \A c \in DOMAIN activations' \ {b} : activations'[c].target # activations'[b].target
      BY DEF ActivationsStayTrue
    <2>1. CASE b = a.binding
      BY <1>1, <1>2, <1>4, <1>5, <1>6, <1>7, <2>1 DEF MadeOut
    <2>2. CASE b # a.binding
      BY <1>1, <1>2, <1>4, <1>6, <1>7, <2>2
    <2> QED  BY <2>1, <2>2
  <1>9. prepared' \subseteq prepared /\ bindings' = bindings
    OBVIOUS
  <1> QED  BY <1>1, <1>2, <1>3, <1>8, <1>9 DEF RepositoryInv

LEMMA AdministerKeeps ==
  ASSUME RepositoryInv, Administer
  PROVE  RepositoryInv'
  BY NewRevision, NewSet, NewBinding, NewActivation, Activated DEF Administer

---------------------------------------------------------------------------
(* Projections and what clients make of them.                              *)

(* A projection is the policy of the revisions its digests are of.         *)
ProjectionTrue(p) ==
  LET rules == UNION {p.digests[r].rules : r \in DOMAIN p.digests} IN
  /\ Meaningful(rules)
  /\ p.policy = RoutingPolicy(rules) /\ (p.deny <=> DenyAll(rules, p.evidence))
  /\ p.evidence.unresolved = 0
  /\ {p.from, p.until, p.evidence.from, p.evidence.until} \subseteq Nat

(* A client's baseline is its projection met with its own policy.          *)
BaselineTrue(m) ==
  LET met == Intersect(m.config, m.projection.policy) IN
  /\ ProjectionTrue(m.projection) /\ m.config \in Configs
  /\ m.policy = met.policy /\ m.deny \in BOOLEAN
  /\ m.deny <=> m.projection.deny \/ met.deny

(* A submission is under the baseline met with the request's policy.       *)
TaskTrue(m, t) ==
  LET met == Intersect(m.policy, t.request) IN
  /\ t \in [status: {"sending", "sent"}, request: Requests, policy: RoutingPolicies,
             at: 0 .. MaxClock, contacted: SUBSET Candidates]
  /\ ~m.deny /\ ~met.deny /\ t.policy = met.policy
  /\ \A k \in t.contacted : Admits(t.policy, k) /\ k \in m.projection.evidence.eligible

ClientInv ==
  /\ DOMAIN held \subseteq Clients /\ DOMAIN client \subseteq Clients /\ DOMAIN task \subseteq DOMAIN client
  /\ \A c \in DOMAIN held : ProjectionTrue(held[c])
  /\ \A c \in DOMAIN client : BaselineTrue(client[c])
  /\ \A c \in DOMAIN task : TaskTrue(client[c], task[c])

(* While a client is sending, its projection is still the one that was     *)
(* verified: the repository is borrowed.                                   *)
SendingInv == \A c \in DOMAIN task : Sending(c) => Verified(client[c].projection, task[c].at)

RoutingInv == RepositoryInv /\ ClientInv /\ SendingInv

LEMMA ProjectedIsTrue ==
  ASSUME RepositoryInv, NEW b \in BindingIds, NEW evidence, NEW from \in Nat, NEW until \in Nat,
         evidence.from \in Nat, evidence.until \in Nat, Projectable(b, evidence, from, until)
  PROVE  ProjectionTrue(Projection(b, evidence, from, until))
  <1> DEFINE p == Projection(b, evidence, from, until)
             rules == UNION {p.digests[r].rules : r \in DOMAIN p.digests}
  <1>1. /\ p.digests = activations[b].digests /\ p.evidence = evidence /\ p.from = from /\ p.until = until
        /\ p.policy = RoutingPolicy(Rules(bindings[b])) /\ p.deny = DenyAll(Rules(bindings[b]), evidence)
    BY DEF Projection
  <1>2. b \in DOMAIN activations /\ b \in DOMAIN bindings /\ activations[b].bound = bindings[b]
    BY DEF Projectable
  <1>3. /\ DOMAIN p.digests = Sources(bindings[b])
        /\ \A r \in Sources(bindings[b]) : p.digests[r] = revisions[r]
    BY <1>1, <1>2 DEF RepositoryInv, ActivationsStayTrue
  <1>4. rules = Rules(bindings[b])
    BY <1>3 DEF Rules
  <1>5. Meaningful(rules)
    <2> SUFFICES ASSUME NEW r \in Sources(bindings[b]), NEW rule \in revisions[r].rules
                 PROVE  /\ rule.fact \in {"region", "flag", "identity"}
                        /\ rule.fact = "flag" => rule.flag \in Flags
                        /\ rule.fact = "identity" => rule.level \in Ranks
      BY <1>4 DEF Rules, Meaningful
    <2>1. r \in RevisionIds /\ revisions[r] \in Policies[r]
      BY <1>2, SourcesAreStored DEF RepositoryInv, RepositoryTypeOK
    <2>2. Supported(revisions[r].rules)
      BY DEF Projectable
    <2>3. rule \in UNION {UNION {content.rules : content \in Policies[x]} : x \in RevisionIds}
      BY <2>1
    <2> QED  BY <2>2, <2>3, RoutingAssumption DEF Supported
  <1>6. evidence.unresolved = 0
    BY DEF Projectable, Evidenced
  <1> QED  BY <1>1, <1>4, <1>5, <1>6 DEF ProjectionTrue

LEMMA BaselineTypes ==
  ASSUME NEW m, BaselineTrue(m)
  PROVE  /\ m.config \in RoutingPolicies /\ m.projection.policy \in RoutingPolicies
         /\ m.policy \in RoutingPolicies
  <1>1. m.config \in RoutingPolicies
    BY RoutingAssumption DEF BaselineTrue
  <1>2. m.projection.policy \in RoutingPolicies
    BY RulesAreObeyed DEF BaselineTrue, ProjectionTrue
  <1> QED  BY <1>1, <1>2, IntersectionNarrows DEF BaselineTrue

(* What is verified depends on the repository alone.                       *)
LEMMA VerifiedStays ==
  ASSUME UNCHANGED repositoryVars
  PROVE  \A p, now : Verified(p, now)' <=> Verified(p, now)
  <1>1. \A binding : Sources(binding)' = Sources(binding)
    BY DEF Sources, repositoryVars
  <1>2. \A binding : Rules(binding)' = Rules(binding)
    BY <1>1 DEF Rules, repositoryVars
  <1>3. \A b, evidence, from, until :
          Projectable(b, evidence, from, until)' <=> Projectable(b, evidence, from, until)
    BY <1>1 DEF Projectable, repositoryVars
  <1>4. \A b, evidence, from, until :
          Projection(b, evidence, from, until)' = Projection(b, evidence, from, until)
    BY <1>2 DEF Projection, repositoryVars
  <1> QED  BY <1>3, <1>4 DEF Verified

---------------------------------------------------------------------------
(* The steps of a client.                                                  *)
LEMMA NewProjection ==
  ASSUME RoutingInv, NEW c \in Clients, NEW b \in BindingIds, NEW evidence \in EvidenceAt(clock),
         NEW until \in (clock + 1) .. (clock + MaxTtl), Project(c, b, evidence, until)
  PROVE  ClientInv'
  <1>1. /\ clock \in Nat /\ until \in Nat /\ evidence.from \in Nat /\ evidence.until \in Nat
    BY RoutingAssumption, RepositoryAssumption DEF RoutingInv, RepositoryInv, RepositoryTypeOK, EvidenceAt
  <1>2. ProjectionTrue(Projection(b, evidence, clock, until))
    BY <1>1, ProjectedIsTrue DEF RoutingInv, Project
  <1> QED  BY <1>2 DEF RoutingInv, ClientInv, Project, Put

LEMMA NewClient ==
  ASSUME RoutingInv, NEW c \in Clients, NEW config \in Configs, Attach(c, config)
  PROVE  ClientInv' /\ SendingInv'
  <1> DEFINE met == Intersect(config, held[c].policy)
             m == [projection |-> held[c], config |-> config, policy |-> met.policy,
                   deny |-> held[c].deny \/ met.deny]
  <1>1. /\ client' = Put(client, c, m) /\ held' = Remove(held, c) /\ task' = Remove(task, c)
        /\ c \in DOMAIN held
        /\ UNCHANGED <<clock, repositoryVars>>
    BY DEF Attach
  <1>2. BaselineTrue(m)
    <2>1. ProjectionTrue(held[c])
      BY <1>1 DEF RoutingInv, ClientInv
    <2> QED  BY <2>1 DEF BaselineTrue
  <1>3. ClientInv'
    BY <1>1, <1>2 DEF RoutingInv, ClientInv, Put, Remove
  <1>4. SendingInv'
    <2> SUFFICES ASSUME NEW d \in DOMAIN task', Sending(d)'
                 PROVE  Verified(client[d].projection, task[d].at)'
      BY DEF SendingInv
    <2>1. d # c /\ d \in DOMAIN task /\ task'[d] = task[d] /\ client'[d] = client[d]
      BY <1>1 DEF Put, Remove, RoutingInv, ClientInv
    <2>2. Sending(d)
      BY <2>1 DEF Sending
    <2>3. Verified(client[d].projection, task[d].at)
      BY <2>1, <2>2 DEF RoutingInv, SendingInv
    <2> QED  BY <1>1, <2>1, <2>3, VerifiedStays
  <1> QED  BY <1>3, <1>4

(* A submission leaves the tasks of the other clients as they are.         *)
LEMMA OthersStay ==
  ASSUME RoutingInv, NEW c \in Clients, UNCHANGED repositoryVars, UNCHANGED client,
         \A d \in DOMAIN task' : d # c => d \in DOMAIN task /\ task'[d] = task[d],
         c \in DOMAIN task' /\ Sending(c)' => Verified(client[c].projection, task'[c].at)
  PROVE  SendingInv'
  <1> SUFFICES ASSUME NEW d \in DOMAIN task', Sending(d)'
               PROVE  Verified(client[d].projection, task[d].at)'
    BY DEF SendingInv
  <1>1. CASE d = c
    BY <1>1, VerifiedStays
  <1>2. CASE d # c
    <2>1. d \in DOMAIN task /\ task'[d] = task[d] /\ Sending(d)
      BY <1>2 DEF Sending
    <2>2. Verified(client[d].projection, task[d].at)
      BY <2>1 DEF RoutingInv, SendingInv
    <2> QED  BY <2>1, <2>2, VerifiedStays
  <1> QED  BY <1>1, <1>2

LEMMA NewTask ==
  ASSUME RoutingInv, NEW c \in Clients, NEW request \in Requests, Submit(c, request)
  PROVE  ClientInv' /\ SendingInv'
  <1> DEFINE met == Intersect(client[c].policy, request)
             t == [status |-> "sending", request |-> request, policy |-> met.policy,
                   at |-> clock, contacted |-> {}]
  <1>1. /\ task' = Put(task, c, t) /\ c \in DOMAIN client /\ ~client[c].deny /\ ~met.deny
        /\ Verified(client[c].projection, clock)
        /\ UNCHANGED <<clock, repositoryVars, held, client>>
    BY DEF Submit
  <1>2. /\ DOMAIN task' = DOMAIN task \cup {c} /\ task'[c] = t
        /\ \A d \in DOMAIN task' : d # c => d \in DOMAIN task /\ task'[d] = task[d]
    BY <1>1 DEF Put
  <1>3. TaskTrue(client[c], t)
    <2>1. client[c].policy \in RoutingPolicies
      BY <1>1, BaselineTypes DEF RoutingInv, ClientInv
    <2>2. request \in RoutingPolicies /\ clock \in 0 .. MaxClock
      BY RoutingAssumption DEF RoutingInv, RepositoryInv, RepositoryTypeOK
    <2>3. met.policy \in RoutingPolicies
      BY <2>1, <2>2, IntersectionNarrows
    <2> QED  BY <1>1, <2>2, <2>3 DEF TaskTrue
  <1>4. ClientInv'
    BY <1>1, <1>2, <1>3 DEF RoutingInv, ClientInv
  <1>5. Verified(client[c].projection, task'[c].at)
    <2>1. task'[c].at = clock
      BY <1>2
    <2> QED  BY <1>1, <2>1
  <1>6. UNCHANGED repositoryVars /\ UNCHANGED client
    BY <1>1
  <1>7. SendingInv'
    <2> HIDE DEF t, met
    <2> QED  BY <1>2, <1>5, <1>6, OthersStay
  <1> QED  BY <1>4, <1>7

LEMMA NewContact ==
  ASSUME RoutingInv, NEW c \in Clients, NEW k \in Candidates, Contact(c, k)
  PROVE  ClientInv' /\ SendingInv'
  <1> USE DEF Contact
  <1>1. c \in DOMAIN task /\ TaskTrue(client[c], task[c])
    BY DEF Sending, RoutingInv, ClientInv
  <1>2. /\ DOMAIN task' = DOMAIN task
        /\ task'[c] = [task[c] EXCEPT !.status = "sent", !.contacted = {k}]
        /\ \A d \in DOMAIN task' : d # c => d \in DOMAIN task /\ task'[d] = task[d]
    BY <1>1
  <1>3. /\ task'[c] \in [status: {"sending", "sent"}, request: Requests, policy: RoutingPolicies,
                         at: 0 .. MaxClock, contacted: SUBSET Candidates]
        /\ task'[c].policy = task[c].policy /\ task'[c].request = task[c].request
        /\ task'[c].contacted = {k} /\ task'[c].status = "sent"
    BY <1>1, <1>2 DEF TaskTrue
  <1>4. Admits(task[c].policy, k) /\ k \in client[c].projection.evidence.eligible
    BY DEF Ranked, Admitted
  <1>5. TaskTrue(client[c], task'[c])
    BY <1>1, <1>3, <1>4 DEF TaskTrue
  <1>6. ClientInv'
    BY <1>2, <1>5 DEF RoutingInv, ClientInv
  <1>7. SendingInv'
    BY <1>2, <1>3, OthersStay DEF Sending
  <1> QED  BY <1>6, <1>7

LEMMA TaskEnds ==
  ASSUME RoutingInv, NEW c \in Clients, GiveUp(c)
  PROVE  ClientInv' /\ SendingInv'
  <1>1. /\ DOMAIN task' = DOMAIN task \ {c}
        /\ \A d \in DOMAIN task' : d # c => d \in DOMAIN task /\ task'[d] = task[d]
        /\ UNCHANGED <<clock, repositoryVars, held, client>>
    BY DEF GiveUp, Remove
  <1>2. ClientInv'
    BY <1>1 DEF RoutingInv, ClientInv
  <1>3. SendingInv'
    BY <1>1, OthersStay
  <1> QED  BY <1>2, <1>3

LEMMA RepositoryStays ==
  ASSUME RepositoryInv, UNCHANGED repositoryVars, clock' \in 0 .. MaxClock
  PROVE  RepositoryInv'
  BY DEF RepositoryInv, repositoryVars, RepositoryTypeOK, ReferencesAreClosed,
         ActivationsStayTrue, Sources

---------------------------------------------------------------------------
LEMMA RoutingInvInit == Init => RoutingInv
  <1> SUFFICES ASSUME Init PROVE RoutingInv
    OBVIOUS
  <1>1. RepositoryInv
    BY RepositoryAssumption DEF Init, RepositoryInit, Empty, RepositoryInv, RepositoryTypeOK,
         ReferencesAreClosed, ActivationsStayTrue
  <1>2. ClientInv /\ SendingInv
    BY DEF Init, Empty, ClientInv, SendingInv
  <1> QED  BY <1>1, <1>2 DEF RoutingInv

LEMMA RoutingInvStep == RoutingInv /\ [Next]_vars => RoutingInv'
  <1> SUFFICES ASSUME RoutingInv, [Next]_vars PROVE RoutingInv'
    OBVIOUS
  <1>0. clock \in 0 .. MaxClock /\ RepositoryInv
    BY DEF RoutingInv, RepositoryInv, RepositoryTypeOK
  <1>1. CASE Idle /\ Administer /\ UNCHANGED clientVars
    <2>1. RepositoryInv'
      BY <1>0, <1>1, AdministerKeeps
    <2>2. \A d \in DOMAIN task : ~Sending(d)'
      BY <1>1 DEF Idle, Sending, clientVars, RoutingInv, ClientInv
    <2>3. ClientInv' /\ SendingInv'
      BY <1>1, <2>2 DEF RoutingInv, ClientInv, SendingInv, clientVars
    <2> QED  BY <2>1, <2>3 DEF RoutingInv
  <1>2. CASE Dispatch
    <2>1. clock' = clock /\ UNCHANGED repositoryVars
      BY <1>2 DEF Dispatch, Project, Attach, Submit, Contact, GiveUp
    <2>2. RepositoryInv'
      BY <1>0, <2>1, RepositoryStays
    <2>3. ClientInv' /\ SendingInv'
      <3> PICK c \in Clients :
            \/ \E b \in BindingIds, evidence \in EvidenceAt(clock), until \in (clock + 1) .. (clock + MaxTtl) :
                 Project(c, b, evidence, until)
            \/ \E config \in Configs : Attach(c, config)
            \/ \E request \in Requests : Submit(c, request)
            \/ \E k \in Candidates : Contact(c, k)
            \/ GiveUp(c)
        BY <1>2 DEF Dispatch
      <3>1. ASSUME NEW b \in BindingIds, NEW evidence \in EvidenceAt(clock),
                   NEW until \in (clock + 1) .. (clock + MaxTtl), Project(c, b, evidence, until)
            PROVE  ClientInv' /\ SendingInv'
        <4>1. ClientInv'
          BY <3>1, NewProjection
        <4>2. task' = task /\ client' = client
          BY <3>1 DEF Project
        <4>3. c \in DOMAIN task' /\ Sending(c)' => Verified(client[c].projection, task'[c].at)
          BY <4>2 DEF Sending, RoutingInv, SendingInv
        <4>4. SendingInv'
          BY <2>1, <4>2, <4>3, OthersStay
        <4> QED  BY <4>1, <4>4
      <3>2. ASSUME NEW config \in Configs, Attach(c, config) PROVE ClientInv' /\ SendingInv'
        BY <3>2, NewClient
      <3>3. ASSUME NEW request \in Requests, Submit(c, request) PROVE ClientInv' /\ SendingInv'
        BY <3>3, NewTask
      <3>4. ASSUME NEW k \in Candidates, Contact(c, k) PROVE ClientInv' /\ SendingInv'
        BY <3>4, NewContact
      <3>5. CASE GiveUp(c)
        BY <3>5, TaskEnds
      <3> QED  BY <3>1, <3>2, <3>3, <3>4, <3>5
    <2> QED  BY <2>2, <2>3 DEF RoutingInv
  <1>3. CASE (Tick /\ UNCHANGED clientVars) \/ UNCHANGED vars
    <2>1. UNCHANGED <<repositoryVars, held, client, task>> /\ clock' \in 0 .. MaxClock
      BY <1>0, <1>3, RepositoryAssumption DEF Tick, clientVars, vars
    <2>2. RepositoryInv' /\ ClientInv'
      BY <1>0, <2>1, RepositoryStays DEF RoutingInv, ClientInv
    <2>3. SendingInv'
      BY <2>1, VerifiedStays DEF RoutingInv, SendingInv, Sending
    <2> QED  BY <2>2, <2>3 DEF RoutingInv
  <1> QED  BY <1>1, <1>2, <1>3 DEF Next

(* The inductive invariant of the repository and its clients.              *)
THEOREM RoutingInvAlways == Spec => []RoutingInv
  <1> QED  BY RoutingInvInit, RoutingInvStep, PTL DEF Spec

---------------------------------------------------------------------------
(* Types are kept and nothing a set or a binding names is missing, however *)
(* revisions, sets and bindings are stored.                                *)
THEOREM TypeCorrect == Spec => []TypeOK
  <1>1. RoutingInv => TypeOK
    <2> SUFFICES ASSUME RoutingInv PROVE TypeOK
      OBVIOUS
    <2>1. \A c \in DOMAIN client : client[c].policy \in RoutingPolicies /\ client[c].deny \in BOOLEAN
      BY BaselineTypes DEF RoutingInv, ClientInv, BaselineTrue
    <2> QED  BY <2>1 DEF RoutingInv, RepositoryInv, ClientInv, TaskTrue, TypeOK
  <1> QED  BY <1>1, RoutingInvAlways, PTL

(* An activation stays what was activated (activate, and the immutability  *)
(* of what is stored).                                                     *)
THEOREM ActivationsStayTrueAlways == Spec => []ActivationsStayTrue
  <1>1. RoutingInv => ActivationsStayTrue
    BY DEF RoutingInv, RepositoryInv
  <1> QED  BY <1>1, RoutingInvAlways, PTL

(* Whoever a client contacts satisfies every rule of every revision of the *)
(* policy, the client's own policy and the request's.                      *)
THEOREM ContactsObeyEverySourceAlways == Spec => []ContactsObeyEverySource
  <1>1. ASSUME RoutingInv, NEW c \in DOMAIN task, NEW k \in task[c].contacted
        PROVE  LET p == client[c].projection IN
               /\ \A r \in DOMAIN p.digests : \A rule \in p.digests[r].rules : Satisfies(k, rule)
               /\ Admits(client[c].config, k) /\ Admits(task[c].request, k)
               /\ k \in p.evidence.eligible /\ p.evidence.unresolved = 0
    <2> DEFINE m == client[c]
               p == m.projection
               rules == UNION {p.digests[r].rules : r \in DOMAIN p.digests}
    <2>1. BaselineTrue(m) /\ TaskTrue(m, task[c])
      BY <1>1 DEF RoutingInv, ClientInv
    <2>2. m.policy \in RoutingPolicies /\ m.config \in RoutingPolicies /\ p.policy \in RoutingPolicies
      BY <2>1, BaselineTypes
    <2>3. task[c].request \in RoutingPolicies /\ k \in Candidates
      BY <1>1, <2>1, RoutingAssumption DEF TaskTrue
    <2>4. Admits(m.policy, k) /\ Admits(task[c].request, k) /\ ~m.deny
      BY <1>1, <2>1, <2>2, <2>3, IntersectionNarrows DEF TaskTrue
    <2>5. Admits(m.config, k) /\ Admits(p.policy, k) /\ ~p.deny
      BY <2>1, <2>2, <2>3, <2>4, IntersectionNarrows DEF BaselineTrue
    <2>6. Meaningful(rules) /\ p.policy = RoutingPolicy(rules) /\ ~DenyAll(rules, p.evidence)
          /\ p.evidence.unresolved = 0
      BY <2>1, <2>5 DEF BaselineTrue, ProjectionTrue
    <2>7. \A rule \in rules : Satisfies(k, rule)
      BY <2>3, <2>5, <2>6, RulesAreObeyed
    <2> QED  BY <1>1, <2>1, <2>4, <2>5, <2>6, <2>7 DEF TaskTrue
  <1>2. RoutingInv => ContactsObeyEverySource
    BY <1>1 DEF ContactsObeyEverySource
  <1> QED  BY <1>2, RoutingInvAlways, PTL

(* What is sent was let through under the generation that is active, in    *)
(* time for everything it rests on (COMPATIBILITY.md:28 to 33).            *)
THEOREM SendsUnderTheActivePolicyAlways == Spec => []SendsUnderTheActivePolicy
  <1>1. ASSUME RoutingInv, NEW c \in Clients, Sending(c)
        PROVE  LET p == client[c].projection  at == task[c].at IN
               /\ activations[p.binding].target = p.generation
               /\ Contains(bindings[p.binding], at) /\ Contains(activations[p.binding], at)
               /\ \A r \in Sources(bindings[p.binding]) :
                    p.digests[r] = revisions[r] /\ Usable(revisions[r]) /\ Contains(revisions[r], at)
               /\ Contains(p.evidence, at)
    <2> DEFINE p == client[c].projection
               at == task[c].at
               b == p.binding
    <2>1. c \in DOMAIN task /\ c \in DOMAIN client /\ ProjectionTrue(p) /\ at \in Nat
      BY <1>1, RepositoryAssumption DEF Sending, RoutingInv, ClientInv, BaselineTrue, TaskTrue
    <2>2. p.from \in Nat /\ p.until \in Nat /\ p.evidence.from \in Nat /\ p.evidence.until \in Nat
      BY <2>1 DEF ProjectionTrue
    <2>3. Verified(p, at)
      BY <1>1, <2>1 DEF RoutingInv, SendingInv
    <2>4. /\ p.from <= at /\ at < p.until /\ Projectable(b, p.evidence, p.from, p.until)
          /\ p = Projection(b, p.evidence, p.from, p.until)
      BY <2>3 DEF Verified
    <2>5. p.generation = activations[b].target /\ p.digests = activations[b].digests
      BY <2>4 DEF Projection
    <2>6. /\ b \in DOMAIN activations /\ b \in DOMAIN bindings /\ bindings[b] = activations[b].bound
          /\ Covers(bindings[b], p.from, p.until) /\ Covers(activations[b], p.from, p.until)
          /\ \A r \in Sources(bindings[b]) : Usable(revisions[r]) /\ Covers(revisions[r], p.from, p.until)
          /\ p.evidence.from <= p.from /\ p.until <= p.evidence.until
      BY <2>4 DEF Projectable, Evidenced
    <2>7. \A window : /\ window.from \in Nat /\ window.until \in Nat
                      /\ window.from <= p.from /\ p.until <= window.until
                      => Contains(window, at)
      BY <2>1, <2>2, <2>4 DEF Contains
    <2>8. /\ bindings[b].from \in Nat /\ bindings[b].until \in Nat
          /\ activations[b].from \in Nat /\ activations[b].until \in Nat
          /\ \A r \in Sources(bindings[b]) :
               /\ activations[b].digests[r] = revisions[r]
               /\ revisions[r].from \in Nat /\ revisions[r].until \in Nat
      <3>1. RepositoryInv /\ b \in DOMAIN activations
        BY <1>1, <2>6 DEF RoutingInv
      <3> HIDE DEF b
      <3> QED  BY <3>1, ActivationsAreOfSources
    <2>9. Contains(bindings[b], at) /\ Contains(activations[b], at)
      BY <2>6, <2>7, <2>8 DEF Covers
    <2>10. \A r \in Sources(bindings[b]) : p.digests[r] = revisions[r]
      BY <2>5, <2>8
    <2>11. \A r \in Sources(bindings[b]) : Contains(revisions[r], at)
      BY <2>6, <2>7, <2>8 DEF Covers
    <2>12. Contains(p.evidence, at)
      BY <2>2, <2>6, <2>7
    <2> QED  BY <2>5, <2>6, <2>9, <2>10, <2>11, <2>12
  <1>2. RoutingInv => SendsUnderTheActivePolicy
    BY <1>1 DEF SendsUnderTheActivePolicy
  <1> QED  BY <1>2, RoutingInvAlways, PTL
=============================================================================
