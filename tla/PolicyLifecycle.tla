--------------------------- MODULE PolicyLifecycle ---------------------------
(***************************************************************************)
(* The in-memory repository of policies (src/src/policy_lifecycle.rs):     *)
(* revisions, sets of revisions and the bindings of applications to both   *)
(* are stored once under their identity and never change; an activation    *)
(* names a binding, the digests of everything it binds and the generation  *)
(* it was prepared for.                                                    *)
(*                                                                         *)
(* A digest is the content it is of.  The order and the rank of a source   *)
(* decide where it is listed, never what is decided or projected, and are  *)
(* left out: the references of a binding and the members of a set are      *)
(* sets.  An operation that is refused changes nothing and is no step.     *)
(***************************************************************************)
EXTENDS Naturals, FiniteSets

CONSTANTS
  RevisionIds, Policies,     \* a revision's identity and its possible contents
  SetIds, Memberships,       \* a set's identity and its members
  BindingIds, Bindings,      \* a binding's identity and what it binds
  MaxClock, MaxPrepared,     \* bounds: the clock, activations prepared
  MaxGeneration,             \*   and activations made
  Lifetimes                  \* how long an activation is asked to be valid

ASSUME RepositoryAssumption ==
  /\ MaxClock \in Nat /\ MaxGeneration \in Nat /\ Lifetimes \subseteq Nat
  /\ \A window \in Bindings \cup UNION {Policies[r] : r \in RevisionIds} :
       window.from \in Nat /\ window.until \in Nat

VARIABLES
  clock,
  revisions, sets, bindings, \* what each identity holds
  activations,               \* of each binding, the newest
  generation,
  prepared                   \* activations made out but not presented yet

repositoryVars == <<revisions, sets, bindings, activations, generation, prepared>>

Forever == MaxClock + 10     \* a window without an end

(* The maps of the repository hold what was stored, and nothing else.      *)
Empty == [x \in {} |-> x]
Put(map, key, value) == [x \in DOMAIN map \cup {key} |-> IF x = key THEN value ELSE map[x]]
Remove(map, key) == [x \in DOMAIN map \ {key} |-> map[x]]

(* A revision is [rules, disposition, from, until], a binding is           *)
(* [policies, sets, from, until].                                          *)
Contains(window, at) == window.from <= at /\ at < window.until

(* Every revision a binding names, of its own or through a set             *)
(* (sources_for_binding, policy_digests_for_binding).                      *)
Sources(binding) == binding.policies \cup UNION {sets[s] : s \in binding.sets}
Digests(binding) == [r \in Sources(binding) |-> revisions[r]]

Usable(revision) == revision.disposition \notin {"invalid", "archived"}
Activatable(binding, at) ==
  \A r \in Sources(binding) : Usable(revisions[r]) /\ Contains(revisions[r], at)

---------------------------------------------------------------------------
(* store_revision: an identity keeps its first content.                    *)
StoreRevision(r, content) ==
  /\ r \notin DOMAIN revisions
  /\ revisions' = Put(revisions, r, content)
  /\ UNCHANGED <<clock, sets, bindings, activations, generation, prepared>>

(* store_set: of members that are stored.                                  *)
StoreSet(s, members) ==
  /\ s \notin DOMAIN sets
  /\ members \subseteq DOMAIN revisions
  /\ sets' = Put(sets, s, members)
  /\ UNCHANGED <<clock, revisions, bindings, activations, generation, prepared>>

(* Broken variant: what a binding names may be stored later.               *)
StoreBindingEarly(b, content) ==
  /\ b \notin DOMAIN bindings
  /\ bindings' = Put(bindings, b, content)
  /\ UNCHANGED <<clock, revisions, sets, activations, generation, prepared>>

(* store_binding: of revisions and sets that are stored.                   *)
StoreBinding(b, content) ==
  /\ b \notin DOMAIN bindings
  /\ content.policies \subseteq DOMAIN revisions
  /\ content.sets \subseteq DOMAIN sets
  /\ bindings' = Put(bindings, b, content)
  /\ UNCHANGED <<clock, revisions, sets, activations, generation, prepared>>

(* activation_for_binding: made out against the repository as it is.       *)
Prepare(b, life) ==
  /\ b \in DOMAIN bindings
  /\ Activatable(bindings[b], clock)
  /\ Cardinality(prepared) < MaxPrepared /\ generation < MaxGeneration
  /\ prepared' = prepared \cup
       {[binding |-> b, expected |-> generation, target |-> generation + 1,
         bound |-> bindings[b], digests |-> Digests(bindings[b]),
         from |-> clock, until |-> IF life = Forever THEN Forever ELSE clock + life]}
  /\ UNCHANGED <<clock, revisions, sets, bindings, activations, generation>>

(* Broken variant: the generation an activation was made out for does not  *)
(* count.                                                                  *)
ActivateStale(a) ==
  /\ a.from < a.until
  /\ bindings[a.binding] = a.bound /\ Contains(a.bound, a.from)
  /\ Activatable(a.bound, a.from) /\ Digests(a.bound) = a.digests
  /\ generation' = a.target
  /\ activations' = Put(activations, a.binding, a)
  /\ prepared' = prepared \ {a}
  /\ UNCHANGED <<clock, revisions, sets, bindings>>

(* activate: for the next generation, of the binding and the revisions as  *)
(* they are, inside their windows at the time it was made out.             *)
Activate(a) ==
  /\ a.expected = generation /\ a.target = generation + 1 /\ a.from < a.until
  /\ bindings[a.binding] = a.bound /\ Contains(a.bound, a.from)
  /\ Activatable(a.bound, a.from) /\ Digests(a.bound) = a.digests
  /\ generation' = a.target
  /\ activations' = Put(activations, a.binding, a)
  /\ prepared' = prepared \ {a}
  /\ UNCHANGED <<clock, revisions, sets, bindings>>

RepositoryInit ==
  /\ clock = 0 /\ generation = 0 /\ prepared = {}
  /\ revisions = Empty /\ sets = Empty /\ bindings = Empty /\ activations = Empty

Administer ==
  \/ \E r \in RevisionIds : \E content \in Policies[r] : StoreRevision(r, content)
  \/ \E s \in SetIds, members \in Memberships : StoreSet(s, members)
  \/ \E b \in BindingIds, content \in Bindings : StoreBinding(b, content)
  \/ \E b \in BindingIds, life \in Lifetimes : Prepare(b, life)
  \/ \E a \in prepared : Activate(a)

Tick ==
  /\ clock < MaxClock /\ clock' = clock + 1
  /\ UNCHANGED repositoryVars

---------------------------------------------------------------------------
RepositoryTypeOK ==
  /\ clock \in 0 .. MaxClock /\ generation \in 0 .. MaxGeneration
  /\ DOMAIN revisions \subseteq RevisionIds /\ \A r \in DOMAIN revisions : revisions[r] \in Policies[r]
  /\ DOMAIN sets \subseteq SetIds /\ \A s \in DOMAIN sets : sets[s] \in Memberships
  /\ DOMAIN bindings \subseteq BindingIds /\ \A b \in DOMAIN bindings : bindings[b] \in Bindings
  /\ DOMAIN activations \subseteq DOMAIN bindings

(* Nothing that is named is missing: every member of a set and everything  *)
(* a binding names is stored, in whatever order things were stored.        *)
ReferencesAreClosed ==
  /\ \A s \in DOMAIN sets : sets[s] \subseteq DOMAIN revisions
  /\ \A b \in DOMAIN bindings :
       bindings[b].policies \subseteq DOMAIN revisions /\ bindings[b].sets \subseteq DOMAIN sets

(* An activation stays what was activated: the binding and every revision  *)
(* it names still have the content its digests are of, no two bindings are *)
(* active under one generation, and each was made out for the generation   *)
(* before its own.                                                         *)
ActivationsStayTrue ==
  \A b \in DOMAIN activations :
    LET a == activations[b] IN
    /\ a.binding = b /\ a.bound = bindings[b]
    /\ DOMAIN a.digests = Sources(a.bound)
    /\ \A r \in DOMAIN a.digests : a.digests[r] = revisions[r]
    /\ a.target = a.expected + 1 /\ a.target <= generation
    /\ \A c \in DOMAIN activations \ {b} : activations[c].target # a.target
=============================================================================
