----------------------------- MODULE Controller -----------------------------
(***************************************************************************)
(* The domain-local controller (src/src/controller.rs and the dispatch of  *)
(* bin/iicp-management-controller.rs): server processes that decide signed *)
(* requests on one SQLite database.                                        *)
(*                                                                         *)
(* A server handles one request at a time.  It checks the request, opens   *)
(* an immediate transaction, which takes the database's write lock, reads  *)
(* nonces and generation under it, writes the acceptance, commits, and     *)
(* trims the decision log in a statement of its own.  A rejection is       *)
(* logged by three further statements.  Any statement may fail, a server   *)
(* may stop between any two of them, and several servers may have the      *)
(* database open (the code sets WAL and a busy timeout for that).          *)
(***************************************************************************)
EXTENDS Integers, FiniteSets

CONSTANTS
  Servers,      \* processes with the database open
  RequestIds,   \* request identifiers
  Nonces,       \* single-use values
  Bindings,     \* digests of an operation and its authority context
  Requests,     \* the signed requests clients submit
  Keep,         \* max_decision_events
  MaxAttempts,  \* bound on submissions
  MaxFaults     \* bound on failing statements and stopped servers together

(* A plan or another request is decided by `evaluate`, which logs a        *)
(* rejection; an apply or recovery gate carries the binding that an        *)
(* acceptance stores, and its rejection is not logged.                     *)
Kinds == {"plan", "legacy", "apply", "recovery"}
Gates == {"apply", "recovery"}
Request ==
  [id: RequestIds, nonce: Nonces, expected: Nat, kind: Kinds, binding: Bindings]

ASSUME RequestsAssumption == Requests \subseteq Request /\ Requests # {}
ASSUME BoundsAssumption ==
  /\ Keep \in Nat /\ MaxAttempts \in Nat /\ MaxFaults \in Nat
  /\ IsFiniteSet(Servers) /\ "none" \notin Servers

VARIABLES
  generation,      \* state
  nonces,          \* the rows of nonces
  decisions,       \* the rows of decisions
  authorizations,  \* the rows of apply_authorizations
  log,             \* the rows of decision_events
  sequence,        \* the last event id given out (AUTOINCREMENT)
  lock,            \* the server whose transaction holds the write lock
  server,          \* what each server is doing
  answered,        \* history variable: the last answer to each request
  lapsed,          \* requests that fail the checks made before the database
  attempts, faults

tables == <<generation, nonces, decisions, authorizations, log, sequence>>
vars == <<tables, lock, server, answered, lapsed, attempts, faults>>

Reasons ==
  {"AUTHORIZED", "REQUEST_DENIED", "REQUEST_REPLAY", "REQUEST_GENERATION_CONFLICT",
   "STORAGE_ERROR"}
Answer ==
  [decision: {"none", "accepted", "rejected", "deferred"}, reason: Reasons \cup {"none"},
   generation: Nat]
NoAnswer == [decision |-> "none", reason |-> "none", generation |-> 0]

Stations ==
  {"idle", "opening", "checking", "committing", "pruning", "rejecting", "logging", "trimming"}
AnyRequest == CHOOSE r \in Requests : TRUE
Server == [at: Stations, request: Requests, reason: Reasons \cup {"none"}, generation: Nat]
NoServer == [at |-> "idle", request |-> AnyRequest, reason |-> "none", generation |-> 0]

Nonce == [nonce: Nonces, id: RequestIds]
Decision == [id: RequestIds, generation: Nat]
Authorization == [id: RequestIds, binding: Bindings, generation: Nat]
Event == [seq: Nat, id: RequestIds, accepted: BOOLEAN, generation: Nat]

---------------------------------------------------------------------------
Fault == faults < MaxFaults /\ faults' = faults + 1
Free == lock = "none"
Unlocked(p) == IF lock = p THEN "none" ELSE lock

(* What a client is told: process() turns a storage error into "deferred"  *)
(* for a plan or an apply, and into "rejected" otherwise.                  *)
Outcome(r, reason) ==
  CASE reason = "AUTHORIZED" -> "accepted"
    [] reason = "STORAGE_ERROR" /\ r.kind \in {"plan", "apply"} -> "deferred"
    [] OTHER -> "rejected"

Answers(p, r, reason, accepted) ==
  /\ answered' = [answered EXCEPT ![r] =
       [decision |-> Outcome(r, reason), reason |-> reason, generation |-> accepted]]
  /\ server' = [server EXCEPT ![p] = NoServer]

(* evaluate_authorized returns an error: `evaluate` logs it, a gate's      *)
(* caller answers it.                                                      *)
Errs(p, r, reason) ==
  IF r.kind \in Gates
  THEN Answers(p, r, reason, 0)
  ELSE /\ server' = [server EXCEPT ![p] =
            [at |-> "rejecting", request |-> r, reason |-> reason, generation |-> 0]]
       /\ UNCHANGED answered

Moves(p, station, g) ==
  server' = [server EXCEPT ![p].at = station, ![p].generation = g]

(* prune_decision_events keeps the max(1, max_decision_events) newest.     *)
Kept == IF Keep > 1 THEN Keep ELSE 1

(* Broken variant: the order of the events is reversed.                    *)
OldestKept(events) ==
  {e \in events : Cardinality({f \in events : f.seq < e.seq}) < Kept}
Newest(events) ==
  {e \in events : Cardinality({f \in events : f.seq > e.seq}) < Kept}

---------------------------------------------------------------------------
(* A server takes a request.  The checks before the database (schema and   *)
(* bounds, audience and domain, validity window, allowed action, age of    *)
(* the revocation checkpoint, signatures) depend on the request and the    *)
(* time only.                                                              *)
Receive(p, r) ==
  /\ server[p].at = "idle" /\ attempts < MaxAttempts
  /\ attempts' = attempts + 1
  /\ IF r \in lapsed
     THEN Errs(p, r, "REQUEST_DENIED")
     ELSE /\ server' = [server EXCEPT ![p] =
               [at |-> "opening", request |-> r, reason |-> "none", generation |-> 0]]
          /\ UNCHANGED answered
  /\ UNCHANGED <<tables, lock, lapsed, faults>>

(* Broken variant: a deferred transaction takes no lock to read.           *)
BeginDeferred(p) ==
  /\ server[p].at = "opening" /\ Free
  /\ Moves(p, "checking", 0)
  /\ UNCHANGED <<tables, lock, answered, lapsed, attempts, faults>>

(* transaction_with_behavior(Immediate).                                   *)
Begin(p) ==
  /\ server[p].at = "opening" /\ Free
  /\ lock' = p
  /\ Moves(p, "checking", 0)
  /\ UNCHANGED <<tables, answered, lapsed, attempts, faults>>

NonceUsed(r) == \E n \in nonces : n.nonce = r.nonce
Decided(id) == \E d \in decisions : d.id = id

(* Broken variant: a nonce may be used again.                              *)
RefusalIgnoresNonce(r) ==
  CASE r.expected # generation -> "REQUEST_GENERATION_CONFLICT"
    [] r.expected = generation /\ Decided(r.id) -> "STORAGE_ERROR"
    [] OTHER -> "none"

(* The reads, and the constraint the writes meet: a nonce already          *)
(* consumed, another generation than expected, an identifier already       *)
(* decided (decisions' primary key), which is reported as a storage error. *)
(* An early return rolls back.                                             *)
Refusal(r) ==
  CASE NonceUsed(r) -> "REQUEST_REPLAY"
    [] ~NonceUsed(r) /\ r.expected # generation -> "REQUEST_GENERATION_CONFLICT"
    [] ~NonceUsed(r) /\ r.expected = generation /\ Decided(r.id) -> "STORAGE_ERROR"
    [] OTHER -> "none"

(* Broken variant: an early return leaves the transaction open.            *)
CheckKeepsLock(p) ==
  LET r == server[p].request IN
  /\ server[p].at = "checking"
  /\ IF Refusal(r) = "none"
     THEN Moves(p, "committing", generation + 1) /\ UNCHANGED answered
     ELSE Errs(p, r, Refusal(r))
  /\ UNCHANGED <<tables, lock, lapsed, attempts, faults>>
Check(p) ==
  LET r == server[p].request IN
  /\ server[p].at = "checking"
  /\ IF Refusal(r) = "none"
     THEN Moves(p, "committing", generation + 1) /\ UNCHANGED <<lock, answered>>
     ELSE Errs(p, r, Refusal(r)) /\ lock' = Unlocked(p)
  /\ UNCHANGED <<tables, lapsed, attempts, faults>>

(* Broken variant: the authorization is stored for every request.          *)
CommitBindsEverything(p) ==
  LET r == server[p].request
      g == server[p].generation IN
  /\ server[p].at = "committing"
  /\ generation' = g
  /\ nonces' = nonces \cup {[nonce |-> r.nonce, id |-> r.id]}
  /\ decisions' = decisions \cup {[id |-> r.id, generation |-> g]}
  /\ authorizations' = authorizations \cup
       {[id |-> r.id, binding |-> r.binding, generation |-> g]}
  /\ sequence' = sequence + 1
  /\ log' = log \cup {[seq |-> sequence + 1, id |-> r.id, accepted |-> TRUE, generation |-> g]}
  /\ lock' = Unlocked(p)
  /\ Moves(p, "pruning", g)
  /\ UNCHANGED <<answered, lapsed, attempts, faults>>

(* The writes become visible together.                                     *)
Commit(p) ==
  LET r == server[p].request
      g == server[p].generation IN
  /\ server[p].at = "committing"
  /\ generation' = g
  /\ nonces' = nonces \cup {[nonce |-> r.nonce, id |-> r.id]}
  /\ decisions' = decisions \cup {[id |-> r.id, generation |-> g]}
  /\ authorizations' = authorizations \cup
       {[id |-> r.id, binding |-> r.binding, generation |-> g] : kind \in {r.kind} \cap Gates}
  /\ sequence' = sequence + 1
  /\ log' = log \cup {[seq |-> sequence + 1, id |-> r.id, accepted |-> TRUE, generation |-> g]}
  /\ lock' = Unlocked(p)
  /\ Moves(p, "pruning", g)
  /\ UNCHANGED <<answered, lapsed, attempts, faults>>

Prune(p) ==
  /\ server[p].at = "pruning" /\ Free
  /\ log' = Newest(log)
  /\ Answers(p, server[p].request, "AUTHORIZED", server[p].generation)
  /\ UNCHANGED <<generation, nonces, decisions, authorizations, sequence>>
  /\ UNCHANGED <<lock, lapsed, attempts, faults>>

---------------------------------------------------------------------------
(* record_rejection: read the generation, append the event, trim the log,  *)
(* each in a transaction of its own.                                       *)
ReadGeneration(p) ==
  /\ server[p].at = "rejecting"
  /\ Moves(p, "logging", generation)
  /\ UNCHANGED <<tables, lock, answered, lapsed, attempts, faults>>

LogRejection(p) ==
  /\ server[p].at = "logging" /\ Free
  /\ sequence' = sequence + 1
  /\ log' = log \cup {[seq |-> sequence + 1, id |-> server[p].request.id, accepted |-> FALSE,
                       generation |-> server[p].generation]}
  /\ Moves(p, "trimming", server[p].generation)
  /\ UNCHANGED <<generation, nonces, decisions, authorizations>>
  /\ UNCHANGED <<lock, answered, lapsed, attempts, faults>>

Trim(p) ==
  /\ server[p].at = "trimming" /\ Free
  /\ log' = Newest(log)
  /\ Answers(p, server[p].request, server[p].reason, 0)
  /\ UNCHANGED <<generation, nonces, decisions, authorizations, sequence>>
  /\ UNCHANGED <<lock, lapsed, attempts, faults>>

---------------------------------------------------------------------------
(* Broken variant: the error of the commit is dropped.                     *)
FailsUnnoticed(p) ==
  LET r == server[p].request IN
  /\ Fault
  /\ \/ /\ server[p].at \in {"opening", "checking", "pruning"}
        /\ Errs(p, r, "STORAGE_ERROR")
     \/ /\ server[p].at = "committing"
        /\ Moves(p, "pruning", server[p].generation) /\ UNCHANGED answered
     \/ /\ server[p].at \in {"rejecting", "logging", "trimming"}
        /\ Answers(p, r, "STORAGE_ERROR", 0)
  /\ lock' = Unlocked(p)
  /\ UNCHANGED <<tables, lapsed, attempts>>

(* A statement fails, or waits for the write lock until the busy timeout   *)
(* ends: an open transaction is rolled back.  When trimming after a commit *)
(* fails, the acceptance stays and the caller gets the error.              *)
Fails(p) ==
  LET r == server[p].request IN
  /\ Fault
  /\ \/ /\ server[p].at \in {"opening", "checking", "committing", "pruning"}
        /\ Errs(p, r, "STORAGE_ERROR")
     \/ /\ server[p].at \in {"rejecting", "logging", "trimming"}
        /\ Answers(p, r, "STORAGE_ERROR", 0)
  /\ lock' = Unlocked(p)
  /\ UNCHANGED <<tables, lapsed, attempts>>

(* A server stops, and another takes its place: a server remembers nothing *)
(* between two requests.                                                   *)
Stop(p) ==
  /\ server[p].at # "idle" /\ Fault
  /\ server' = [server EXCEPT ![p] = NoServer]
  /\ lock' = Unlocked(p)
  /\ UNCHANGED <<tables, answered, lapsed, attempts>>

(* A validity window begins or ends, the revocation checkpoint grows too   *)
(* old, or the servers are given a newer one.                              *)
Lapse(r) ==
  /\ lapsed' \in {lapsed \cup {r}, lapsed \ {r}}
  /\ UNCHANGED <<tables, lock, server, answered, attempts, faults>>

---------------------------------------------------------------------------
Init ==
  /\ generation = 0 /\ nonces = {} /\ decisions = {} /\ authorizations = {}
  /\ log = {} /\ sequence = 0
  /\ lock = "none"
  /\ server = [p \in Servers |-> NoServer]
  /\ answered = [r \in Requests |-> NoAnswer]
  /\ lapsed = {} /\ attempts = 0 /\ faults = 0

Serve(p) ==
  \/ \E r \in Requests : Receive(p, r)
  \/ Begin(p) \/ Check(p) \/ Commit(p) \/ Prune(p)
  \/ ReadGeneration(p) \/ LogRejection(p) \/ Trim(p)

Next ==
  \/ \E p \in Servers : Serve(p) \/ Fails(p) \/ Stop(p)
  \/ \E r \in Requests : Lapse(r)

Spec == Init /\ [][Next]_vars

---------------------------------------------------------------------------
(* Types; the write lock is held exactly by the server in a transaction.   *)
InTransaction(p) == server[p].at \in {"checking", "committing"}
TypeOK ==
  /\ generation \in Nat /\ sequence \in Nat
  /\ nonces \subseteq Nonce
  /\ decisions \subseteq Decision
  /\ authorizations \subseteq Authorization
  /\ log \subseteq Event
  /\ server \in [Servers -> Server]
  /\ lock \in Servers \cup {"none"}
  /\ \A p \in Servers : lock = p <=> InTransaction(p)
  /\ answered \in [Requests -> Answer]
  /\ lapsed \subseteq Requests
  /\ attempts \in 0..MaxAttempts /\ faults \in 0..MaxFaults

(* Acceptances happen one at a time whatever servers share the database:   *)
(* each generation up to the current one was given to one decision, and    *)
(* each decision consumed one nonce (evaluate_authorized's transaction).   *)
AcceptancesAreSerial ==
  /\ {d.generation : d \in decisions} = 1..generation
  /\ \A d, e \in decisions : d.id = e.id \/ d.generation = e.generation => d = e
  /\ \A m, n \in nonces : m.id = n.id \/ m.nonce = n.nonce => m = n
  /\ {n.id : n \in nonces} = {d.id : d \in decisions}

(* The rows that an acceptance of r writes.                                *)
Recorded(r) ==
  /\ [id |-> r.id, generation |-> r.expected + 1] \in decisions
  /\ [nonce |-> r.nonce, id |-> r.id] \in nonces
  /\ r.kind \in Gates =>
       [id |-> r.id, binding |-> r.binding, generation |-> r.expected + 1] \in authorizations

(* A client that is told "accepted" is told the generation it was accepted *)
(* under, and the nonce and the operation's binding are stored with it.    *)
AnswersAreTrue ==
  \A r \in Requests : answered[r].decision = "accepted" =>
    answered[r].generation = r.expected + 1 /\ Recorded(r)

(* What an execution resumes (apply_authorizations) is the binding of a    *)
(* gate that was itself accepted, and there is one for an identifier.      *)
AuthorizationIsDecided ==
  /\ \A a \in authorizations : \E r \in Requests :
       /\ r.kind \in Gates /\ r.id = a.id /\ r.binding = a.binding
       /\ a.generation = r.expected + 1
       /\ [id |-> r.id, generation |-> a.generation] \in decisions
       /\ [nonce |-> r.nonce, id |-> r.id] \in nonces
  /\ \A a, b \in authorizations : a.id = b.id => a = b

(* The decision log is the newest part of all events, without a gap, and   *)
(* exceeds its bound only by events whose trimming is still to come.       *)
LogKeepsTheNewest ==
  LET size == Cardinality(log) IN
  /\ {e.seq : e \in log} = (sequence - size + 1)..sequence
  /\ size = sequence \/ size >= Kept
  /\ size <= Kept + faults
             + Cardinality({p \in Servers : server[p].at \in {"pruning", "trimming"}})

(* Acceptances are logged in the order of their generations, and each one  *)
(* logged is a stored decision.                                            *)
LogFollowsGenerations ==
  \A e \in log : e.accepted =>
    /\ [id |-> e.id, generation |-> e.generation] \in decisions
    /\ \A f \in log : f.accepted /\ e.seq < f.seq => e.generation < f.generation

---------------------------------------------------------------------------
(* Why these hold.  What a server read under the write lock stays true     *)
(* until it commits; what it wrote stays written; a rejected request is    *)
(* never answered as an accepted one.                                      *)
ServersKnow ==
  \A p \in Servers :
    LET r == server[p].request IN
    /\ server[p].at = "committing" =>
         /\ ~NonceUsed(r) /\ ~Decided(r.id)
         /\ r.expected = generation /\ server[p].generation = generation + 1
    /\ server[p].at = "pruning" =>
         Recorded(r) /\ server[p].generation = r.expected + 1
    /\ server[p].at \in {"rejecting", "logging", "trimming"} =>
         server[p].reason # "AUTHORIZED"

EventsAreNumbered == \A e \in log : e.seq <= sequence

ControllerInv ==
  /\ TypeOK /\ ServersKnow
  /\ AcceptancesAreSerial /\ AuthorizationIsDecided /\ AnswersAreTrue
  /\ EventsAreNumbered /\ LogFollowsGenerations

---------------------------------------------------------------------------
(* The database is the serial register of acceptances.                     *)
acceptances ==
  {[id |-> x[1].id, nonce |-> x[2].nonce, generation |-> x[1].generation] :
     x \in {y \in decisions \X nonces : y[1].id = y[2].id}}
Register == INSTANCE DecisionRegister WITH count <- generation, accepted <- acceptances

(* Controller implements DecisionRegister.                                 *)
DecidesSerially == Register!RegisterSpec
=============================================================================
