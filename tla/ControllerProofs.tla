-------------------------- MODULE ControllerProofs --------------------------
(***************************************************************************)
(* The controller's acceptances are serial and its answers true for every  *)
(* set of servers and requests, any log bound and any number of faults.    *)
(***************************************************************************)
EXTENDS Controller, FiniteSetTheorems, TLAPS

(* A serving step of p, or a fault or stop of p.                           *)
Step(p) == Serve(p) \/ Fails(p) \/ Stop(p)

LEMMA RequestFields ==
  /\ AnyRequest \in Requests
  /\ \A r \in Requests : /\ r.id \in RequestIds /\ r.nonce \in Nonces /\ r.expected \in Nat
                         /\ r.kind \in Kinds /\ r.binding \in Bindings
  BY RequestsAssumption DEF AnyRequest, Request

LEMMA ServerTypes ==
  /\ NoServer \in Server /\ NoServer.at = "idle"
  /\ \A station \in Stations, r \in Requests, reason \in Reasons \cup {"none"}, g \in Nat :
       [at |-> station, request |-> r, reason |-> reason, generation |-> g] \in Server
  BY RequestFields DEF NoServer, Server, Stations

LEMMA AnswerTypes ==
  /\ NoAnswer \in Answer
  /\ \A r \in Requests, reason \in Reasons \cup {"none"}, g \in Nat :
       [decision |-> Outcome(r, reason), reason |-> reason, generation |-> g] \in Answer
  /\ \A r, reason : Outcome(r, reason) = "accepted" => reason = "AUTHORIZED"
  BY DEF NoAnswer, Answer, Outcome, Reasons

LEMMA RefusalTypes ==
  \A r : /\ Refusal(r) \in (Reasons \ {"AUTHORIZED"}) \cup {"none"}
         /\ Refusal(r) = "none" <=>
              ~NonceUsed(r) /\ r.expected = generation /\ ~Decided(r.id)
  BY DEF Refusal, Reasons

---------------------------------------------------------------------------
(* What Answers, Errs and Moves do to the server that takes the step and   *)
(* to the answers.                                                         *)
LEMMA AnswersTypes ==
  ASSUME TypeOK, NEW p \in Servers, NEW r \in Requests, NEW reason \in Reasons, NEW g \in Nat,
         Answers(p, r, reason, g)
  PROVE  /\ server' \in [Servers -> Server] /\ answered' \in [Requests -> Answer]
         /\ server' = [server EXCEPT ![p] = NoServer]
         /\ server'[p].at = "idle"
  BY ServerTypes, AnswerTypes DEF TypeOK, Answers

LEMMA ErrsTypes ==
  ASSUME TypeOK, NEW p \in Servers, NEW r \in Requests, NEW reason \in Reasons,
         Errs(p, r, reason)
  PROVE  /\ server' \in [Servers -> Server] /\ answered' \in [Requests -> Answer]
         /\ server' = [server EXCEPT ![p] = server'[p]]
         /\ server'[p].at \in {"idle", "rejecting"}
         /\ server'[p].at = "rejecting" => server'[p].reason = reason
  <1>1. CASE r.kind \in Gates
    BY <1>1, AnswersTypes DEF TypeOK, Errs
  <1>2. CASE r.kind \notin Gates
    <2>1. [at |-> "rejecting", request |-> r, reason |-> reason, generation |-> 0] \in Server
      BY ServerTypes DEF Stations
    <2> QED  BY <1>2, <2>1 DEF TypeOK, Errs
  <1> QED  BY <1>1, <1>2

LEMMA MovesTypes ==
  ASSUME TypeOK, NEW p \in Servers, NEW station \in Stations, NEW g \in Nat,
         Moves(p, station, g)
  PROVE  /\ server' \in [Servers -> Server]
         /\ server' = [server EXCEPT ![p] = server'[p]]
         /\ server'[p] = [server[p] EXCEPT !.at = station, !.generation = g]
         /\ server'[p].at = station /\ server'[p].generation = g
         /\ server'[p].request = server[p].request /\ server'[p].reason = server[p].reason
  BY DEF TypeOK, Moves, Server

LEMMA ServerFields ==
  ASSUME TypeOK, NEW p \in Servers
  PROVE  /\ server[p].at \in Stations /\ server[p].request \in Requests
         /\ server[p].reason \in Reasons \cup {"none"} /\ server[p].generation \in Nat
         /\ "none" # p
  BY BoundsAssumption DEF TypeOK, Server

---------------------------------------------------------------------------
(* Types and the write lock.                                               *)
LockHeld(p) == lock = p <=> InTransaction(p)

LEMMA OthersLock ==
  ASSUME TypeOK, NEW p \in Servers, server' = [server EXCEPT ![p] = server'[p]],
         \/ lock' = lock
         \/ lock = "none" /\ lock' = p
         \/ lock' = Unlocked(p),
         LockHeld(p)'
  PROVE  \A q \in Servers : LockHeld(q)'
  <1> SUFFICES ASSUME NEW q \in Servers, q # p PROVE LockHeld(q)'
    OBVIOUS
  <1>1. server'[q] = server[q]
    BY DEF TypeOK
  <1>2. LockHeld(q) /\ LockHeld(p)
    BY DEF TypeOK, LockHeld
  <1>3. InTransaction(q)' <=> InTransaction(q)
    BY <1>1 DEF InTransaction
  <1>4. lock' = q <=> lock = q
    BY BoundsAssumption DEF Unlocked
  <1> QED  BY <1>2, <1>3, <1>4 DEF LockHeld

LEMMA ReceiveTypes ==
  ASSUME TypeOK, NEW p \in Servers, NEW r \in Requests, Receive(p, r)
  PROVE  TypeOK'
  <1>1. attempts' \in 0..MaxAttempts
    BY BoundsAssumption DEF Receive, TypeOK
  <1>2. /\ server' \in [Servers -> Server] /\ answered' \in [Requests -> Answer]
        /\ server' = [server EXCEPT ![p] = server'[p]] /\ ~InTransaction(p)'
    <2>1. CASE r \in lapsed
      BY <2>1, ErrsTypes DEF Receive, Reasons, InTransaction
    <2>2. CASE r \notin lapsed
      <3>1. [at |-> "opening", request |-> r, reason |-> "none", generation |-> 0] \in Server
        BY ServerTypes DEF Stations
      <3> QED  BY <2>2, <3>1 DEF Receive, TypeOK, InTransaction
    <2> QED  BY <2>1, <2>2
  <1>3. LockHeld(p)'
    BY <1>2, ServerFields DEF Receive, TypeOK, LockHeld, InTransaction
  <1>4. \A q \in Servers : LockHeld(q)'
    BY <1>2, <1>3, OthersLock DEF Receive
  <1> QED  BY <1>1, <1>2, <1>4 DEF Receive, TypeOK, LockHeld, tables

LEMMA TransactionTypes ==
  ASSUME TypeOK, NEW p \in Servers, Begin(p) \/ Check(p)
  PROVE  TypeOK'
  <1>1. server[p].request \in Requests /\ lock # "none" => lock \in Servers
    BY ServerFields DEF TypeOK
  <1>2. CASE Begin(p)
    <2>1. server' \in [Servers -> Server] /\ server' = [server EXCEPT ![p] = server'[p]]
          /\ server'[p].at = "checking"
      BY <1>2, MovesTypes DEF Begin, Stations
    <2>2. LockHeld(p)'
      BY <1>2, <2>1 DEF Begin, LockHeld, InTransaction
    <2>3. \A q \in Servers : LockHeld(q)'
      BY <1>2, <2>1, <2>2, OthersLock DEF Begin, Free
    <2> QED  BY <1>2, <2>1, <2>3 DEF Begin, TypeOK, LockHeld, tables
  <1>3. CASE Check(p)
    <2> DEFINE r == server[p].request
    <2>0. r \in Requests
      BY ServerFields
    <2>1. CASE Refusal(r) = "none"
      <3>1. server' \in [Servers -> Server] /\ server' = [server EXCEPT ![p] = server'[p]]
            /\ server'[p].at = "committing"
        <4>1. generation + 1 \in Nat
          BY DEF TypeOK
        <4> QED  BY <1>3, <2>1, <4>1, MovesTypes DEF Check, Stations
      <3>2. LockHeld(p)'
        BY <1>3, <2>1, <3>1 DEF Check, LockHeld, InTransaction, TypeOK
      <3>3. \A q \in Servers : LockHeld(q)'
        BY <1>3, <2>1, <3>1, <3>2, OthersLock DEF Check
      <3> QED  BY <1>3, <2>1, <3>1, <3>3 DEF Check, TypeOK, LockHeld, tables
    <2>2. CASE Refusal(r) # "none"
      <3>0. Refusal(r) \in Reasons
        BY <2>2, RefusalTypes
      <3>1. /\ server' \in [Servers -> Server] /\ answered' \in [Requests -> Answer]
            /\ server' = [server EXCEPT ![p] = server'[p]] /\ ~InTransaction(p)'
            /\ lock' = Unlocked(p)
        BY <1>3, <2>0, <2>2, <3>0, ErrsTypes DEF Check, InTransaction
      <3>2. LockHeld(p)'
        BY <3>1, BoundsAssumption DEF LockHeld, Unlocked
      <3>3. \A q \in Servers : LockHeld(q)'
        BY <3>1, <3>2, OthersLock
      <3>4. lock' \in Servers \cup {"none"}
        BY <3>1 DEF Unlocked, TypeOK
      <3> QED  BY <1>3, <3>1, <3>3, <3>4 DEF Check, TypeOK, LockHeld, tables
    <2> QED  BY <2>1, <2>2
  <1> QED  BY <1>2, <1>3

LEMMA CommitTypes ==
  ASSUME TypeOK, NEW p \in Servers, Commit(p)
  PROVE  TypeOK'
  <1> DEFINE r == server[p].request
             g == server[p].generation
  <1>1. r \in Requests /\ g \in Nat
    BY ServerFields
  <1>2. /\ [nonce |-> r.nonce, id |-> r.id] \in Nonce
        /\ [id |-> r.id, generation |-> g] \in Decision
        /\ [id |-> r.id, binding |-> r.binding, generation |-> g] \in Authorization
        /\ [seq |-> sequence + 1, id |-> r.id, accepted |-> TRUE, generation |-> g] \in Event
    BY <1>1, RequestFields DEF TypeOK, Nonce, Decision, Authorization, Event
  <1>3. /\ server' \in [Servers -> Server] /\ server' = [server EXCEPT ![p] = server'[p]]
        /\ ~InTransaction(p)'
    BY <1>1, MovesTypes DEF Commit, Stations, InTransaction
  <1>4. LockHeld(p)' /\ lock' \in Servers \cup {"none"}
    BY <1>3, BoundsAssumption DEF Commit, LockHeld, Unlocked, TypeOK
  <1>5. \A q \in Servers : LockHeld(q)'
    BY <1>3, <1>4, OthersLock DEF Commit
  <1>6. authorizations' \subseteq Authorization /\ nonces' \subseteq Nonce
    BY <1>2 DEF Commit, TypeOK
  <1>7. decisions' \subseteq Decision /\ log' \subseteq Event
    BY <1>2 DEF Commit, TypeOK
  <1>8. generation' \in Nat /\ sequence' \in Nat
    BY <1>1 DEF Commit, TypeOK
  <1> QED  BY <1>3, <1>4, <1>5, <1>6, <1>7, <1>8 DEF Commit, TypeOK, LockHeld

LEMMA LogTypes ==
  ASSUME TypeOK, NEW p \in Servers, Prune(p) \/ ReadGeneration(p) \/ LogRejection(p) \/ Trim(p)
  PROVE  TypeOK'
  <1>1. server[p].request \in Requests /\ server[p].generation \in Nat /\ Newest(log) \subseteq log
    BY ServerFields DEF Newest
  <1>2. server[p].reason \in Reasons \cup {"none"}
    BY ServerFields
  <1>3. /\ server' \in [Servers -> Server] /\ answered' \in [Requests -> Answer]
        /\ server' = [server EXCEPT ![p] = server'[p]] /\ ~InTransaction(p)' /\ ~InTransaction(p)
    <2>1. CASE Prune(p)
      BY <1>1, <2>1, AnswersTypes DEF Prune, Reasons, InTransaction
    <2>2. CASE ReadGeneration(p)
      BY <2>2, MovesTypes DEF ReadGeneration, Stations, InTransaction, TypeOK
    <2>3. CASE LogRejection(p)
      BY <1>1, <2>3, MovesTypes DEF LogRejection, Stations, InTransaction, TypeOK
    <2>4. CASE Trim(p)
      <3>1. [server EXCEPT ![p] = NoServer] \in [Servers -> Server]
        BY ServerTypes DEF TypeOK
      <3>2. answered' \in [Requests -> Answer]
        BY <1>1, <1>2, <2>4, AnswerTypes DEF Trim, Answers, TypeOK
      <3> QED  BY <2>4, <3>1, <3>2, ServerTypes DEF Trim, Answers, TypeOK, InTransaction
    <2> QED  BY <2>1, <2>2, <2>3, <2>4
  <1>4. lock' = lock /\ LockHeld(p)'
    BY <1>3 DEF Prune, ReadGeneration, LogRejection, Trim, LockHeld, TypeOK, tables
  <1>5. \A q \in Servers : LockHeld(q)'
    BY <1>3, <1>4, OthersLock
  <1>6. log' \subseteq Event /\ sequence' \in Nat
    <2>1. CASE LogRejection(p)
      <3>1. [seq |-> sequence + 1, id |-> server[p].request.id, accepted |-> FALSE,
             generation |-> server[p].generation] \in Event
        BY <1>1, RequestFields DEF Event, TypeOK
      <3>2. log' = log \cup {[seq |-> sequence + 1, id |-> server[p].request.id,
                              accepted |-> FALSE, generation |-> server[p].generation]}
        BY <2>1 DEF LogRejection
      <3>3. sequence' \in Nat
        BY <2>1 DEF LogRejection, TypeOK
      <3> QED  BY <3>1, <3>2, <3>3 DEF TypeOK
    <2> QED  BY <1>1, <2>1 DEF Prune, ReadGeneration, Trim, TypeOK, tables
  <1> QED  BY <1>3, <1>4, <1>5, <1>6
           DEF Prune, ReadGeneration, LogRejection, Trim, TypeOK, LockHeld, tables

LEMMA FaultTypes ==
  ASSUME TypeOK, NEW p \in Servers, Fails(p) \/ Stop(p)
  PROVE  TypeOK'
  <1>1. faults' \in 0..MaxFaults
    BY BoundsAssumption DEF Fails, Stop, Fault, TypeOK
  <1>2. server[p].request \in Requests /\ "STORAGE_ERROR" \in Reasons
    BY ServerFields DEF Reasons
  <1>3. /\ server' \in [Servers -> Server] /\ answered' \in [Requests -> Answer]
        /\ server' = [server EXCEPT ![p] = server'[p]] /\ ~InTransaction(p)'
    <2>1. CASE Errs(p, server[p].request, "STORAGE_ERROR")
      BY <1>2, <2>1, ErrsTypes DEF InTransaction
    <2>2. CASE Answers(p, server[p].request, "STORAGE_ERROR", 0)
      BY <1>2, <2>2, AnswersTypes DEF InTransaction
    <2>3. CASE Stop(p)
      <3>1. server' \in [Servers -> Server] /\ server'[p] = NoServer
        BY <2>3, ServerTypes DEF Stop, TypeOK
      <3> QED  BY <2>3, <3>1, ServerTypes DEF Stop, InTransaction, TypeOK
    <2> QED  BY <2>1, <2>2, <2>3 DEF Fails
  <1>4. lock' = Unlocked(p) /\ lock' \in Servers \cup {"none"} /\ LockHeld(p)'
    BY <1>3, BoundsAssumption DEF Fails, Stop, Unlocked, LockHeld, TypeOK
  <1>5. \A q \in Servers : LockHeld(q)'
    BY <1>3, <1>4, OthersLock
  <1> QED  BY <1>1, <1>3, <1>4, <1>5 DEF Fails, Stop, TypeOK, LockHeld, tables

LEMMA NextTypes == TypeOK /\ [Next]_vars => TypeOK'
  <1> SUFFICES ASSUME TypeOK, [Next]_vars PROVE TypeOK'
    OBVIOUS
  <1>1. CASE UNCHANGED vars
    BY <1>1 DEF TypeOK, vars, tables, InTransaction
  <1>2. ASSUME NEW r \in Requests, Lapse(r) PROVE TypeOK'
    BY <1>2 DEF Lapse, TypeOK, tables, InTransaction
  <1>3. ASSUME NEW p \in Servers, Step(p) PROVE TypeOK'
    BY <1>3, ReceiveTypes, TransactionTypes, CommitTypes, LogTypes, FaultTypes DEF Step, Serve
  <1> QED  BY <1>1, <1>2, <1>3 DEF Next, Step

---------------------------------------------------------------------------
(* Only a commit writes the decided state.                                 *)
decided == <<generation, nonces, decisions, authorizations>>

LEMMA OnlyCommitDecides ==
  ASSUME TypeOK, NEW p \in Servers, Step(p), ~Commit(p)
  PROVE  UNCHANGED decided
  BY DEF Step, Serve, Receive, Begin, Check, Prune, ReadGeneration, LogRejection, Trim, Fails,
     Stop, tables, decided

LEMMA DecidedGrows ==
  ASSUME NEW p \in Servers, Commit(p), NEW r
  PROVE  /\ nonces \subseteq nonces' /\ decisions \subseteq decisions'
         /\ authorizations \subseteq authorizations'
         /\ Recorded(r) => Recorded(r)'
  BY DEF Commit, Recorded

LEMMA OnlyItsServer ==
  ASSUME TypeOK, NEW p \in Servers, Step(p), NEW q \in Servers, q # p
  PROVE  server'[q] = server[q]
  <1>1. server \in [Servers -> Server]
    BY DEF TypeOK
  <1>2. ASSUME NEW r, NEW reason, NEW g, Answers(p, r, reason, g)
        PROVE  server'[q] = server[q]
    BY <1>1, <1>2 DEF Answers
  <1>3. ASSUME NEW r, NEW reason, Errs(p, r, reason)
        PROVE  server'[q] = server[q]
    BY <1>1, <1>2, <1>3 DEF Errs
  <1>4. ASSUME NEW station, NEW g, Moves(p, station, g)
        PROVE  server'[q] = server[q]
    BY <1>1, <1>4 DEF Moves
  <1>5. ASSUME NEW r \in Requests, Receive(p, r)
        PROVE  server'[q] = server[q]
    BY <1>1, <1>3, <1>5 DEF Receive
  <1>6. CASE Stop(p)
    BY <1>1, <1>6 DEF Stop
  <1> QED
    BY <1>2, <1>3, <1>4, <1>5, <1>6 DEF Step, Serve, Begin, Check, Commit, Prune,
       ReadGeneration, LogRejection, Trim, Fails

---------------------------------------------------------------------------
(* What a server knows.                                                    *)
Knows(q) ==
  LET r == server[q].request IN
  /\ server[q].at = "committing" =>
       /\ ~NonceUsed(r) /\ ~Decided(r.id)
       /\ r.expected = generation /\ server[q].generation = generation + 1
  /\ server[q].at = "pruning" => Recorded(r) /\ server[q].generation = r.expected + 1
  /\ server[q].at \in {"rejecting", "logging", "trimming"} => server[q].reason # "AUTHORIZED"

(* What Commit(p) writes.                                                  *)
LEMMA CommitRecords ==
  ASSUME TypeOK, ServersKnow, NEW p \in Servers, Commit(p)
  PROVE  LET r == server[p].request IN
         /\ server' = [server EXCEPT ![p] = server'[p]]
         /\ server'[p].at = "pruning" /\ server'[p].request = r
         /\ server'[p].generation = generation + 1
         /\ r \in Requests
         /\ ~NonceUsed(r) /\ ~Decided(r.id) /\ r.expected = generation
         /\ generation' = generation + 1
         /\ nonces' = nonces \cup {[nonce |-> r.nonce, id |-> r.id]}
         /\ decisions' = decisions \cup {[id |-> r.id, generation |-> generation + 1]}
         /\ authorizations' = authorizations \cup
              {[id |-> r.id, binding |-> r.binding, generation |-> generation + 1] :
               kind \in {r.kind} \cap Gates}
         /\ Recorded(r)'
  <1> DEFINE r == server[p].request
  <1>1. /\ ~NonceUsed(r) /\ ~Decided(r.id)
        /\ r.expected = generation /\ server[p].generation = generation + 1
    BY DEF ServersKnow, Commit
  <1>2. r \in Requests /\ server[p].generation \in Nat
    BY ServerFields
  <1>3. /\ server' = [server EXCEPT ![p] = server'[p]]
        /\ server'[p].at = "pruning" /\ server'[p].request = r
        /\ server'[p].generation = generation + 1
    BY <1>1, <1>2, MovesTypes DEF Commit, Stations
  <1>4. /\ generation' = generation + 1
        /\ nonces' = nonces \cup {[nonce |-> r.nonce, id |-> r.id]}
        /\ decisions' = decisions \cup {[id |-> r.id, generation |-> generation + 1]}
        /\ authorizations' = authorizations \cup
             {[id |-> r.id, binding |-> r.binding, generation |-> generation + 1] :
              kind \in {r.kind} \cap Gates}
    BY <1>1 DEF Commit
  <1>5. /\ [id |-> r.id, generation |-> r.expected + 1] \in decisions'
        /\ [nonce |-> r.nonce, id |-> r.id] \in nonces'
        /\ r.kind \in Gates =>
             [id |-> r.id, binding |-> r.binding, generation |-> r.expected + 1]
               \in authorizations'
    BY <1>1, <1>4
  <1> HIDE DEF r
  <1>6. Recorded(r)' <=>
        /\ [id |-> r'.id, generation |-> r'.expected + 1] \in decisions'
        /\ [nonce |-> r'.nonce, id |-> r'.id] \in nonces'
        /\ r'.kind \in Gates =>
             [id |-> r'.id, binding |-> r'.binding, generation |-> r'.expected + 1]
               \in authorizations'
    BY DEF Recorded
  <1>7. r' = r
    BY <1>3 DEF r
  <1> QED  BY <1>1, <1>2, <1>3, <1>4, <1>5, <1>6, <1>7 DEF r

LEMMA OneCommitter ==
  ASSUME TypeOK, NEW p \in Servers, Commit(p), NEW q \in Servers, q # p
  PROVE  server[q].at # "committing"
  BY DEF TypeOK, Commit, InTransaction

LEMMA CommitKnows ==
  ASSUME TypeOK, ServersKnow, NEW p \in Servers, Commit(p)
  PROVE  ServersKnow'
  <1> SUFFICES ASSUME NEW q \in Servers PROVE Knows(q)'
    BY DEF ServersKnow, Knows
  <1>1. CASE q = p
    <2>1. server'[p].generation = server'[p].request.expected + 1 /\ server'[p].at = "pruning"
      BY CommitRecords
    <2>2. Recorded(server[p].request)' /\ server'[p].request = server[p].request
      BY CommitRecords
    <2> QED  BY <1>1, <2>1, <2>2 DEF Knows
  <1>2. CASE q # p
    <2>1. server'[q] = server[q] /\ server[q].at # "committing"
      BY <1>2, OnlyItsServer, OneCommitter DEF Step, Serve
    <2>2. Recorded(server[q].request) => Recorded(server[q].request)'
      BY <2>1, DecidedGrows DEF Recorded
    <2> QED  BY <2>1, <2>2 DEF ServersKnow, Knows
  <1> QED  BY <1>1, <1>2

LEMMA OtherKnows ==
  ASSUME TypeOK, ServersKnow, NEW p \in Servers, Step(p), ~Commit(p)
  PROVE  ServersKnow'
  <1> SUFFICES ASSUME NEW q \in Servers PROVE Knows(q)'
    BY DEF ServersKnow, Knows
  <1>0. Knows(q) /\ UNCHANGED decided
    BY OnlyCommitDecides DEF ServersKnow, Knows
  <1>1. CASE server'[q] = server[q]
    BY <1>0, <1>1 DEF Knows, decided, NonceUsed, Decided, Recorded
  <1>2. CASE server'[q].at \in {"idle", "opening", "checking"}
    BY <1>2 DEF Knows
  <1>3. CASE server'[q].at \in {"rejecting", "logging", "trimming"}
             /\ server'[q].reason # "AUTHORIZED"
    BY <1>3 DEF Knows
  <1>4. CASE q # p
    BY <1>1, <1>4, OnlyItsServer
  <1>5. CASE q = p
    <2>1. ASSUME NEW r \in Requests, Receive(p, r) PROVE Knows(q)'
      <3>1. CASE r \in lapsed
        BY <1>2, <1>3, <1>5, <2>1, <3>1, ErrsTypes DEF Receive, Reasons
      <3>2. CASE r \notin lapsed
        BY <1>2, <1>5, <2>1, <3>2 DEF Receive, TypeOK
      <3> QED  BY <3>1, <3>2
    <2>2. CASE Begin(p)
      BY <1>2, <1>5, <2>2, MovesTypes DEF Begin, Stations
    <2>3. CASE Check(p)
      <3> DEFINE r == server[p].request
      <3>0. r \in Requests /\ generation + 1 \in Nat
        BY ServerFields DEF TypeOK
      <3>1. CASE Refusal(r) = "none"
        <4>1. /\ server'[p].at = "committing" /\ server'[p].request = r
              /\ server'[p].generation = generation + 1
          BY <2>3, <3>0, <3>1, MovesTypes DEF Check, Stations
        <4>2. ~NonceUsed(r) /\ r.expected = generation /\ ~Decided(r.id)
          BY <3>1, RefusalTypes
        <4>3. ~NonceUsed(r)' /\ ~Decided(r.id)'
          BY <1>0, <4>1, <4>2 DEF NonceUsed, Decided, decided
        <4> QED  BY <1>0, <1>5, <4>1, <4>2, <4>3 DEF Knows, decided
      <3>2. CASE Refusal(r) # "none"
        <4>1. Refusal(r) \in Reasons \ {"AUTHORIZED"}
          BY <3>2, RefusalTypes
        <4> QED  BY <1>2, <1>3, <1>5, <2>3, <3>0, <3>2, <4>1, ErrsTypes DEF Check
      <3> QED  BY <3>1, <3>2
    <2>4. CASE Prune(p) \/ Trim(p) \/ Stop(p)
      <3>1. server'[p].at = "idle"
        BY <2>4, ServerTypes DEF Prune, Trim, Stop, Answers, TypeOK
      <3> QED  BY <1>2, <1>5, <3>1
    <2>5. CASE ReadGeneration(p) \/ LogRejection(p)
      <3>1. server'[p].at \in {"logging", "trimming"} /\ server'[p].reason = server[p].reason
        BY <2>5, ServerFields, MovesTypes DEF ReadGeneration, LogRejection, Stations, TypeOK
      <3>2. server[p].reason # "AUTHORIZED"
        BY <2>5 DEF ServersKnow, ReadGeneration, LogRejection
      <3> QED  BY <1>3, <1>5, <3>1, <3>2
    <2>6. CASE Fails(p)
      <3>1. server[p].request \in Requests
        BY ServerFields
      <3>2. CASE Errs(p, server[p].request, "STORAGE_ERROR")
        <4>1. "STORAGE_ERROR" \in Reasons \ {"AUTHORIZED"}
          BY DEF Reasons
        <4>2. /\ server'[p].at \in {"idle", "rejecting"}
              /\ server'[p].at = "rejecting" => server'[p].reason = "STORAGE_ERROR"
          BY <3>1, <3>2, <4>1, ErrsTypes
        <4> QED  BY <1>2, <1>3, <1>5, <4>1, <4>2
      <3>3. CASE Answers(p, server[p].request, "STORAGE_ERROR", 0)
        BY <1>2, <1>5, <3>1, <3>3, AnswersTypes DEF Reasons
      <3> QED  BY <2>6, <3>2, <3>3 DEF Fails
    <2> QED  BY <2>1, <2>2, <2>3, <2>4, <2>5, <2>6 DEF Step, Serve
  <1> QED  BY <1>4, <1>5

---------------------------------------------------------------------------
(* Acceptances are serial.                                                 *)
LEMMA CommitIsSerial ==
  ASSUME TypeOK, ServersKnow, AcceptancesAreSerial, NEW p \in Servers, Commit(p)
  PROVE  AcceptancesAreSerial'
  <1> DEFINE r == server[p].request
             new == [id |-> r.id, generation |-> generation + 1]
             used == [nonce |-> r.nonce, id |-> r.id]
  <1>1. /\ ~NonceUsed(r) /\ ~Decided(r.id)
        /\ generation' = generation + 1 /\ generation \in Nat
        /\ nonces' = nonces \cup {used} /\ decisions' = decisions \cup {new}
    BY CommitRecords DEF TypeOK
  <1>2. /\ {d.generation : d \in decisions} = 1..generation
        /\ \A d, e \in decisions : d.id = e.id \/ d.generation = e.generation => d = e
        /\ \A m, n \in nonces : m.id = n.id \/ m.nonce = n.nonce => m = n
        /\ {n.id : n \in nonces} = {d.id : d \in decisions}
    BY DEF AcceptancesAreSerial
  <1>3. /\ \A d \in decisions : d.id # new.id
        /\ \A n \in nonces : n.nonce # used.nonce
    BY <1>1 DEF NonceUsed, Decided
  <1>4. \A n \in nonces : n.id # used.id
    <2> SUFFICES ASSUME NEW n \in nonces PROVE n.id # r.id
      OBVIOUS
    <2>1. n.id \in {d.id : d \in decisions}
      BY <1>2
    <2> QED  BY <1>3, <2>1
  <1>5. \A d \in decisions : d.generation \in 1..generation
    BY <1>2
  <1>6. {d.generation : d \in decisions'} = 1..generation'
    <2>1. {d.generation : d \in decisions'} =
            {d.generation : d \in decisions} \cup {generation + 1}
      <3>1. new.generation = generation + 1
        OBVIOUS
      <3> HIDE DEF new
      <3> QED  BY <1>1, <3>1, Zenon
    <2>2. (1..generation) \cup {generation + 1} = 1..(generation + 1)
      BY <1>1
    <2> QED  BY <1>1, <1>2, <2>1, <2>2
  <1>7. \A d \in decisions : d.generation # new.generation
    BY <1>1, <1>5
  <1>8. \A d, e \in decisions' : d.id = e.id \/ d.generation = e.generation => d = e
    BY <1>1, <1>2, <1>3, <1>7
  <1>9. \A m, n \in nonces' : m.id = n.id \/ m.nonce = n.nonce => m = n
    BY <1>1, <1>2, <1>3, <1>4
  <1>10. {n.id : n \in nonces'} = {d.id : d \in decisions'}
    <2>1. new.id = r.id /\ used.id = r.id
      OBVIOUS
    <2> HIDE DEF new, used
    <2>2. {n.id : n \in nonces'} = {n.id : n \in nonces} \cup {r.id}
      BY <1>1, <2>1, Zenon
    <2>3. {d.id : d \in decisions'} = {d.id : d \in decisions} \cup {r.id}
      BY <1>1, <2>1, Zenon
    <2> QED  BY <1>2, <2>2, <2>3
  <1> QED  BY <1>6, <1>8, <1>9, <1>10 DEF AcceptancesAreSerial

(* A stored authorization is a decided gate's.                             *)
DecidedGate(a, r) ==
  /\ r.kind \in Gates /\ r.id = a.id /\ r.binding = a.binding
  /\ a.generation = r.expected + 1
  /\ [id |-> r.id, generation |-> a.generation] \in decisions
  /\ [nonce |-> r.nonce, id |-> r.id] \in nonces

LEMMA CommitAuthorizes ==
  ASSUME TypeOK, ServersKnow, AuthorizationIsDecided, NEW p \in Servers, Commit(p)
  PROVE  AuthorizationIsDecided'
  <1> DEFINE r == server[p].request
             new == [id |-> r.id, binding |-> r.binding, generation |-> generation + 1]
  <1>1. /\ r \in Requests /\ ~Decided(r.id) /\ r.expected = generation
        /\ authorizations' = authorizations \cup {new : kind \in {r.kind} \cap Gates}
        /\ decisions' = decisions \cup {[id |-> r.id, generation |-> generation + 1]}
        /\ nonces' = nonces \cup {[nonce |-> r.nonce, id |-> r.id]}
    BY CommitRecords
  <1>2. \A a \in authorizations : \E s \in Requests : DecidedGate(a, s)
    BY DEF AuthorizationIsDecided, DecidedGate
  <1>3. \A a \in authorizations : a.id # r.id
    BY <1>1, <1>2 DEF DecidedGate, Decided
  <1>4. \A a, b \in authorizations : a.id = b.id => a = b
    BY DEF AuthorizationIsDecided
  <1>5. \A a \in authorizations' : a \in authorizations \/ (a = new /\ r.kind \in Gates)
    <2> HIDE DEF r, new
    <2> QED  BY <1>1, Zenon
  <1>6. ASSUME NEW a \in authorizations'
        PROVE  \E s \in Requests : DecidedGate(a, s)'
    <2>1. CASE a \in authorizations
      BY <1>1, <1>2, <2>1 DEF DecidedGate
    <2>2. CASE a = new /\ r.kind \in Gates
      <3>1. /\ r.kind \in Gates /\ r.id = a.id /\ r.binding = a.binding
            /\ a.generation = r.expected + 1
            /\ [id |-> r.id, generation |-> a.generation] \in decisions'
            /\ [nonce |-> r.nonce, id |-> r.id] \in nonces'
        BY <1>1, <2>2
      <3> HIDE DEF r, new
      <3> QED  BY <1>1, <3>1 DEF DecidedGate
    <2> QED  BY <1>5, <2>1, <2>2
  <1>7. \A a, b \in authorizations' : a.id = b.id => a = b
    BY <1>3, <1>4, <1>5
  <1> QED  BY <1>6, <1>7 DEF AuthorizationIsDecided, DecidedGate

---------------------------------------------------------------------------
(* Answers and log.                                                        *)
LEMMA NewAnswers ==
  ASSUME TypeOK, ServersKnow, NEW p \in Servers, Step(p), NEW r \in Requests,
         answered'[r] # answered[r], answered'[r].decision = "accepted"
  PROVE  answered'[r].generation = r.expected + 1 /\ Recorded(r) /\ Prune(p)
  <1>1. \A s, reason, g :
          Answers(p, s, reason, g) => /\ r = s /\ reason = "AUTHORIZED"
                                      /\ answered'[r].generation = g
    BY AnswerTypes DEF TypeOK, Answers
  <1>2. \A s, reason : Errs(p, s, reason) => reason = "AUTHORIZED"
    BY <1>1 DEF Errs
  <1>3. CASE Prune(p)
    BY <1>1, <1>3 DEF Prune, ServersKnow
  <1>4. CASE Trim(p)
    BY <1>1, <1>4 DEF Trim, ServersKnow
  <1>5. CASE Check(p)
    BY <1>2, <1>5, RefusalTypes DEF Check
  <1>6. CASE Fails(p)
    BY <1>1, <1>2, <1>6 DEF Fails
  <1>7. ASSUME NEW s \in Requests, Receive(p, s) PROVE FALSE
    BY <1>2, <1>7 DEF Receive
  <1>8. CASE Begin(p) \/ Commit(p) \/ ReadGeneration(p) \/ LogRejection(p) \/ Stop(p)
    BY <1>8 DEF Begin, Commit, ReadGeneration, LogRejection, Stop
  <1> QED  BY <1>3, <1>4, <1>5, <1>6, <1>7, <1>8 DEF Step, Serve

LEMMA StepAnswers ==
  ASSUME TypeOK, ServersKnow, AnswersAreTrue, NEW p \in Servers, Step(p)
  PROVE  AnswersAreTrue'
  <1> SUFFICES ASSUME NEW r \in Requests, answered'[r].decision = "accepted"
               PROVE  answered'[r].generation = r.expected + 1 /\ Recorded(r)'
    BY DEF AnswersAreTrue
  <1>1. answered'[r].generation = r.expected + 1 /\ Recorded(r)
    BY NewAnswers DEF AnswersAreTrue
  <1>2. Recorded(r)'
    BY <1>1, DecidedGrows, OnlyCommitDecides DEF decided, Recorded
  <1> QED  BY <1>1, <1>2

LEMMA StepLogs ==
  ASSUME TypeOK, ServersKnow, AcceptancesAreSerial, EventsAreNumbered, LogFollowsGenerations,
         NEW p \in Servers, Step(p)
  PROVE  EventsAreNumbered' /\ LogFollowsGenerations'
  <1>1. CASE Commit(p)
    <2> DEFINE new == [seq |-> sequence + 1, id |-> server[p].request.id, accepted |-> TRUE,
                       generation |-> generation + 1]
    <2>1. /\ log' = log \cup {new} /\ sequence' = sequence + 1
          /\ [id |-> new.id, generation |-> new.generation] \in decisions'
          /\ decisions \subseteq decisions'
      BY <1>1, CommitRecords DEF Commit, ServersKnow
    <2>2. /\ sequence \in Nat /\ generation \in Nat
          /\ \A e \in log : e.seq \in Nat /\ e.seq <= sequence
      BY DEF TypeOK, Event, EventsAreNumbered
    <2>3. ASSUME NEW e \in log, e.accepted
          PROVE  e.generation < new.generation
      <3>1. [id |-> e.id, generation |-> e.generation] \in decisions
        BY <2>3 DEF LogFollowsGenerations
      <3>2. e.generation \in {d.generation : d \in decisions}
        BY <3>1
      <3>3. e.generation \in 1..generation
        BY <3>2 DEF AcceptancesAreSerial
      <3> QED  BY <2>2, <3>3
    <2>4. EventsAreNumbered'
      BY <2>1, <2>2 DEF EventsAreNumbered
    <2>5. \A e \in log' : e.accepted => [id |-> e.id, generation |-> e.generation] \in decisions'
      BY <2>1 DEF LogFollowsGenerations
    <2>6. ASSUME NEW e \in log', NEW f \in log', e.accepted, f.accepted, e.seq < f.seq
          PROVE  e.generation < f.generation
      <3>1. e \in log
        BY <2>1, <2>2, <2>6
      <3>2. CASE f \in log
        BY <2>6, <3>1, <3>2 DEF LogFollowsGenerations
      <3>3. CASE f = new
        BY <2>3, <2>6, <3>1, <3>3
      <3> QED  BY <2>1, <3>2, <3>3
    <2> QED  BY <2>4, <2>5, <2>6 DEF LogFollowsGenerations
  <1>2. CASE LogRejection(p)
    <2> DEFINE new == [seq |-> sequence + 1, id |-> server[p].request.id, accepted |-> FALSE,
                       generation |-> server[p].generation]
    <2>1. log' = log \cup {new} /\ sequence' = sequence + 1 /\ decisions' = decisions
      BY <1>2 DEF LogRejection
    <2>2. sequence \in Nat /\ \A e \in log : e.seq \in Nat /\ e.seq <= sequence
      BY DEF TypeOK, Event, EventsAreNumbered
    <2>3. \A e \in log' : e.accepted => e \in log
      BY <2>1
    <2>4. EventsAreNumbered'
      BY <2>1, <2>2 DEF EventsAreNumbered
    <2>5. LogFollowsGenerations'
      BY <2>1, <2>3 DEF LogFollowsGenerations
    <2> QED  BY <2>4, <2>5
  <1>3. CASE ~Commit(p) /\ ~LogRejection(p)
    <2>1. log' \subseteq log /\ UNCHANGED <<sequence, decisions>>
      BY <1>3 DEF Step, Serve, Receive, Begin, Check, Prune, ReadGeneration, Trim, Fails, Stop,
         tables, Newest
    <2> QED  BY <2>1 DEF EventsAreNumbered, LogFollowsGenerations
  <1> QED  BY <1>1, <1>2, <1>3

---------------------------------------------------------------------------
LEMMA InitInv == Init => ControllerInv
  <1> SUFFICES ASSUME Init PROVE ControllerInv
    OBVIOUS
  <1>1. TypeOK
    BY ServerTypes, AnswerTypes, BoundsAssumption DEF Init, TypeOK, InTransaction
  <1>2. ServersKnow
    BY ServerTypes DEF Init, ServersKnow
  <1>3. AcceptancesAreSerial /\ AuthorizationIsDecided
    BY DEF Init, AcceptancesAreSerial, AuthorizationIsDecided
  <1>4. AnswersAreTrue /\ EventsAreNumbered /\ LogFollowsGenerations
    BY DEF Init, AnswersAreTrue, NoAnswer, EventsAreNumbered, LogFollowsGenerations
  <1> QED  BY <1>1, <1>2, <1>3, <1>4 DEF ControllerInv

LEMMA NextInv == ControllerInv /\ [Next]_vars => ControllerInv'
  <1> SUFFICES ASSUME ControllerInv, [Next]_vars PROVE ControllerInv'
    OBVIOUS
  <1>0. TypeOK'
    BY NextTypes DEF ControllerInv
  <1>1. ASSUME UNCHANGED <<tables, server, answered>> PROVE ControllerInv'
    <2>1. ServersKnow' /\ AnswersAreTrue'
      BY <1>1 DEF ControllerInv, ServersKnow, AnswersAreTrue, NonceUsed, Decided, Recorded, tables
    <2>2. AcceptancesAreSerial' /\ AuthorizationIsDecided'
      BY <1>1 DEF ControllerInv, AcceptancesAreSerial, AuthorizationIsDecided, tables
    <2>3. EventsAreNumbered' /\ LogFollowsGenerations'
      BY <1>1 DEF ControllerInv, EventsAreNumbered, LogFollowsGenerations, tables
    <2> QED  BY <1>0, <2>1, <2>2, <2>3 DEF ControllerInv
  <1>2. ASSUME NEW p \in Servers, Step(p) PROVE ControllerInv'
    <2>1. ServersKnow'
      BY <1>2, CommitKnows, OtherKnows DEF ControllerInv
    <2>2. AcceptancesAreSerial' /\ AuthorizationIsDecided'
      <3>1. CASE Commit(p)
        BY <3>1, CommitIsSerial, CommitAuthorizes DEF ControllerInv
      <3>2. CASE ~Commit(p)
        <4>1. UNCHANGED decided
          BY <1>2, <3>2, OnlyCommitDecides DEF ControllerInv
        <4> QED  BY <4>1 DEF ControllerInv, AcceptancesAreSerial, AuthorizationIsDecided, decided
      <3> QED  BY <3>1, <3>2
    <2>3. AnswersAreTrue' /\ EventsAreNumbered' /\ LogFollowsGenerations'
      BY <1>2, StepAnswers, StepLogs DEF ControllerInv
    <2> QED  BY <1>0, <2>1, <2>2, <2>3 DEF ControllerInv
  <1>3. ASSUME NEW r \in Requests, Lapse(r) PROVE ControllerInv'
    BY <1>1, <1>3 DEF Lapse
  <1>4. CASE UNCHANGED vars
    BY <1>1, <1>4 DEF vars
  <1> QED  BY <1>2, <1>3, <1>4 DEF Next, Step

(* The tables, what every server knows in the middle of a request, and the *)
(* log agree: what the theorems below follow from.                         *)
THEOREM ControllerInvAlways == Spec => []ControllerInv
  BY InitInv, NextInv, PTL DEF Spec

(* The tables hold what the schema says, and the write lock is held by     *)
(* exactly the server that is between the begin and the commit.            *)
THEOREM TypeCorrect == Spec => []TypeOK
  BY ControllerInvAlways, PTL DEF ControllerInv

(* Generations are given out once, one after the other, each with a nonce  *)
(* and an identifier of its own.                                           *)
THEOREM AcceptancesAreSerialAlways == Spec => []AcceptancesAreSerial
  BY ControllerInvAlways, PTL DEF ControllerInv

(* A stored authorization is that of one decided gate.                     *)
THEOREM AuthorizationIsDecidedAlways == Spec => []AuthorizationIsDecided
  BY ControllerInvAlways, PTL DEF ControllerInv

(* What is answered as accepted is stored.                                 *)
THEOREM AnswersAreTrueAlways == Spec => []AnswersAreTrue
  BY ControllerInvAlways, PTL DEF ControllerInv

(* Logged acceptances are in the order of their generations.               *)
THEOREM LogFollowsGenerationsAlways == Spec => []LogFollowsGenerations
  BY ControllerInvAlways, PTL DEF ControllerInv

---------------------------------------------------------------------------
(* The database is a serial register.                                      *)
LEMMA Joined ==
  ASSUME NEW ds, NEW ns
  PROVE  \A a :
    a \in {[id |-> x[1].id, nonce |-> x[2].nonce, generation |-> x[1].generation] :
             x \in {y \in ds \X ns : y[1].id = y[2].id}}
    <=> \E d \in ds, n \in ns :
          /\ d.id = n.id
          /\ a = [id |-> d.id, nonce |-> n.nonce, generation |-> d.generation]
  <1> DEFINE join == {y \in ds \X ns : y[1].id = y[2].id}
             row(x) == [id |-> x[1].id, nonce |-> x[2].nonce, generation |-> x[1].generation]
  <1> TAKE a
  <1>1. ASSUME NEW x \in join, a = row(x)
        PROVE  \E d \in ds, n \in ns :
                 /\ d.id = n.id
                 /\ a = [id |-> d.id, nonce |-> n.nonce, generation |-> d.generation]
    <2>1. x[1] \in ds /\ x[2] \in ns /\ x[1].id = x[2].id
      OBVIOUS
    <2> QED  BY <1>1, <2>1
  <1>2. ASSUME NEW d \in ds, NEW n \in ns, d.id = n.id,
               a = [id |-> d.id, nonce |-> n.nonce, generation |-> d.generation]
        PROVE  a = row(<<d, n>>) /\ <<d, n>> \in join
    BY <1>2
  <1>3. a \in {row(x) : x \in join} <=> \E x \in join : a = row(x)
    OBVIOUS
  <1>4. (\E x \in join : a = row(x)) <=>
          \E d \in ds, n \in ns :
            /\ d.id = n.id
            /\ a = [id |-> d.id, nonce |-> n.nonce, generation |-> d.generation]
    <2> HIDE DEF join, row
    <2> QED  BY <1>1, <1>2, Zenon
  <1> QED  BY <1>3, <1>4

LEMMA Acceptances ==
  \A a : a \in acceptances <=>
    \E d \in decisions, n \in nonces :
      /\ d.id = n.id
      /\ a = [id |-> d.id, nonce |-> n.nonce, generation |-> d.generation]
  BY Joined DEF acceptances

LEMMA CommitAccepts ==
  ASSUME TypeOK, ServersKnow, AcceptancesAreSerial, NEW p \in Servers, Commit(p)
  PROVE  Register!RegisterNext
  <1> DEFINE r == server[p].request
             new == [id |-> r.id, nonce |-> r.nonce, generation |-> generation + 1]
             row == [id |-> r.id, generation |-> generation + 1]
             used == [nonce |-> r.nonce, id |-> r.id]
  <1>1. /\ r \in Requests /\ ~NonceUsed(r) /\ ~Decided(r.id)
        /\ generation' = generation + 1
        /\ nonces' = nonces \cup {used} /\ decisions' = decisions \cup {row}
    BY CommitRecords
  <1>2. (\A d \in decisions : d.id # r.id) /\ (\A n \in nonces : n.nonce # r.nonce)
    BY <1>1 DEF NonceUsed, Decided
  <1>3. \A n \in nonces : n.id # r.id
    <2> SUFFICES ASSUME NEW n \in nonces PROVE n.id # r.id
      OBVIOUS
    <2>1. n.id \in {d.id : d \in decisions}
      BY DEF AcceptancesAreSerial
    <2> QED  BY <1>2, <2>1
  <1>4. \A a \in acceptances : a.id # r.id /\ a.nonce # r.nonce
    BY <1>2, Acceptances
  <1>5. /\ row.id = r.id /\ row.generation = generation + 1
        /\ used.id = r.id /\ used.nonce = r.nonce
    OBVIOUS
  <1>6. \A a : a \in acceptances' <=>
          \E d \in decisions', n \in nonces' :
            /\ d.id = n.id
            /\ a = [id |-> d.id, nonce |-> n.nonce, generation |-> d.generation]
    BY Joined DEF acceptances
  <1>7. acceptances' = acceptances \cup {new}
    <2> SUFFICES ASSUME NEW a PROVE a \in acceptances' <=> a \in acceptances \/ a = new
      OBVIOUS
    <2>1. a \in acceptances => a \in acceptances'
      BY <1>1, <1>6, Acceptances
    <2>2. row \in decisions' /\ used \in nonces' /\ row.id = used.id
          /\ new = [id |-> row.id, nonce |-> used.nonce, generation |-> row.generation]
      BY <1>1
    <2>3. new \in acceptances'
      <3> HIDE DEF row, used, new
      <3> QED  BY <1>6, <2>2
    <2>4. ASSUME a \in acceptances' PROVE a \in acceptances \/ a = new
      <3>1. PICK d \in decisions', n \in nonces' :
              /\ d.id = n.id
              /\ a = [id |-> d.id, nonce |-> n.nonce, generation |-> d.generation]
        BY <1>6, <2>4
      <3>2. CASE d \in decisions /\ n \in nonces
        BY <3>1, <3>2, Acceptances
      <3>3. CASE d = row \/ n = used
        <4>1. d = row /\ n = used
          <5> HIDE DEF row, used, r
          <5> QED  BY <1>1, <1>2, <1>3, <1>5, <3>1, <3>3
        <4> QED  BY <3>1, <4>1
      <3> QED  BY <1>1, <3>2, <3>3
    <2> QED  BY <2>1, <2>3, <2>4
  <1>8. Register!Accept(r.id, r.nonce)
    BY <1>1, <1>4, <1>7 DEF Register!Accept
  <1> QED  BY <1>1, <1>8, RequestFields DEF Register!RegisterNext

(* The controller's database implements the serial register, whatever      *)
(* servers share it and wherever they stop.                                *)
THEOREM ControllerDecidesSerially == Spec => DecidesSerially
  <1>1. Init => Register!RegisterInit
    <2> SUFFICES ASSUME Init PROVE acceptances = {}
      BY DEF Init, Register!RegisterInit
    <2>1. \A a : a \notin acceptances
      BY Acceptances DEF Init
    <2> QED  BY <2>1
  <1>2. ControllerInv /\ [Next]_vars => [Register!RegisterNext]_(Register!registerVars)
    <2> SUFFICES ASSUME ControllerInv, [Next]_vars
                 PROVE  Register!RegisterNext \/ UNCHANGED Register!registerVars
      OBVIOUS
    <2>1. CASE UNCHANGED decided
      BY <2>1 DEF decided, Register!registerVars, acceptances
    <2>2. ASSUME NEW p \in Servers, Commit(p) PROVE Register!RegisterNext
      BY <2>2, CommitAccepts DEF ControllerInv
    <2>3. ASSUME NEW p \in Servers, Step(p)
          PROVE  Register!RegisterNext \/ UNCHANGED Register!registerVars
      BY <2>1, <2>2, <2>3, OnlyCommitDecides DEF ControllerInv
    <2>4. CASE UNCHANGED vars \/ \E r \in Requests : Lapse(r)
      BY <2>1, <2>4 DEF vars, tables, Lapse, decided
    <2> QED  BY <2>3, <2>4 DEF Next, Step
  <1> QED  BY <1>1, <1>2, ControllerInvAlways, PTL DEF Spec, DecidesSerially, Register!RegisterSpec

---------------------------------------------------------------------------
(* The decision log.  Its events are those with the numbers from some low  *)
(* on, each once, so that it has as many as there are numbers.             *)
Suffix(events, low) ==
  /\ {e.seq : e \in events} = (low + 1) .. sequence
  /\ \A e, f \in events : e.seq = f.seq => e = f

LEMMA SuffixSize ==
  ASSUME NEW events, NEW low \in Int, sequence \in Int, low <= sequence, Suffix(events, low)
  PROVE  IsFiniteSet(events) /\ Cardinality(events) = sequence - low
  <1> DEFINE numbers == (low + 1) .. sequence
             at == [n \in numbers |-> CHOOSE e \in events : e.seq = n]
  <1>1. \A n \in numbers : at[n] \in events /\ at[n].seq = n
    BY DEF Suffix
  <1>2. \A e \in events : e.seq \in numbers /\ at[e.seq] = e
    BY <1>1 DEF Suffix
  <1>3. at \in Bijection(numbers, events)
    <2>1. at \in [numbers -> events]
      BY <1>1
    <2>2. \A m, n \in numbers : at[m] = at[n] => m = n
      BY <1>1
    <2>3. \A e \in events : \E n \in numbers : at[n] = e
      BY <1>2
    <2> HIDE DEF at, numbers
    <2> QED  BY <2>1, <2>2, <2>3 DEF Bijection, Injection, Surjection, IsInjective
  <1>4. IsFiniteSet(numbers) /\ Cardinality(numbers) = sequence - low
    <2>1. PICK first \in Int : first = low + 1
      OBVIOUS
    <2>2. IsFiniteSet(first .. sequence) /\ Cardinality(first .. sequence) =
            IF first > sequence THEN 0 ELSE sequence - first + 1
      BY FS_Interval
    <2>3. numbers = first .. sequence
      BY <2>1
    <2>4. (IF first > sequence THEN 0 ELSE sequence - first + 1) = sequence - low
      BY <2>1
    <2> QED  BY <2>2, <2>3, <2>4
  <1> HIDE DEF at, numbers
  <1> QED  BY <1>3, <1>4, FS_Bijection DEF ExistsBijection

(* Trimming leaves the newest events, and as many as are kept.             *)
LEMMA NewestIsSuffix ==
  ASSUME NEW events, NEW low \in Int, sequence \in Int, low <= sequence, Kept \in Nat \ {0},
         Suffix(events, low)
  PROVE  Suffix(Newest(events), IF sequence - Kept > low THEN sequence - Kept ELSE low)
  <1>1. ASSUME NEW e \in events
        PROVE  e \in Newest(events) <=> e.seq > sequence - Kept
    <2> DEFINE later == {f \in events : f.seq > e.seq}
    <2>1. \A f \in events : f.seq \in (low + 1) .. sequence
      BY DEF Suffix
    <2>2. Suffix(later, e.seq) /\ e.seq \in Int /\ e.seq <= sequence
      <3>1. {f.seq : f \in events} = (low + 1) .. sequence
        BY DEF Suffix
      <3>2. {f.seq : f \in later} = (e.seq + 1) .. sequence
        <4>1. ASSUME NEW n \in (e.seq + 1) .. sequence PROVE \E f \in later : f.seq = n
          <5>1. n \in (low + 1) .. sequence /\ n > e.seq
            BY <2>1
          <5> QED  BY <3>1, <5>1
        <4>2. \A f \in later : f.seq \in (e.seq + 1) .. sequence
          BY <2>1
        <4> QED  BY <4>1, <4>2
      <3> QED  BY <2>1, <3>2 DEF Suffix
    <2>3. Cardinality(later) = sequence - e.seq
      <3> HIDE DEF later
      <3> QED  BY <2>2, SuffixSize
    <2>4. e \in Newest(events) <=> Cardinality(later) < Kept
      BY DEF Newest
    <2> HIDE DEF later
    <2> QED  BY <2>2, <2>3, <2>4
  <1>2. PICK first : first = IF sequence - Kept > low THEN sequence - Kept ELSE low
    OBVIOUS
  <1>3. /\ Newest(events) \subseteq events
        /\ {e.seq : e \in events} = (low + 1) .. sequence
        /\ \A e, f \in events : e.seq = f.seq => e = f
    BY DEF Newest, Suffix
  <1>4. {e.seq : e \in Newest(events)} = (first + 1) .. sequence
    <2>1. ASSUME NEW e \in Newest(events) PROVE e.seq \in (first + 1) .. sequence
      <3>1. e \in events /\ e.seq > sequence - Kept /\ e.seq \in (low + 1) .. sequence
        BY <1>1, <1>3
      <3> QED  BY <1>2, <3>1
    <2>2. ASSUME NEW n \in (first + 1) .. sequence PROVE \E e \in Newest(events) : e.seq = n
      <3>1. n \in (low + 1) .. sequence /\ n > sequence - Kept
        BY <1>2
      <3>2. PICK e \in events : e.seq = n
        BY <1>3, <3>1
      <3> QED  BY <1>1, <3>1, <3>2
    <2> QED  BY <2>1, <2>2
  <1> QED  BY <1>2, <1>3, <1>4 DEF Suffix

(* Servers that have appended an event and not trimmed the log since.      *)
Pending == {p \in Servers : server[p].at \in {"pruning", "trimming"}}

LEMMA WithoutOne ==
  ASSUME NEW S \in SUBSET Servers, NEW p
  PROVE  /\ Cardinality(S) \in Nat /\ Cardinality(S \ {p}) \in Nat
         /\ p \in S => Cardinality(S) = Cardinality(S \ {p}) + 1
         /\ p \notin S => Cardinality(S) = Cardinality(S \ {p})
  <1>1. IsFiniteSet(S) /\ IsFiniteSet(S \ {p})
    BY BoundsAssumption, FS_Subset
  <1>2. Cardinality(S) \in Nat /\ Cardinality(S \ {p}) \in Nat
    BY <1>1, FS_CardinalityType
  <1>3. Cardinality(S \ {p}) = IF p \in S THEN Cardinality(S) - 1 ELSE Cardinality(S)
    BY <1>1, FS_RemoveElement
  <1> QED  BY <1>2, <1>3

LEMMA PendingMoves ==
  ASSUME TypeOK, NEW p \in Servers, Step(p)
  PROVE  /\ Cardinality(Pending) \in Nat /\ Cardinality(Pending') \in Nat
         /\ Cardinality(Pending') >= Cardinality(Pending) - 1
         /\ p \notin Pending => Cardinality(Pending') >= Cardinality(Pending)
         /\ p \notin Pending /\ p \in Pending' => Cardinality(Pending') = Cardinality(Pending) + 1
  <1>1. PICK before, after : before = Pending /\ after = Pending'
    OBVIOUS
  <1>2. before \in SUBSET Servers /\ after \in SUBSET Servers
    BY <1>1 DEF Pending
  <1>3. before \ {p} = after \ {p}
    BY <1>1, OnlyItsServer DEF Pending
  <1>4. /\ Cardinality(before) \in Nat /\ Cardinality(before \ {p}) \in Nat
        /\ p \in before => Cardinality(before) = Cardinality(before \ {p}) + 1
        /\ p \notin before => Cardinality(before) = Cardinality(before \ {p})
    BY <1>2, WithoutOne
  <1>5. /\ Cardinality(after) \in Nat
        /\ p \in after => Cardinality(after) = Cardinality(after \ {p}) + 1
        /\ p \notin after => Cardinality(after) = Cardinality(after \ {p})
    BY <1>2, WithoutOne
  <1>6. PICK n : n = Cardinality(before \ {p}) /\ n = Cardinality(after \ {p})
    BY <1>3
  <1>7. /\ Cardinality(after) >= Cardinality(before) - 1
        /\ p \notin before => Cardinality(after) >= Cardinality(before)
        /\ p \notin before /\ p \in after => Cardinality(after) = Cardinality(before) + 1
    BY <1>4, <1>5, <1>6
  <1> QED  BY <1>1, <1>4, <1>5, <1>7

(* The inductive invariant: the log begins at low, with nothing before it  *)
(* trimmed that the bound would have kept, and exceeds the bound by no     *)
(* more than what is pending and what failed while it was.                 *)
LogBegins(low) ==
  /\ low \in 0 .. sequence /\ Suffix(log, low)
  /\ low = 0 \/ sequence - low >= Kept
  /\ sequence - low <= Kept + faults + Cardinality(Pending)
LogInv == \E low \in Nat : LogBegins(low)

LEMMA KeptIsPositive == Kept \in Nat \ {0}
  BY BoundsAssumption DEF Kept

LEMMA AppendKeeps ==
  ASSUME TypeOK, NEW p \in Servers, Commit(p) \/ LogRejection(p), NEW low \in Nat, LogBegins(low)
  PROVE  LogInv'
  <1>1. PICK new : log' = log \cup {new} /\ new.seq = sequence + 1
    <2>1. CASE Commit(p)
      <3>1. PICK e : e = [seq |-> sequence + 1, id |-> server[p].request.id, accepted |-> TRUE,
                          generation |-> server[p].generation]
        OBVIOUS
      <3>2. log' = log \cup {e} /\ e.seq = sequence + 1
        BY <2>1, <3>1 DEF Commit
      <3> QED  BY <3>2
    <2>2. CASE LogRejection(p)
      <3>1. PICK e : e = [seq |-> sequence + 1, id |-> server[p].request.id, accepted |-> FALSE,
                          generation |-> server[p].generation]
        OBVIOUS
      <3>2. log' = log \cup {e} /\ e.seq = sequence + 1
        BY <2>2, <3>1 DEF LogRejection
      <3> QED  BY <3>2
    <2> QED  BY <2>1, <2>2
  <1>2. sequence' = sequence + 1 /\ sequence \in Nat /\ faults' = faults /\ faults \in Nat
    BY DEF Commit, LogRejection, TypeOK
  <1>3. /\ {e.seq : e \in log} = (low + 1) .. sequence
        /\ \A e, f \in log : e.seq = f.seq => e = f
        /\ low <= sequence
    BY DEF LogBegins, Suffix
  <1>4. Suffix(log, low)'
    <2>1. {e.seq : e \in log'} = {e.seq : e \in log} \cup {sequence + 1}
      BY <1>1
    <2>2. (low + 1) .. (sequence + 1) = ((low + 1) .. sequence) \cup {sequence + 1}
      BY <1>2, <1>3
    <2>3. \A e \in log : e.seq # new.seq
      BY <1>1, <1>2, <1>3
    <2> QED  BY <1>1, <1>2, <1>3, <2>1, <2>2, <2>3 DEF Suffix
  <1>5. p \notin Pending /\ p \in Pending'
    <2>1. CASE Commit(p)
      <3>1. server[p].at = "committing" /\ Moves(p, "pruning", server[p].generation)
        BY <2>1 DEF Commit
      <3> QED  BY <3>1, MovesTypes, ServerFields DEF Pending, Stations
    <2>2. CASE LogRejection(p)
      <3>1. server[p].at = "logging" /\ Moves(p, "trimming", server[p].generation)
        BY <2>2 DEF LogRejection
      <3> QED  BY <3>1, MovesTypes, ServerFields DEF Pending, Stations
    <2> QED  BY <2>1, <2>2
  <1>6. Cardinality(Pending') = Cardinality(Pending) + 1 /\ Cardinality(Pending) \in Nat
    BY <1>5, PendingMoves DEF Step, Serve
  <1>7. LogBegins(low)'
    BY <1>2, <1>3, <1>4, <1>6, KeptIsPositive DEF LogBegins, Kept
  <1> QED  BY <1>7 DEF LogInv

LEMMA TrimKeeps ==
  ASSUME TypeOK, NEW p \in Servers, Prune(p) \/ Trim(p), NEW low \in Nat, LogBegins(low)
  PROVE  LogInv'
  <1>1. log' = Newest(log) /\ sequence' = sequence /\ faults' = faults
    BY DEF Prune, Trim
  <1>2. sequence \in Nat /\ faults \in Nat /\ low <= sequence /\ Suffix(log, low)
    BY DEF TypeOK, LogBegins
  <1>3. PICK first : first = IF sequence - Kept > low THEN sequence - Kept ELSE low
    OBVIOUS
  <1>4. Suffix(Newest(log), first)
    BY <1>2, <1>3, NewestIsSuffix, KeptIsPositive
  <1>5. Suffix(log, first)'
    BY <1>1, <1>4 DEF Suffix
  <1>6. Cardinality(Pending') \in Nat
    BY PendingMoves DEF Step, Serve
  <1>7. LogBegins(first)'
    <2>1. low = 0 \/ sequence - low >= Kept
      BY DEF LogBegins
    <2> HIDE DEF Kept
    <2>2. first \in 0 .. sequence /\ (first = 0 \/ sequence - first >= Kept) /\ sequence - first <= Kept
      BY <1>2, <1>3, <2>1, KeptIsPositive
    <2>3. sequence - first <= Kept + faults + Cardinality(Pending')
      BY <1>2, <1>6, <2>2, KeptIsPositive
    <2> QED  BY <1>1, <1>5, <2>2, <2>3 DEF LogBegins, Kept
  <1>8. first \in Nat
    BY <1>2, <1>3, KeptIsPositive
  <1> QED  BY <1>7, <1>8 DEF LogInv

(* No other step touches the log, and one that keeps an event from being   *)
(* trimmed is a fault.                                                     *)
LEMMA OtherStepKeepsLog ==
  ASSUME TypeOK, NEW p \in Servers, Step(p), ~Commit(p), ~LogRejection(p), ~Prune(p), ~Trim(p),
         NEW low \in Nat, LogBegins(low)
  PROVE  LogInv'
  <1>1. UNCHANGED <<log, sequence>>
    BY DEF Step, Serve, Receive, Begin, Check, ReadGeneration, Fails, Stop, tables
  <1>2. /\ faults' \in {faults, faults + 1} /\ faults \in Nat
        /\ p \in Pending => faults' = faults + 1
    BY DEF Step, Serve, Receive, Begin, Check, ReadGeneration, Fails, Stop, Fault, Pending, TypeOK
  <1>3. faults' + Cardinality(Pending') >= faults + Cardinality(Pending)
    BY <1>2, PendingMoves
  <1>4. Cardinality(Pending') \in Nat /\ Cardinality(Pending) \in Nat /\ sequence \in Nat
    BY PendingMoves DEF TypeOK
  <1>5. Suffix(log, low)'
    BY <1>1 DEF LogBegins, Suffix
  <1>6. LogBegins(low)'
    BY <1>1, <1>2, <1>3, <1>4, <1>5, KeptIsPositive DEF LogBegins, Kept
  <1> QED  BY <1>6 DEF LogInv

LEMMA LogInitially == Init => LogInv
  <1> SUFFICES ASSUME Init PROVE LogInv
    OBVIOUS
  <1>1. Cardinality(Pending) \in Nat
    <2>1. Pending \in SUBSET Servers
      BY DEF Pending
    <2> QED  BY <2>1, BoundsAssumption, FS_Subset, FS_CardinalityType
  <1>2. log = {} /\ sequence = 0 /\ faults = 0
    BY DEF Init
  <1>3. LogBegins(0)
    BY <1>1, <1>2, KeptIsPositive DEF LogBegins, Suffix
  <1> QED  BY <1>3 DEF LogInv

LEMMA LogStep ==
  TypeOK /\ LogInv /\ [Next]_vars => LogInv'
  <1> SUFFICES ASSUME TypeOK, LogInv, [Next]_vars PROVE LogInv'
    OBVIOUS
  <1>1. PICK low \in Nat : LogBegins(low)
    BY DEF LogInv
  <1>2. ASSUME NEW p \in Servers, Step(p) PROVE LogInv'
    BY <1>1, <1>2, AppendKeeps, TrimKeeps, OtherStepKeepsLog
  <1>3. ASSUME UNCHANGED <<tables, server, faults>> PROVE LogInv'
    BY <1>1, <1>3 DEF LogInv, LogBegins, Suffix, Pending, Kept, tables
  <1> QED  BY <1>2, <1>3 DEF Next, Step, Lapse, vars

(* However servers interleave appending and trimming, the decision log is  *)
(* the newest events without a gap, never trimmed below its bound, and     *)
(* over it only by the events of servers that have not trimmed yet or that *)
(* a fault kept from it.                                                   *)
THEOREM LogKeepsTheNewestAlways == Spec => []LogKeepsTheNewest
  <1>1. TypeOK /\ LogInv => LogKeepsTheNewest
    <2> SUFFICES ASSUME TypeOK, LogInv PROVE LogKeepsTheNewest
      OBVIOUS
    <2>1. PICK low \in Nat : LogBegins(low)
      BY DEF LogInv
    <2>2. sequence \in Nat /\ low <= sequence /\ Cardinality(log) = sequence - low
      BY <2>1, SuffixSize DEF LogBegins, TypeOK
    <2>3. low = sequence - Cardinality(log)
      BY <2>2
    <2>4. {e.seq : e \in log} = (sequence - Cardinality(log) + 1) .. sequence
      BY <2>1, <2>3 DEF LogBegins, Suffix
    <2> QED  BY <2>1, <2>2, <2>4 DEF LogBegins, Pending, LogKeepsTheNewest
  <1> QED  BY <1>1, LogInitially, LogStep, TypeCorrect, PTL DEF Spec
=============================================================================
