------------------------- MODULE ReconciliationProofs -------------------------
(***************************************************************************)
(* Reconciliation carries one change of a target through, and only to      *)
(* answer drift that was seen, for any contents, operations, actions,      *)
(* command processes and other writers.                                    *)
(***************************************************************************)
EXTENDS Reconciliation, FiniteSetTheorems, WellFoundedInduction, TLAPS

---------------------------------------------------------------------------
(* There is a latest assessment when there is one: times are bounded.      *)
LEMMA LeastNatural ==
  ASSUME NEW S \in SUBSET Nat, S # {}
  PROVE  \E x \in S : \A y \in S : x <= y
  <1>1. PICK x \in S : \A y \in S : <<y, x>> \notin OpToRel(<, Nat)
    BY NatLessThanWellFounded, WFMin
  <1>2. ASSUME NEW y \in S PROVE x <= y
    <2>1. <<y, x>> \in Nat \X Nat /\ <<y, x>>[1] = y /\ <<y, x>>[2] = x
      OBVIOUS
    <2>2. <<y, x>> \notin {pair \in Nat \X Nat : pair[1] < pair[2]}
      BY <1>1 DEF OpToRel
    <2>3. ~ (y < x)
      BY <2>1, <2>2
    <2> QED  BY <2>3
  <1> QED  BY <1>2

LEMMA Bounds ==
  /\ MaxClock \in Nat /\ MaxChanges \in Nat /\ Skew \in Nat /\ Ahead \in Nat
  /\ InspectionLife \in Nat /\ ProposalLife \in Nat /\ GateLife \in Nat
  /\ Cardinality(Operations) \in Nat
  /\ Times \subseteq Nat /\ Generations \subseteq Nat \ {0}
  <1>1. Cardinality(Operations) \in Nat
    BY OperationsAssumption, FS_CardinalityType
  <1> QED  BY <1>1, BoundsAssumption DEF Times, Generations

LEMMA LatestIsThere ==
  ASSUME TypeOK, DOMAIN assessments # {}
  PROVE  LatestAssessment \in DOMAIN assessments
  <1> DEFINE last == MaxClock + Ahead
             S == {last - t : t \in DOMAIN assessments}
  <1>1. DOMAIN assessments \subseteq 0 .. last /\ last \in Nat
    BY Bounds DEF TypeOK, Times
  <1>2. S \in SUBSET Nat /\ S # {}
    BY <1>1
  <1>3. PICK x \in S : \A y \in S : x <= y
    <2> HIDE DEF S
    <2> QED  BY <1>2, LeastNatural
  <1>4. PICK t \in DOMAIN assessments : x = last - t
    BY <1>3
  <1>5. \A u \in DOMAIN assessments : u <= t
    <2> SUFFICES ASSUME NEW u \in DOMAIN assessments PROVE u <= t
      OBVIOUS
    <2>1. x <= last - u
      BY <1>3
    <2> QED  BY <1>1, <1>4, <2>1
  <1> QED  BY <1>4, <1>5 DEF LatestAssessment

---------------------------------------------------------------------------
(* The inductive invariant.                                                *)

(* A command process as it may be.                                         *)
Station ==
  [at: {"idle", "proposing", "executing", "recording", "updating"}, now: 0 .. MaxClock,
   read: Times \cup {-1}, proposal: Times \cup {-1},
   answer: [operation: Operations \cup {None}, state: {None, "converged", "failed"}]]

(* Each change and each operation that was settled makes one generation at *)
(* most.                                                                   *)
Converged == {op \in Operations : settled[op] = "converged"}
Settled == {op \in Operations : settled[op] # None}
GenerationsAreMade ==
  LET made == 1 + changes + Cardinality(Settled) IN
  target.generation <= made /\ target.kept <= made

(* The assessment at t saw the target differ from its receipt.             *)
SawDrift(t) ==
  LET seen == assessments[t].seen IN
  /\ t \in DOMAIN assessments /\ assessments[t].state = "drifted"
  /\ expected # NoReceipt /\ None # seen.content /\ seen.generation # -1 /\ seen # expected
AssessmentsAreTrue ==
  \A t \in DOMAIN assessments : assessments[t].state = "drifted" => SawDrift(t)
ProposalsAnswerDrift ==
  \A t \in DOMAIN proposals :
    /\ SawDrift(proposals[t].assessment)
    /\ proposals[t].generation = assessments[proposals[t].assessment].seen.generation

(* The gate of an operation is for what the proposal at t proposes.        *)
BoundTo(op, t) ==
  /\ op \in Operations /\ t \in DOMAIN proposals
  /\ gates[op] # NoGate
  /\ gates[op].desired = expected.content /\ gates[op].generation = proposals[t].generation

(* An effect that was carried through ended the generation its gate names, *)
(* in the host and in the sidecar, so that there is no other from there.   *)
EffectBound(e) ==
  /\ BoundTo(e.operation, e.proposal) /\ e.from = proposals[e.proposal].generation
  /\ e.operation \in Settled /\ e.content = Content(gates[e.operation])
EffectEnded(e) == e.ended => e.from < target.generation /\ e.from < target.kept
EffectsAreBound == \A e \in effects : EffectBound(e) /\ EffectEnded(e)
EffectsEndGenerations ==
  \A e, f \in effects :
    \/ e.operation = f.operation
    \/ e.ended /\ f.ended /\ e.from = f.from
    => e = f
SettledIsDone ==
  \A op \in Converged :
    \/ gates[op].action = "look"
    \/ \E e \in effects : e.operation = op /\ e.ended /\ e.content = gates[op].desired

ReceiptsAreBound ==
  \A t \in DOMAIN proposals :
    LET r == proposals[t].receipt IN
    r.state = "converged" => r.operation \in Converged /\ BoundTo(r.operation, t)

CommandKnows(k) ==
  /\ k.at = "proposing" => SawDrift(k.read)
  /\ k.at \in {"executing", "recording", "updating"} => BoundTo(k.answer.operation, k.proposal)
  /\ k.at \in {"recording", "updating"} =>
       /\ k.answer.state # None
       /\ k.answer.state = "converged" => k.answer.operation \in Converged
CommandsKnow == \A c \in Clis : CommandKnows(cli[c])

LedgerInv == AssessmentsAreTrue /\ ProposalsAnswerDrift /\ ReceiptsAreBound
EffectsInv == EffectsAreBound /\ EffectsEndGenerations /\ SettledIsDone
ReconciliationInv ==
  /\ TypeOK /\ cli \in [Clis -> Station] /\ GenerationsAreMade
  /\ LedgerInv /\ EffectsInv /\ CommandsKnow

---------------------------------------------------------------------------
(* What is recorded, bound or settled stays so.                            *)
Grows ==
  /\ expected' = expected /\ before' = before
  /\ \A t \in DOMAIN assessments : t \in DOMAIN assessments' /\ assessments'[t] = assessments[t]
  /\ \A t \in DOMAIN proposals :
       /\ t \in DOMAIN proposals' /\ proposals'[t].assessment = proposals[t].assessment
       /\ proposals'[t].generation = proposals[t].generation
  /\ \A op \in Operations : gates[op] # NoGate => gates'[op] = gates[op]
  /\ \A op \in Operations : settled[op] # None => settled'[op] = settled[op]

LEMMA Stable ==
  ASSUME Grows
  PROVE  /\ \A t : SawDrift(t) => SawDrift(t)'
         /\ \A op, t : BoundTo(op, t) => BoundTo(op, t)'
         /\ Converged \subseteq Converged' /\ Settled \subseteq Settled'
         /\ \A e : EffectBound(e) => EffectBound(e)'
         /\ \A k : CommandKnows(k) => CommandKnows(k)'
  <1>1. \A t : SawDrift(t) => SawDrift(t)'
    BY DEF Grows, SawDrift
  <1>2. \A op, t : BoundTo(op, t) => BoundTo(op, t)'
    BY DEF Grows, BoundTo
  <1>3. Converged \subseteq Converged'
    BY DEF Grows, Converged, None
  <1>4. Settled \subseteq Settled'
    BY DEF Grows, Settled
  <1>5. ASSUME NEW e, EffectBound(e) PROVE EffectBound(e)'
    <2>1. /\ BoundTo(e.operation, e.proposal) /\ e.operation \in Settled
          /\ e.operation \in Operations /\ e.proposal \in DOMAIN proposals
          /\ gates[e.operation] # NoGate
      BY <1>5 DEF EffectBound, BoundTo
    <2>2. gates'[e.operation] = gates[e.operation] /\ before' = before
      BY <2>1 DEF Grows
    <2>3. Content(gates[e.operation])' = Content(gates[e.operation])
      BY <2>2 DEF Content
    <2> QED  BY <1>2, <1>4, <1>5, <2>1, <2>3 DEF EffectBound, Grows
  <1> QED  BY <1>1, <1>2, <1>3, <1>4, <1>5 DEF CommandKnows

LEMMA IdleKnows ==
  /\ Idle \in Station /\ CommandKnows(Idle)
  BY Bounds DEF Idle, Station, NoAnswer, CommandKnows

(* What the others know, when one command takes a step.                    *)
LEMMA OneMoves ==
  ASSUME ReconciliationInv, Grows, NEW c \in Clis, NEW k \in Station,
         cli' = [cli EXCEPT ![c] = k], CommandKnows(k)'
  PROVE  cli' \in [Clis -> Station] /\ CommandsKnow'
  <1>1. cli' \in [Clis -> Station]
    BY DEF ReconciliationInv
  <1>2. ASSUME NEW d \in Clis PROVE CommandKnows(cli[d])'
    <2>1. CASE d = c
      <3>1. cli'[d] = k
        BY <2>1 DEF ReconciliationInv
      <3> QED  BY <3>1 DEF CommandKnows
    <2>2. CASE d # c
      <3>1. cli'[d] = cli[d] /\ CommandKnows(cli[d])
        BY <2>2 DEF ReconciliationInv, CommandsKnow
      <3> QED  BY <3>1, Stable DEF CommandKnows
    <2> QED  BY <2>1, <2>2
  <1> QED  BY <1>1, <1>2 DEF CommandsKnow

LEMMA NoneMoves ==
  ASSUME ReconciliationInv, Grows, cli' = cli
  PROVE  cli' \in [Clis -> Station] /\ CommandsKnow'
  BY Stable DEF ReconciliationInv, CommandsKnow, CommandKnows

(* The host and its sidecar are in the next generation, or in the one they *)
(* were in, or back to the one that was kept.                              *)
Onwards ==
  /\ target'.generation \in {target.generation, target.kept, target.generation + 1}
  /\ target'.kept \in {target.kept, target.generation + 1}

LEMMA EndedStays ==
  ASSUME ReconciliationInv, Onwards, NEW e \in effects
  PROVE  EffectEnded(e)'
  <1>1. /\ e.from \in Nat /\ target.generation \in Nat /\ target.kept \in Nat
        /\ EffectEnded(e)
    BY Bounds DEF ReconciliationInv, TypeOK, Target, EffectsInv, EffectsAreBound
  <1> QED  BY <1>1 DEF Onwards, EffectEnded

(* Effects stay bound when there is no new one.                            *)
LEMMA EffectsStay ==
  ASSUME ReconciliationInv, Grows, UNCHANGED <<effects, settled>>, Onwards
  PROVE  EffectsInv'
  <1>1. EffectsAreBound'
    BY EndedStays, Stable DEF ReconciliationInv, EffectsInv, EffectsAreBound
  <1>2. SettledIsDone'
    <2> SUFFICES ASSUME NEW op \in Converged
                 PROVE  \/ gates'[op].action = "look"
                        \/ \E e \in effects : /\ e.operation = op /\ e.ended
                                             /\ e.content = gates'[op].desired
      BY DEF SettledIsDone, Converged
    <2>1. CASE gates[op].action = "look"
      <3>1. op \in Operations /\ gates[op] # NoGate
        BY <2>1 DEF Converged, NoGate, None
      <3> QED  BY <2>1, <3>1 DEF Grows
    <2>2. ASSUME NEW e \in effects, e.operation = op, e.ended, e.content = gates[op].desired
          PROVE  gates'[op] = gates[op]
      BY <2>2 DEF ReconciliationInv, EffectsInv, EffectsAreBound, EffectBound, BoundTo, Grows
    <2> QED  BY <2>1, <2>2 DEF ReconciliationInv, EffectsInv, SettledIsDone
  <1> QED
    BY <1>1, <1>2 DEF ReconciliationInv, EffectsInv, EffectsEndGenerations

LEMMA LedgerStays ==
  ASSUME ReconciliationInv, Grows, UNCHANGED ledger
  PROVE  LedgerInv'
  <1>1. AssessmentsAreTrue'
    BY Stable DEF ReconciliationInv, LedgerInv, AssessmentsAreTrue, ledger
  <1>2. ProposalsAnswerDrift'
    BY DEF ReconciliationInv, LedgerInv, ProposalsAnswerDrift, ledger, SawDrift, Grows
  <1>3. ReceiptsAreBound'
    BY Stable DEF ReconciliationInv, LedgerInv, ReceiptsAreBound, ledger
  <1> QED  BY <1>1, <1>2, <1>3 DEF LedgerInv

(* There are as many generations as there were reasons for one.            *)
LEMMA SubsetsAreFinite ==
  ASSUME NEW S \in SUBSET Operations
  PROVE  IsFiniteSet(S) /\ Cardinality(S) \in Nat /\ Cardinality(S) <= Cardinality(Operations)
  BY OperationsAssumption, FS_Subset, FS_CardinalityType

LEMMA TargetIsTyped ==
  ASSUME ReconciliationInv
  PROVE  /\ target \in Target /\ target.generation \in Nat \ {0} /\ changes \in 0 .. MaxChanges
         /\ target.kept \in Nat \ {0}
         /\ Cardinality(Settled) \in Nat /\ Settled \in SUBSET Operations
         /\ target.generation <= 1 + changes + Cardinality(Settled)
         /\ target.kept <= 1 + changes + Cardinality(Settled)
  <1>1. Settled \in SUBSET Operations
    BY DEF Settled
  <1> QED  BY <1>1, SubsetsAreFinite, Bounds DEF ReconciliationInv, TypeOK, Target, GenerationsAreMade

LEMMA NothingNewGrows ==
  ASSUME UNCHANGED <<expected, before, ledger, gates, settled>>
  PROVE  Grows
  BY DEF Grows, ledger

---------------------------------------------------------------------------
(* The steps that are not a command's.                                     *)
LEMMA QuietKeeps ==
  ASSUME ReconciliationInv, UNCHANGED <<expected, before, ledger, gates, settled, effects, cli>>,
         TypeOK', Onwards, GenerationsAreMade'
  PROVE  ReconciliationInv'
  <1>1. Grows
    BY NothingNewGrows
  <1>2. EffectsInv'
    BY <1>1, EffectsStay
  <1> QED  BY <1>1, <1>2, LedgerStays, NoneMoves DEF ReconciliationInv

LEMMA InspectKeeps ==
  ASSUME ReconciliationInv, NEW ahead \in 0 .. Ahead, NEW readable \in BOOLEAN,
         Inspect(ahead, readable)
  PROVE  ReconciliationInv'
  <1> DEFINE i == [at |-> clock + ahead,
                   seen |-> [content |-> IF readable THEN target.content ELSE None,
                             generation |-> target.reported]]
  <1>1. clock \in 0 .. MaxClock /\ target \in Target /\ inspections \subseteq Inspection
    BY DEF ReconciliationInv, TypeOK
  <1>2. i \in Inspection
    BY <1>1, Bounds DEF Inspection, Observation, Target, Times
  <1>3. inspections' \subseteq Inspection
    BY <1>1, <1>2 DEF Inspect
  <1>4. UNCHANGED <<clock, expected, before, gates, cli, assessments, proposals, target, settled,
                    effects, changes>>
    BY DEF Inspect, ledger, world
  <1>5. TypeOK'
    BY <1>3, <1>4 DEF ReconciliationInv, TypeOK
  <1>6. GenerationsAreMade' /\ Onwards
    BY <1>4, TargetIsTyped DEF GenerationsAreMade, Settled, Onwards
  <1> QED  BY <1>4, <1>5, <1>6, QuietKeeps DEF ledger

LEMMA ChangeKeeps ==
  ASSUME ReconciliationInv, NEW content \in Contents,
         OtherApply(content) \/ ForeignWrite(content) \/ HostRestart
  PROVE  ReconciliationInv'
  <1>1. /\ UNCHANGED <<clock, expected, before, inspections, gates, settled, effects, cli,
                       assessments, proposals>>
        /\ changes < MaxChanges /\ changes' = changes + 1
    BY DEF OtherApply, ForeignWrite, HostRestart, Change, ledger
  <1>2. Cardinality(Settled) <= Cardinality(Operations) /\ Cardinality(Operations) \in Nat
    BY TargetIsTyped, SubsetsAreFinite, Bounds
  <1>3. /\ target' \in [content: Contents, generation: Nat \ {0}, kept: Nat \ {0},
                        reported: Nat \cup {-1}]
        /\ Onwards /\ target'.reported \in {target.reported, target'.generation, -1}
    <2>1. /\ target \in [content: Contents, generation: Nat \ {0}, kept: Nat \ {0},
                         reported: Nat \cup {-1}]
          /\ target.generation + 1 \in Nat \ {0}
      <3>1. /\ target \in Target /\ target.generation \in Nat \ {0}
            /\ Generations \subseteq Nat \ {0}
        BY TargetIsTyped, Bounds
      <3>2. target \in [content: Contents, generation: Nat \ {0}, kept: Nat \ {0},
                         reported: Nat \cup {-1}]
        BY <3>1 DEF Target
      <3>3. target.generation + 1 \in Nat \ {0}
        BY <3>1
      <3> QED  BY <3>2, <3>3
    <2>2. CASE OtherApply(content)
      <3>1. PICK next : next = target.generation + 1
        OBVIOUS
      <3>2. target' = [content |-> content, generation |-> next, kept |-> next, reported |-> next]
        BY <2>2, <3>1 DEF OtherApply
      <3> QED  BY <2>1, <3>1, <3>2 DEF Onwards
    <2>3. CASE ForeignWrite(content)
      BY <2>1, <2>3 DEF ForeignWrite, Onwards
    <2>4. CASE HostRestart
      BY <2>1, <2>4 DEF HostRestart, Onwards
    <2> QED  BY <2>2, <2>3, <2>4
  <1>4. LET made == 1 + changes' + Cardinality(Settled) IN
        target'.generation <= made /\ target'.kept <= made
    BY <1>1, <1>3, TargetIsTyped DEF Onwards
  <1>5. target' \in Target /\ changes' \in 0 .. MaxChanges
    <2>1. target.reported \in Generations \cup {-1}
      BY TargetIsTyped DEF Target
    <2>2. /\ target'.generation \in Generations /\ target'.kept \in Generations
          /\ changes' \in 0 .. MaxChanges
      BY <1>1, <1>2, <1>3, <1>4, TargetIsTyped, Bounds DEF Generations
    <2> QED  BY <1>3, <2>1, <2>2 DEF Target
  <1>6. TypeOK'
    BY <1>1, <1>5 DEF ReconciliationInv, TypeOK
  <1>7. GenerationsAreMade' /\ Onwards
    BY <1>1, <1>3, <1>4 DEF GenerationsAreMade, Settled
  <1> QED  BY <1>1, <1>6, <1>7, QuietKeeps DEF ledger

LEMMA TickKeeps ==
  ASSUME ReconciliationInv, Tick \/ UNCHANGED vars
  PROVE  ReconciliationInv'
  <1>1. UNCHANGED <<expected, before, inspections, gates, cli, assessments, proposals, target, settled,
                    effects, changes>>
    BY DEF Tick, vars, ledger, world
  <1>2. clock' \in 0 .. MaxClock
    BY Bounds DEF Tick, vars, ReconciliationInv, TypeOK
  <1>3. TypeOK'
    BY <1>1, <1>2 DEF ReconciliationInv, TypeOK
  <1>4. GenerationsAreMade' /\ Onwards
    BY <1>1, TargetIsTyped DEF GenerationsAreMade, Settled, Onwards
  <1> QED  BY <1>1, <1>3, <1>4, QuietKeeps DEF ledger

---------------------------------------------------------------------------
(* The ledger's commands.                                                  *)
LEMMA EffectsUndisturbed ==
  ASSUME ReconciliationInv, Grows, UNCHANGED world
  PROVE  EffectsInv' /\ GenerationsAreMade'
  <1>1. UNCHANGED <<target, settled, effects, changes>>
    BY DEF world
  <1>2. EffectsInv'
    BY <1>1, EffectsStay DEF Onwards
  <1> QED  BY <1>1, <1>2, TargetIsTyped DEF GenerationsAreMade, Settled

LEMMA AssessIsTyped ==
  ASSUME TypeOK, NEW i \in inspections
  PROVE  /\ Assess(i) \in [state: DriftStates, seen: Observation]
         /\ Assess(i).state = "drifted" =>
              /\ expected # NoReceipt /\ None # Assess(i).seen.content
              /\ Assess(i).seen.generation # -1 /\ Assess(i).seen # expected
  <1>1. i \in Inspection /\ i.seen \in Observation
    BY DEF TypeOK, Inspection
  <1>2. NoReceipt \in Observation
    BY DEF NoReceipt, Observation
  <1> QED  BY <1>1, <1>2 DEF Assess, DriftStates

LEMMA AssessDriftKeeps ==
  ASSUME ReconciliationInv, NEW i \in inspections, AssessDrift(i)
  PROVE  ReconciliationInv'
  <1>1. /\ TypeOK /\ i.at \notin DOMAIN assessments /\ i.at \in Times
        /\ UNCHANGED <<clock, expected, before, inspections, gates, cli, proposals, world>>
    BY DEF ReconciliationInv, TypeOK, Inspection, AssessDrift
  <1>2. /\ DOMAIN assessments' = DOMAIN assessments \cup {i.at}
        /\ assessments'[i.at] = Assess(i)
        /\ \A t \in DOMAIN assessments : assessments'[t] = assessments[t]
    BY <1>1 DEF AssessDrift
  <1>3. Grows
    BY <1>1, <1>2 DEF Grows, world
  <1>4. TypeOK'
    BY <1>1, <1>2, AssessIsTyped DEF TypeOK, world
  <1>5. LedgerInv'
    <2>1. AssessmentsAreTrue'
      <3> SUFFICES ASSUME NEW t \in DOMAIN assessments', assessments'[t].state = "drifted"
                   PROVE  SawDrift(t)'
        BY DEF AssessmentsAreTrue
      <3>1. CASE t = i.at
        BY <1>1, <1>2, <3>1, AssessIsTyped DEF SawDrift, NoReceipt
      <3>2. CASE t \in DOMAIN assessments
        BY <1>2, <1>3, <3>2, Stable DEF ReconciliationInv, LedgerInv, AssessmentsAreTrue
      <3> QED  BY <1>2, <3>1, <3>2
    <2>2. ProposalsAnswerDrift'
      <3> SUFFICES ASSUME NEW t \in DOMAIN proposals
                   PROVE  /\ SawDrift(proposals[t].assessment)'
                          /\ proposals'[t].generation =
                               assessments'[proposals'[t].assessment].seen.generation
        BY <1>1 DEF ProposalsAnswerDrift
      <3>1. /\ SawDrift(proposals[t].assessment)
            /\ proposals[t].generation = assessments[proposals[t].assessment].seen.generation
        BY DEF ReconciliationInv, LedgerInv, ProposalsAnswerDrift
      <3>2. proposals[t].assessment \in DOMAIN assessments
        BY <3>1 DEF SawDrift
      <3> QED  BY <1>1, <1>2, <3>1, <3>2 DEF SawDrift
    <2>3. ReceiptsAreBound'
      BY <1>1, <1>3, Stable DEF ReconciliationInv, LedgerInv, ReceiptsAreBound
    <2> QED  BY <2>1, <2>2, <2>3 DEF LedgerInv
  <1> QED  BY <1>1, <1>3, <1>4, <1>5, EffectsUndisturbed, NoneMoves DEF ReconciliationInv

(* What TypeOK says of the commands follows from what they know.           *)
CommandsAreTyped ==
  \A c \in Clis :
    /\ cli[c].at \in {"idle", "proposing", "executing", "recording", "updating"}
    /\ cli[c].at = "proposing" => cli[c].read \in DOMAIN assessments
    /\ cli[c].at \in {"recording", "updating"} => cli[c].answer \in Receipt

LEMMA CommandsKnowTypes ==
  ASSUME cli' \in [Clis -> Station], CommandsKnow'
  PROVE  CommandsAreTyped'
  <1> SUFFICES ASSUME NEW c \in Clis, NEW k, k = cli'[c]
               PROVE  /\ k.at \in {"idle", "proposing", "executing", "recording", "updating"}
                      /\ k.at = "proposing" => k.read \in DOMAIN assessments'
                      /\ k.at \in {"recording", "updating"} => k.answer \in Receipt
    BY DEF CommandsAreTyped
  <1>1. k \in Station /\ CommandKnows(k)'
    BY DEF CommandsKnow, CommandKnows
  <1>2. k.at = "proposing" => k.read \in DOMAIN assessments'
    BY <1>1 DEF CommandKnows, SawDrift
  <1>3. ASSUME k.at \in {"recording", "updating"} PROVE k.answer \in Receipt
    <2>1. k.answer.operation \in Operations /\ k.answer.state # None
      BY <1>1, <1>3 DEF CommandKnows, BoundTo
    <2> QED  BY <1>1, <2>1 DEF Station, Receipt
  <1> QED  BY <1>1, <1>2, <1>3 DEF Station

(* A command that writes no row.                                           *)
LEMMA LedgerKept ==
  ASSUME ReconciliationInv, NEW c \in Clis, NEW k \in Station,
         UNCHANGED <<clock, expected, before, inspections, gates, ledger, world>>,
         cli' = [cli EXCEPT ![c] = k], CommandKnows(k)
  PROVE  ReconciliationInv'
  <1>1. Grows
    BY NothingNewGrows DEF world
  <1>2. UNCHANGED <<assessments, proposals, target, settled, effects, changes>>
    BY DEF ledger, world
  <1>3. CommandKnows(k)'
    BY <1>1, Stable
  <1>4. cli' \in [Clis -> Station] /\ CommandsKnow'
    BY <1>1, <1>3, OneMoves
  <1>5. CommandsAreTyped'
    BY <1>4, CommandsKnowTypes
  <1>6. TypeOK'
    BY <1>2, <1>5 DEF ReconciliationInv, TypeOK, CommandsAreTyped
  <1> QED  BY <1>1, <1>4, <1>6, LedgerStays, EffectsUndisturbed DEF ReconciliationInv

LEMMA ProposeKeeps ==
  ASSUME ReconciliationInv, NEW c \in Clis, NEW class \in Classes, Propose(c, class)
  PROVE  ReconciliationInv'
  <1>1. TypeOK /\ LatestAssessment \in DOMAIN assessments /\ LatestAssessment \in Times
    <2>1. TypeOK /\ DOMAIN assessments # {}
      BY DEF Propose, ReconciliationInv
    <2> QED  BY <2>1, LatestIsThere DEF TypeOK
  <1>2. SawDrift(LatestAssessment)
    <2>1. assessments[LatestAssessment].state = "drifted"
      BY DEF Propose, Valid, Proposal
    <2> QED  BY <1>1, <2>1 DEF ReconciliationInv, LedgerInv, AssessmentsAreTrue
  <1>3. PICK k : k = [Idle EXCEPT !.at = "proposing", !.now = clock, !.read = LatestAssessment]
    OBVIOUS
  <1>4. UNCHANGED <<clock, expected, before, inspections, gates, ledger, world>> /\ cli' = [cli EXCEPT ![c] = k]
    BY <1>3 DEF Propose
  <1>5. k \in Station /\ k.at = "proposing" /\ k.read = LatestAssessment
    BY <1>1, <1>3 DEF Idle, Station, NoAnswer, TypeOK
  <1>6. CommandKnows(k)
    BY <1>2, <1>5 DEF CommandKnows
  <1> QED  BY <1>4, <1>5, <1>6, LedgerKept

LEMMA RevalidateKeeps ==
  ASSUME ReconciliationInv, NEW c \in Clis, Revalidate(c) \/ Crash(c)
  PROVE  ReconciliationInv'
  <1>1. cli[c] \in Station /\ CommandKnows(cli[c])
    BY DEF ReconciliationInv, CommandsKnow
  <1>2. PICK k : /\ cli' = [cli EXCEPT ![c] = k]
                 /\ \/ k = Idle
                    \/ cli[c].at = "recording" /\ k = [cli[c] EXCEPT !.at = "updating"]
    BY DEF Revalidate, Crash
  <1>3. k \in Station /\ CommandKnows(k)
    <2>1. CASE k = Idle
      BY <2>1, IdleKnows
    <2>2. CASE cli[c].at = "recording" /\ k = [cli[c] EXCEPT !.at = "updating"]
      BY <1>1, <2>2 DEF Station, CommandKnows
    <2> QED  BY <1>2, <2>1, <2>2
  <1>4. UNCHANGED <<clock, expected, before, inspections, gates, ledger, world>>
    BY DEF Revalidate, Crash
  <1> QED  BY <1>2, <1>3, <1>4, LedgerKept

LEMMA InsertProposalKeeps ==
  ASSUME ReconciliationInv, NEW c \in Clis, InsertProposal(c)
  PROVE  ReconciliationInv'
  <1>1. /\ cli[c] \in Station /\ CommandKnows(cli[c]) /\ TypeOK
        /\ UNCHANGED <<clock, expected, before, inspections, gates, assessments, world>>
        /\ cli' = [cli EXCEPT ![c] = Idle]
    BY DEF ReconciliationInv, CommandsKnow, InsertProposal
  <1>2. PICK now, read : now = cli[c].now /\ read = cli[c].read
    OBVIOUS
  <1>3. /\ SawDrift(read) /\ read \in DOMAIN assessments /\ now \in Times
        /\ assessments[read].seen.generation \in Generations
    <2>1. SawDrift(read) /\ read \in DOMAIN assessments
      BY <1>1, <1>2 DEF InsertProposal, CommandKnows, SawDrift
    <2>2. now \in 0 .. MaxClock
      BY <1>1, <1>2 DEF Station
    <2> QED  BY <1>1, <2>1, <2>2, Bounds DEF SawDrift, TypeOK, Observation, Times
  <1>4. \/ proposals' = proposals
        \/ /\ now \notin DOMAIN proposals
           /\ proposals' = [t \in DOMAIN proposals \cup {now} |->
                               IF t = now THEN Proposal(read) ELSE proposals[t]]
    BY <1>2 DEF InsertProposal
  <1>5. /\ DOMAIN proposals \subseteq DOMAIN proposals'
        /\ DOMAIN proposals' \subseteq DOMAIN proposals \cup {now}
        /\ \A t \in DOMAIN proposals : proposals'[t] = proposals[t]
        /\ \A t \in DOMAIN proposals' : t \notin DOMAIN proposals => proposals'[t] = Proposal(read)
    BY <1>4
  <1>6. Grows
    BY <1>1, <1>5 DEF Grows, world
  <1>7. LedgerInv'
    <2>1. AssessmentsAreTrue'
      BY <1>1 DEF ReconciliationInv, LedgerInv, AssessmentsAreTrue, SawDrift
    <2>2. ProposalsAnswerDrift'
      BY <1>1, <1>3, <1>5 DEF ReconciliationInv, LedgerInv, ProposalsAnswerDrift, SawDrift, Proposal
    <2>3. ReceiptsAreBound'
      <3> SUFFICES ASSUME NEW t \in DOMAIN proposals', proposals'[t].receipt.state = "converged"
                   PROVE  /\ proposals'[t].receipt.operation \in Converged'
                          /\ \A op : op = proposals'[t].receipt.operation => BoundTo(op, t)'
        BY DEF ReceiptsAreBound
      <3>1. t \in DOMAIN proposals
        BY <1>5 DEF Proposal, NoAnswer, None
      <3>2. /\ proposals'[t] = proposals[t] /\ proposals[t].receipt.operation \in Converged
            /\ BoundTo(proposals[t].receipt.operation, t)
        BY <1>5, <3>1 DEF ReconciliationInv, LedgerInv, ReceiptsAreBound
      <3> QED  BY <1>6, <3>2, Stable
    <2> QED  BY <2>1, <2>2, <2>3 DEF LedgerInv
  <1>8. cli' \in [Clis -> Station] /\ CommandsKnow' /\ CommandsAreTyped'
    <2>1. CommandKnows(Idle)'
      BY DEF CommandKnows, Idle
    <2>2. cli' \in [Clis -> Station] /\ CommandsKnow'
      BY <1>1, <1>6, <2>1, IdleKnows, OneMoves
    <2> QED  BY <2>2, CommandsKnowTypes
  <1>9. TypeOK'
    <2>1. \A t \in DOMAIN proposals' :
            proposals'[t] \in [assessment: DOMAIN assessments', generation: Generations,
                               receipt: Receipt \cup {NoAnswer}]
      <3>1. Proposal(read) \in [assessment: DOMAIN assessments, generation: Generations,
                                receipt: Receipt \cup {NoAnswer}]
        BY <1>3 DEF Proposal
      <3> QED  BY <1>1, <1>5, <3>1 DEF TypeOK
    <2>2. DOMAIN proposals' \subseteq Times
      BY <1>1, <1>3, <1>5 DEF TypeOK
    <2>3. effects' \subseteq [operation: Operations, proposal: DOMAIN proposals', from: Generations,
                                  content: Contents, ended: BOOLEAN]
      BY <1>1, <1>5 DEF TypeOK, world
    <2> QED  BY <1>1, <1>8, <2>1, <2>2, <2>3 DEF TypeOK, world, CommandsAreTyped
  <1> QED  BY <1>1, <1>6, <1>7, <1>8, <1>9, EffectsUndisturbed DEF ReconciliationInv

LEMMA ReconcileKeeps ==
  ASSUME ReconciliationInv, NEW c \in Clis, NEW at \in DOMAIN proposals, NEW op \in Operations,
         NEW g \in Signed(op), Reconcile(c, at, op, g)
  PROVE  ReconciliationInv'
  <1>1. /\ TypeOK /\ clock \in 0 .. MaxClock /\ at \in Times
        /\ UNCHANGED <<clock, expected, before, inspections, ledger, world>>
        /\ gates' = [gates EXCEPT ![op] = g] /\ gates[op] \in {NoGate, g}
        /\ g.desired = expected.content /\ g.generation = proposals[at].generation
    BY DEF Reconcile, ReconciliationInv, TypeOK, Bound, Signed
  <1>2. g \in Gate /\ g # NoGate
    <2>1. target.generation \in Generations
      BY TargetIsTyped DEF Target
    <2>2. 1 .. target.generation \subseteq Generations
      BY <2>1, Bounds DEF Generations
    <2>3. /\ g \in [action: Actions, desired: Contents, generation: 1 .. target.generation,
                    until: clock .. (clock + GateLife)]
          /\ clock .. (clock + GateLife) \subseteq Nat
      BY <1>1, Bounds, OperationsAssumption DEF Signed
    <2>4. g.generation # -1
      BY <2>1, <2>3, Bounds
    <2> QED  BY <2>2, <2>3, <2>4 DEF Gate, NoGate
  <1>3. gates' \in [Operations -> Gate \cup {NoGate}]
    BY <1>1, <1>2 DEF TypeOK
  <1>4. Grows
    BY <1>1 DEF Grows, ledger, world, TypeOK
  <1>5. PICK k : k = [Idle EXCEPT !.at = "executing", !.now = clock, !.proposal = at,
                                  !.answer = [operation |-> op, state |-> None]]
    OBVIOUS
  <1>6. /\ k \in Station /\ k.at = "executing" /\ k.answer.operation = op /\ k.proposal = at
        /\ cli' = [cli EXCEPT ![c] = k]
    BY <1>1, <1>5 DEF Station, Idle, Reconcile
  <1>7. CommandKnows(k)'
    <2>1. gates'[op] = g /\ proposals' = proposals /\ expected' = expected
      BY <1>1 DEF ledger, TypeOK
    <2>2. BoundTo(op, at)'
      BY <1>1, <1>2, <2>1 DEF BoundTo
    <2> QED  BY <1>6, <2>2 DEF CommandKnows
  <1>8. cli' \in [Clis -> Station] /\ CommandsKnow' /\ CommandsAreTyped'
    BY <1>4, <1>6, <1>7, OneMoves, CommandsKnowTypes
  <1>9. TypeOK'
    BY <1>1, <1>3, <1>8 DEF TypeOK, ledger, world, CommandsAreTyped
  <1> QED  BY <1>1, <1>4, <1>8, <1>9, LedgerStays, EffectsUndisturbed DEF ReconciliationInv

(* A converged receipt is stored for an operation that has converged.      *)
LEMMA StoreReceiptKeeps ==
  ASSUME ReconciliationInv, NEW c \in Clis, StoreReceipt(c)
  PROVE  ReconciliationInv'
  <1>1. /\ cli[c] \in Station /\ CommandKnows(cli[c]) /\ TypeOK /\ cli[c].answer \in Receipt
        /\ UNCHANGED <<clock, expected, before, inspections, gates, assessments, world>>
        /\ cli' = [cli EXCEPT ![c] = Idle]
    BY DEF ReconciliationInv, TypeOK, CommandsKnow, StoreReceipt
  <1>2. PICK at, r : at = cli[c].proposal /\ r = cli[c].answer
    OBVIOUS
  <1>3. /\ at \in DOMAIN proposals /\ BoundTo(r.operation, at)
        /\ r \in Receipt /\ (r.state = "converged" => r.operation \in Converged)
    BY <1>1, <1>2 DEF StoreReceipt, CommandKnows, BoundTo
  <1>4. /\ DOMAIN proposals' = DOMAIN proposals
        /\ \A t \in DOMAIN proposals :
             \/ proposals'[t] = proposals[t]
             \/ t = at /\ proposals'[t] = [proposals[t] EXCEPT !.receipt = @]
             \/ t = at /\ proposals'[t] = [proposals[t] EXCEPT !.receipt = r]
    <2>1. PICK kept, now : kept = proposals[at].receipt /\ now = IF kept = NoAnswer THEN r ELSE kept
      OBVIOUS
    <2>2. proposals' = [proposals EXCEPT ![at] = [proposals[at] EXCEPT !.receipt = now]]
      BY <1>2, <2>1 DEF StoreReceipt
    <2> QED  BY <1>3, <2>1, <2>2
  <1>5. ASSUME NEW t \in DOMAIN proposals
        PROVE  /\ proposals'[t] \in [assessment: DOMAIN assessments, generation: Generations,
                                     receipt: Receipt \cup {NoAnswer}]
               /\ proposals'[t].assessment = proposals[t].assessment
               /\ proposals'[t].generation = proposals[t].generation
               /\ \/ proposals'[t].receipt = proposals[t].receipt
                  \/ t = at /\ proposals'[t].receipt = r
    BY <1>1, <1>3, <1>4 DEF TypeOK
  <1>6. Grows
    BY <1>1, <1>4, <1>5 DEF Grows, world
  <1>7. LedgerInv'
    <2>1. AssessmentsAreTrue'
      BY <1>1 DEF ReconciliationInv, LedgerInv, AssessmentsAreTrue, SawDrift
    <2>2. ProposalsAnswerDrift'
      BY <1>1, <1>4, <1>5 DEF ReconciliationInv, LedgerInv, ProposalsAnswerDrift, SawDrift
    <2>3. ReceiptsAreBound'
      <3> SUFFICES ASSUME NEW t \in DOMAIN proposals', NEW a, a = proposals'[t].receipt,
                          a.state = "converged"
                   PROVE  a.operation \in Converged' /\ BoundTo(a.operation, t)'
        BY DEF ReceiptsAreBound
      <3>1. t \in DOMAIN proposals /\ (a = proposals[t].receipt \/ (t = at /\ a = r))
        BY <1>4, <1>5
      <3>2. a.operation \in Converged /\ BoundTo(a.operation, t)
        BY <1>3, <3>1 DEF ReconciliationInv, LedgerInv, ReceiptsAreBound
      <3> QED  BY <1>6, <3>2, Stable
    <2> QED  BY <2>1, <2>2, <2>3 DEF LedgerInv
  <1>8. cli' \in [Clis -> Station] /\ CommandsKnow' /\ CommandsAreTyped'
    <2>1. CommandKnows(Idle)'
      BY DEF CommandKnows, Idle
    <2>2. cli' \in [Clis -> Station] /\ CommandsKnow'
      BY <1>1, <1>6, <2>1, IdleKnows, OneMoves
    <2> QED  BY <2>2, CommandsKnowTypes
  <1>9. TypeOK'
    BY <1>1, <1>4, <1>5, <1>8 DEF TypeOK, world, CommandsAreTyped
  <1> QED  BY <1>1, <1>6, <1>7, <1>8, <1>9, EffectsUndisturbed DEF ReconciliationInv

---------------------------------------------------------------------------
(* The executor.                                                           *)

(* What every way to carry an operation out does to the target, and what   *)
(* the two that change it leave in the history.                            *)
Outcome(op, g, at, state, e) ==
  /\ e = [operation |-> op, proposal |-> at, from |-> target.generation, content |-> Content(g),
          ended |-> e.ended]
  /\ e.ended \in BOOLEAN
  /\ \/ effects' = effects /\ (state = "converged" => g.action = "look")
     \/ /\ effects' = effects \cup {e} /\ g.generation = target.generation
        /\ state = "converged" => e.ended /\ Content(g) = g.desired
        /\ e.ended => target'.generation = target.generation + 1
                       /\ target'.kept = target.generation + 1

LEMMA CarryLeaves ==
  ASSUME ReconciliationInv, NEW c \in Clis, Carry(c), NEW op \in Operations, NEW g \in Gate, NEW at,
         op = cli[c].answer.operation, g = gates[op], at = cli[c].proposal
  PROVE  /\ changes' = changes /\ settled[op] = None /\ Onwards
         /\ target' \in [content: Contents, generation: Nat, kept: Nat, reported: Nat \cup {-1}]
         /\ target'.reported \in {target.reported, target.generation, target'.generation}
         /\ \E state \in {"converged", "failed"} :
              settled' = [settled EXCEPT ![op] = state] /\ \E e : Outcome(op, g, at, state, e)
  <1>1. PICK n : n = target.generation
    OBVIOUS
  <1>2. /\ target \in [content: Contents, generation: Nat, kept: Nat, reported: Nat \cup {-1}]
        /\ g.desired \in Contents /\ Content(g) \in Contents /\ n \in Nat
        /\ g.generation \in Nat
    BY <1>1, Bounds DEF ReconciliationInv, TypeOK, Target, Gate, Content
  <1>3. PICK state \in {"converged", "failed"} :
          /\ settled' = [settled EXCEPT ![op] = state] /\ settled[op] = None /\ changes' = changes
          /\ \E ended \in BOOLEAN :
               LET e == [operation |-> op, proposal |-> at, from |-> n, content |-> Content(g),
                         ended |-> ended] IN
               \/ (Looks(g, state) \/ Stays(g, state)) /\ effects' = effects
               \/ ended /\ Ends(g, state) /\ effects' = effects \cup {e}
               \/ ~ended /\ Leaves(g, state) /\ effects' = effects \cup {e}
    BY <1>1 DEF Carry
  <1>4. PICK e :
          /\ e = [operation |-> op, proposal |-> at, from |-> n, content |-> Content(g),
                  ended |-> e.ended]
          /\ e.ended \in BOOLEAN
          /\ \/ (Looks(g, state) \/ Stays(g, state)) /\ effects' = effects
             \/ e.ended /\ Ends(g, state) /\ effects' = effects \cup {e}
             \/ ~e.ended /\ Leaves(g, state) /\ effects' = effects \cup {e}
    <2>1. PICK ended \in BOOLEAN :
            LET e == [operation |-> op, proposal |-> at, from |-> n, content |-> Content(g),
                      ended |-> ended] IN
            \/ (Looks(g, state) \/ Stays(g, state)) /\ effects' = effects
            \/ ended /\ Ends(g, state) /\ effects' = effects \cup {e}
            \/ ~ended /\ Leaves(g, state) /\ effects' = effects \cup {e}
      BY <1>3
    <2>2. PICK e : e = [operation |-> op, proposal |-> at, from |-> n, content |-> Content(g),
                        ended |-> ended]
      OBVIOUS
    <2> QED  BY <2>1, <2>2
  <1>5. CASE (Looks(g, state) \/ Stays(g, state)) /\ effects' = effects
    <2>1. PICK r \in {target.reported, n} : target' = [target EXCEPT !.reported = r]
      BY <1>1, <1>5 DEF Looks, Stays
    <2>2. /\ target' \in [content: Contents, generation: Nat, kept: Nat, reported: Nat \cup {-1}]
          /\ Onwards /\ target'.reported \in {target.reported, target.generation}
      BY <1>1, <1>2, <2>1 DEF Onwards
    <2>3. state = "converged" => g.action = "look"
      BY <1>5 DEF Looks, Stays
    <2> QED  BY <1>1, <1>3, <1>4, <1>5, <2>2, <2>3 DEF Outcome
  <1>6. CASE e.ended /\ Ends(g, state) /\ effects' = effects \cup {e}
    <2>1. /\ target' = [content |-> Content(g), generation |-> n + 1, kept |-> n + 1,
                        reported |-> n + 1]
          /\ g.generation = n /\ (state = "converged" => Content(g) = g.desired)
      BY <1>1, <1>6 DEF Ends
    <2>2. /\ target' \in [content: Contents, generation: Nat, kept: Nat, reported: Nat \cup {-1}]
          /\ Onwards /\ target'.reported = target'.generation
          /\ target'.generation = n + 1 /\ target'.kept = n + 1
      BY <1>1, <1>2, <2>1 DEF Onwards
    <2> QED  BY <1>1, <1>3, <1>4, <1>6, <2>1, <2>2 DEF Outcome
  <1>7. CASE ~e.ended /\ Leaves(g, state) /\ effects' = effects \cup {e}
    <2>1. PICK generation \in {n, n + 1}, r \in {target.reported, n} :
            target' = [target EXCEPT !.content = Content(g), !.generation = generation, !.reported = r]
      <3> HIDE DEF Content
      <3>1. n + 1 \in Nat /\ g.generation = n
        BY <1>1, <1>2, <1>7 DEF Leaves
      <3>2. PICK generation \in {g.generation, IF g.action = "rollback" THEN g.generation + 1
                                              ELSE g.generation},
                 r \in {target.reported, g.generation} :
              target' = [target EXCEPT !.content = Content(g), !.generation = generation,
                                       !.reported = r]
        BY <1>7, Zenon DEF Leaves
      <3>3. generation \in {n, n + 1} /\ r \in {target.reported, n}
        BY <3>1, <3>2
      <3> QED  BY <3>2, <3>3
    <2>2. g.generation = n /\ state # "converged"
      BY <1>1, <1>7 DEF Leaves
    <2>3. /\ target' \in [content: Contents, generation: Nat, kept: Nat, reported: Nat \cup {-1}]
          /\ Onwards /\ target'.reported \in {target.reported, target.generation}
      <3>1. /\ target'.content = Content(g) /\ target'.generation = generation
            /\ target'.kept = target.kept /\ target'.reported = r
            /\ target' = [content |-> Content(g), generation |-> generation, kept |-> target.kept,
                          reported |-> r]
        BY <1>2, <2>1
      <3>2. generation \in Nat /\ target.kept \in Nat /\ r \in Nat \cup {-1}
        BY <1>2, <2>1
      <3>3. Onwards /\ r \in {target.reported, target.generation}
        BY <1>1, <2>1, <3>1 DEF Onwards
      <3>4. target' \in [content: Contents, generation: Nat, kept: Nat, reported: Nat \cup {-1}]
        <4> HIDE DEF Content
        <4> QED  BY <1>2, <3>1, <3>2
      <3> QED  BY <3>1, <3>3, <3>4
    <2> QED  BY <1>1, <1>3, <1>4, <1>7, <2>2, <2>3 DEF Outcome
  <1> QED  BY <1>4, <1>5, <1>6, <1>7

(* An operation that is carried out: its gate names the generation that is *)
(* there, which every effect that was carried through so far has ended one *)
(* of.                                                                     *)
LEMMA CarryKeeps ==
  ASSUME ReconciliationInv, NEW c \in Clis, cli[c].at = "executing", Carry(c),
         UNCHANGED <<clock, expected, before, inspections, gates, ledger>>
  PROVE  /\ Grows /\ EffectsInv' /\ GenerationsAreMade'
         /\ target' \in Target /\ settled' \in [Operations -> {None, "converged", "failed"}]
         /\ effects' \subseteq [operation: Operations, proposal: DOMAIN proposals, from: Generations,
                                content: Contents, ended: BOOLEAN]
         /\ changes' = changes /\ settled'[cli[c].answer.operation] # None
  <1>1. PICK op, at, g : op = cli[c].answer.operation /\ at = cli[c].proposal /\ g = gates[op]
    OBVIOUS
  <1>2. /\ TypeOK /\ BoundTo(op, at) /\ op \in Operations /\ at \in DOMAIN proposals /\ g \in Gate
        /\ g.generation = proposals[at].generation
    BY <1>1 DEF ReconciliationInv, CommandsKnow, CommandKnows, BoundTo, TypeOK
  <1>3. /\ changes' = changes /\ settled[op] = None /\ Onwards
        /\ target' \in [content: Contents, generation: Nat, kept: Nat, reported: Nat \cup {-1}]
        /\ target'.reported \in {target.reported, target.generation, target'.generation}
        /\ \E state \in {"converged", "failed"} :
             settled' = [settled EXCEPT ![op] = state] /\ \E e : Outcome(op, g, at, state, e)
    BY <1>1, <1>2, CarryLeaves
  <1>4. PICK state \in {"converged", "failed"} :
          settled' = [settled EXCEPT ![op] = state] /\ \E e : Outcome(op, g, at, state, e)
    BY <1>3
  <1>5. PICK e : Outcome(op, g, at, state, e)
    BY <1>4
  <1>6. /\ settled' \in [Operations -> {None, "converged", "failed"}] /\ settled'[op] = state
        /\ \A o \in Operations : o # op => settled'[o] = settled[o]
    BY <1>2, <1>4 DEF TypeOK
  <1>7. Grows
    BY <1>2, <1>3, <1>6 DEF Grows, ledger
  <1>8. /\ Settled' = Settled \cup {op} /\ op \notin Settled
        /\ state = "failed" => Converged' = Converged
        /\ Converged' \subseteq Converged \cup {op} /\ op \notin Converged
    BY <1>2, <1>3, <1>6 DEF Settled, Converged, None
  <1>9. /\ Cardinality(Settled') = Cardinality(Settled) + 1
        /\ Cardinality(Settled') <= Cardinality(Operations)
    <2>1. Settled \in SUBSET Operations /\ Settled' \in SUBSET Operations
      BY DEF Settled
    <2>2. Cardinality(Settled \cup {op}) = Cardinality(Settled) + 1
      BY <1>8, <2>1, SubsetsAreFinite, FS_AddElement
    <2> QED  BY <1>8, <2>1, <2>2, SubsetsAreFinite
  <1>10. /\ GenerationsAreMade' /\ target'.generation \in Nat \ {0} /\ target'.kept \in Nat \ {0}
         /\ target'.generation \in Generations /\ target'.kept \in Generations
    <2>1. target'.generation \in Nat \ {0} /\ target'.kept \in Nat \ {0}
      BY <1>3, TargetIsTyped DEF Onwards
    <2>2. LET made == 1 + changes' + Cardinality(Settled') IN
          target'.generation <= made /\ target'.kept <= made
      BY <1>3, <1>9, TargetIsTyped DEF Onwards
    <2> QED  BY <1>3, <1>9, <2>1, <2>2, TargetIsTyped, Bounds DEF GenerationsAreMade, Generations
  <1>11. target' \in Target
    <2>1. target'.reported \in Generations \cup {-1}
      BY <1>3, <1>10, TargetIsTyped DEF Target
    <2> QED  BY <1>3, <1>10, <2>1 DEF Target
  <1>12. ASSUME NEW f \in effects PROVE f.operation # op /\ EffectBound(f)' /\ EffectEnded(f)'
    <2>1. EffectBound(f) /\ f.operation \in Settled
      BY DEF ReconciliationInv, EffectsInv, EffectsAreBound, EffectBound
    <2> QED  BY <1>3, <1>7, <1>8, <2>1, EndedStays, Stable
  <1>13. ASSUME NEW o \in Converged
         PROVE  \/ gates'[o].action = "look"
                \/ \E f \in effects : f.operation = o /\ f.ended /\ f.content = gates'[o].desired
    BY DEF ReconciliationInv, EffectsInv, SettledIsDone
  <1>14. CASE effects' = effects /\ (state = "converged" => g.action = "look")
    <2>1. EffectsAreBound' /\ EffectsEndGenerations'
      BY <1>12, <1>14 DEF ReconciliationInv, EffectsInv, EffectsAreBound, EffectsEndGenerations
    <2>2. SettledIsDone'
      BY <1>1, <1>8, <1>13, <1>14 DEF SettledIsDone
    <2>3. effects' \subseteq [operation: Operations, proposal: DOMAIN proposals, from: Generations,
                              content: Contents, ended: BOOLEAN]
      BY <1>2, <1>14 DEF TypeOK
    <2> QED  BY <1>1, <1>3, <1>6, <1>7, <1>10, <1>11, <2>1, <2>2, <2>3 DEF EffectsInv, None
  <1>15. CASE /\ effects' = effects \cup {e} /\ g.generation = target.generation
              /\ state = "converged" => e.ended /\ Content(g) = g.desired
              /\ e.ended => target'.generation = target.generation + 1
                             /\ target'.kept = target.generation + 1
    <2>1. /\ e.operation = op /\ e.proposal = at /\ e.from = target.generation
          /\ e.content = Content(g) /\ e.ended \in BOOLEAN
      <3>1. /\ e = [operation |-> op, proposal |-> at, from |-> target.generation,
                    content |-> Content(g), ended |-> e.ended]
            /\ e.ended \in BOOLEAN
        BY <1>5 DEF Outcome
      <3> QED  BY <3>1
    <2>2. EffectBound(e)' /\ EffectEnded(e)'
      <3>1. BoundTo(op, at)' /\ Content(g)' = Content(g) /\ op \in Settled'
        BY <1>2, <1>7, <1>8, Stable DEF Content
      <3>2. EffectBound(e)'
        BY <1>1, <1>2, <1>15, <2>1, <3>1 DEF EffectBound, ledger, Content
      <3>3. EffectEnded(e)'
        BY <1>15, <2>1, TargetIsTyped DEF EffectEnded
      <3> QED  BY <3>2, <3>3
    <2>3. EffectsAreBound'
      BY <1>12, <1>15, <2>2 DEF EffectsAreBound
    <2>4. EffectsEndGenerations'
      <3>1. \A f \in effects : f.ended => f.from # e.from
        BY <2>1, TargetIsTyped, Bounds
           DEF ReconciliationInv, EffectsInv, EffectsAreBound, EffectEnded, TypeOK
      <3> QED  BY <1>12, <1>15, <2>1, <3>1 DEF ReconciliationInv, EffectsInv, EffectsEndGenerations
    <2>5. SettledIsDone'
      BY <1>1, <1>4, <1>8, <1>13, <1>15, <2>1 DEF SettledIsDone
    <2>6. effects' \subseteq [operation: Operations, proposal: DOMAIN proposals, from: Generations,
                              content: Contents, ended: BOOLEAN]
      <3>1. Content(g) \in Contents /\ target.generation \in Generations
        BY <1>2, TargetIsTyped DEF Content, Gate, Target, TypeOK
      <3>2. e \in [operation: Operations, proposal: DOMAIN proposals, from: Generations,
                   content: Contents, ended: BOOLEAN]
        BY <1>2, <1>5, <2>1, <3>1 DEF Outcome
      <3> QED  BY <1>2, <1>15, <3>2 DEF TypeOK
    <2> QED  BY <1>1, <1>3, <1>6, <1>7, <1>10, <1>11, <2>3, <2>4, <2>5, <2>6 DEF EffectsInv, None
  <1> QED  BY <1>5, <1>14, <1>15 DEF Outcome

(* The first submission, a duplicate, or neither reaches the executor.     *)
LEMMA ExecuteKeeps ==
  ASSUME ReconciliationInv, NEW c \in Clis, Execute(c)
  PROVE  ReconciliationInv'
  <1>1. PICK k : k = cli[c]
    OBVIOUS
  <1>2. PICK op : op = k.answer.operation
    OBVIOUS
  <1>3. /\ TypeOK /\ k.at = "executing" /\ k \in Station /\ BoundTo(op, k.proposal)
        /\ op \in Operations /\ UNCHANGED <<clock, expected, before, inspections, gates, ledger>>
    BY <1>1, <1>2 DEF ReconciliationInv, CommandsKnow, CommandKnows, BoundTo, Execute
  <1>4. /\ Grows /\ EffectsInv' /\ GenerationsAreMade'
        /\ target' \in Target /\ settled' \in [Operations -> {None, "converged", "failed"}]
        /\ effects' \subseteq [operation: Operations, proposal: DOMAIN proposals, from: Generations,
                                content: Contents, ended: BOOLEAN]
        /\ changes' = changes
    <2>1. CASE Carry(c)
      BY <1>1, <1>3, <2>1, CarryKeeps
    <2>2. CASE UNCHANGED world
      <3>1. Grows
        BY <1>3, <2>2, NothingNewGrows DEF world
      <3> QED  BY <1>3, <2>2, <3>1, EffectsUndisturbed DEF TypeOK, world
    <2> QED  BY <2>1, <2>2 DEF Execute
  <1>5. PICK state \in {None, "converged", "failed"} :
          Answer(c, state) /\ (state = "converged" => settled'[op] = "converged")
    BY <1>1, <1>2, <1>3, <1>4 DEF Execute, TypeOK, world, None
  <1>6. PICK j : /\ cli' = [cli EXCEPT ![c] = j]
                 /\ j = IF state = None THEN Idle
                        ELSE [k EXCEPT !.at = "recording", !.answer.state = state]
    BY <1>1, <1>5 DEF Answer, ReconciliationInv
  <1>7. j \in Station /\ CommandKnows(j)'
    <2>1. CASE state = None
      BY <1>6, <2>1, IdleKnows DEF CommandKnows, Idle
    <2>2. CASE state # None
      <3>1. /\ j \in Station /\ j.at = "recording" /\ j.proposal = k.proposal
            /\ j.answer.operation = op /\ j.answer.state = state
        BY <1>2, <1>3, <1>6, <2>2 DEF Station
      <3>2. BoundTo(op, k.proposal)' /\ (state = "converged" => op \in Converged')
        BY <1>3, <1>4, <1>5, Stable DEF Converged
      <3> QED  BY <2>2, <3>1, <3>2 DEF CommandKnows
    <2> QED  BY <2>1, <2>2
  <1>8. cli' \in [Clis -> Station] /\ CommandsKnow' /\ CommandsAreTyped'
    BY <1>4, <1>6, <1>7, OneMoves, CommandsKnowTypes
  <1>9. TypeOK'
    BY <1>3, <1>4, <1>8 DEF TypeOK, ledger, CommandsAreTyped
  <1> QED  BY <1>3, <1>4, <1>8, <1>9, LedgerStays DEF ReconciliationInv

---------------------------------------------------------------------------
LEMMA Initially ==
  Init => ReconciliationInv
  <1> SUFFICES ASSUME Init PROVE ReconciliationInv
    OBVIOUS
  <1>1. Cardinality(Settled) \in Nat /\ 1 \in Generations
    <2>1. Settled \in SUBSET Operations
      BY DEF Settled
    <2> QED  BY <2>1, SubsetsAreFinite, Bounds DEF Generations
  <1>2. /\ clock = 0 /\ changes = 0 /\ inspections = {} /\ effects = {}
        /\ DOMAIN assessments = {} /\ DOMAIN proposals = {}
        /\ gates = [op \in Operations |-> NoGate] /\ settled = [op \in Operations |-> None]
        /\ cli = [c \in Clis |-> Idle]
    BY DEF Init
  <1>3. /\ target \in Target /\ target.generation = 1 /\ target.kept = 1 /\ before \in Contents
        /\ expected \in [content: Contents, generation: Generations] \cup {NoReceipt}
    BY <1>1 DEF Init, Target
  <1>4. TypeOK
    BY <1>2, <1>3, Bounds DEF TypeOK, Idle
  <1>5. cli \in [Clis -> Station] /\ CommandsKnow
    BY <1>2, IdleKnows DEF CommandsKnow
  <1>6. LedgerInv
    BY <1>2 DEF LedgerInv, AssessmentsAreTrue, ProposalsAnswerDrift, ReceiptsAreBound
  <1>7. EffectsInv
    BY <1>2 DEF EffectsInv, EffectsAreBound, EffectsEndGenerations, SettledIsDone, Converged, None
  <1>8. GenerationsAreMade
    BY <1>1, <1>2, <1>3 DEF GenerationsAreMade
  <1> QED  BY <1>4, <1>5, <1>6, <1>7, <1>8 DEF ReconciliationInv

LEMMA StepKeeps ==
  ReconciliationInv /\ [Next]_vars => ReconciliationInv'
  <1> SUFFICES ASSUME ReconciliationInv, [Next]_vars PROVE ReconciliationInv'
    OBVIOUS
  <1>1. ASSUME NEW ahead \in 0 .. Ahead, NEW readable \in BOOLEAN, Inspect(ahead, readable)
        PROVE  ReconciliationInv'
    BY <1>1, InspectKeeps
  <1>2. ASSUME NEW i \in inspections, AssessDrift(i) PROVE ReconciliationInv'
    BY <1>2, AssessDriftKeeps
  <1>3. ASSUME NEW c \in Clis, Commands(c) PROVE ReconciliationInv'
    <2>1. CASE \E class \in Classes : Propose(c, class)
      BY <2>1, ProposeKeeps
    <2>2. CASE InsertProposal(c)
      BY <2>2, InsertProposalKeeps
    <2>3. ASSUME NEW at \in DOMAIN proposals, NEW op \in Operations, NEW g \in Signed(op),
                 Reconcile(c, at, op, g)
          PROVE  ReconciliationInv'
      BY <2>3, ReconcileKeeps
    <2>4. CASE Execute(c)
      BY <2>4, ExecuteKeeps
    <2>5. CASE Revalidate(c) \/ Crash(c)
      BY <2>5, RevalidateKeeps
    <2>6. CASE StoreReceipt(c)
      BY <2>6, StoreReceiptKeeps
    <2> QED  BY <1>3, <2>1, <2>2, <2>3, <2>4, <2>5, <2>6 DEF Commands
  <1>4. ASSUME NEW content \in Contents, OtherApply(content) \/ ForeignWrite(content)
        PROVE  ReconciliationInv'
    BY <1>4, ChangeKeeps
  <1>5. CASE HostRestart
    <2>1. target.content \in Contents
      BY TargetIsTyped DEF Target
    <2> QED  BY <1>5, <2>1, ChangeKeeps
  <1>6. CASE Tick \/ UNCHANGED vars
    BY <1>6, TickKeeps
  <1> QED  BY <1>1, <1>2, <1>3, <1>4, <1>5, <1>6 DEF Next

(* Everything the ledger holds and every command knows is true of the      *)
(* target: what the other theorems follow from.                            *)
THEOREM ReconciliationInvAlways == Spec => []ReconciliationInv
  BY Initially, StepKeeps, PTL DEF Spec

(* Every variable of the drift assessments, the proposals and the commands *)
(* keeps its type.                                                         *)
THEOREM TypeCorrect == Spec => []TypeOK
  <1>1. ReconciliationInv => TypeOK
    BY DEF ReconciliationInv
  <1> QED  BY <1>1, ReconciliationInvAlways, PTL

(* reconcile-target changes a target, finished or not, only from the       *)
(* generation whose complete evidence differed from the verified receipt;  *)
(* an apply puts the content of that receipt there.                        *)
THEOREM EffectsAnswerDriftAlways == Spec => []EffectsAnswerDrift
  <1>1. ReconciliationInv => EffectsAnswerDrift
    <2> SUFFICES ASSUME ReconciliationInv, NEW e \in effects
                 PROVE  LET seen == assessments[proposals[e.proposal].assessment].seen IN
                        /\ expected # NoReceipt /\ None # seen.content /\ seen # expected
                        /\ seen.generation = e.from
                        /\ gates[e.operation].action = "apply" => e.content = expected.content
      BY DEF EffectsAnswerDrift
    <2>1. BoundTo(e.operation, e.proposal) /\ EffectBound(e)
      BY DEF ReconciliationInv, EffectsInv, EffectsAreBound, EffectBound
    <2> QED
      BY <2>1 DEF ReconciliationInv, LedgerInv, ProposalsAnswerDrift, BoundTo, EffectBound, SawDrift,
                  Content
  <1> QED  BY <1>1, ReconciliationInvAlways, PTL

(* No operation changes the target twice, and one assessment leads to one  *)
(* change at most that is carried through, however many proposals and      *)
(* gates follow from it: it ends the generation they are bound to.         *)
THEOREM OneEffectPerAssessmentAlways == Spec => []OneEffectPerAssessment
  <1>1. ReconciliationInv => OneEffectPerAssessment
    <2> SUFFICES ASSUME ReconciliationInv, NEW e \in effects, NEW f \in effects,
                        \/ e.operation = f.operation
                        \/ /\ e.ended /\ f.ended
                           /\ proposals[e.proposal].assessment = proposals[f.proposal].assessment
                 PROVE  e = f
      BY DEF OneEffectPerAssessment
    <2>1. \A x \in effects :
            /\ x.proposal \in DOMAIN proposals
            /\ x.from = assessments[proposals[x.proposal].assessment].seen.generation
      BY DEF ReconciliationInv, LedgerInv, EffectsInv, EffectsAreBound, EffectBound,
             ProposalsAnswerDrift, BoundTo
    <2> QED  BY <2>1 DEF ReconciliationInv, EffectsInv, EffectsEndGenerations
  <1> QED  BY <1>1, ReconciliationInvAlways, PTL

(* A converged receipt in the ledger stands for a change of the target,    *)
(* carried through from the generation of its proposal to the content of   *)
(* the verified receipt, unless the gate's operation only looked.          *)
THEOREM ReceiptsAreTrueAlways == Spec => []ReceiptsAreTrue
  <1>1. ReconciliationInv => ReceiptsAreTrue
    <2> SUFFICES ASSUME ReconciliationInv, NEW t \in DOMAIN proposals, NEW op,
                        op = proposals[t].receipt.operation,
                        proposals[t].receipt.state = "converged"
                 PROVE  \/ gates[op].action = "look"
                        \/ \E e \in effects :
                             /\ e.operation = op /\ e.ended
                             /\ e.from = proposals[t].generation /\ e.content = expected.content
      BY DEF ReceiptsAreTrue
    <2>1. op \in Converged /\ BoundTo(op, t)
      BY DEF ReconciliationInv, LedgerInv, ReceiptsAreBound
    <2>2. CASE gates[op].action # "look"
      <3>1. PICK e \in effects : e.operation = op /\ e.ended /\ e.content = gates[op].desired
        BY <2>1, <2>2 DEF ReconciliationInv, EffectsInv, SettledIsDone
      <3>2. BoundTo(e.operation, e.proposal) /\ e.from = proposals[e.proposal].generation
        BY DEF ReconciliationInv, EffectsInv, EffectsAreBound, EffectBound
      <3> QED  BY <2>1, <3>1, <3>2 DEF BoundTo
    <2> QED  BY <2>2
  <1> QED  BY <1>1, ReconciliationInvAlways, PTL

(* No command and no race of commands rewrites a row: an assessment never  *)
(* changes, a proposal gets its receipt, once.                             *)
THEOREM LedgerIsHistoryAlways == Spec => LedgerIsHistory
  <1> DEFINE Kept ==
        /\ \A t \in DOMAIN assessments :
             t \in DOMAIN assessments' /\ assessments'[t] = assessments[t]
        /\ \A t \in DOMAIN proposals :
             /\ t \in DOMAIN proposals'
             /\ proposals'[t] # proposals[t] =>
                  /\ proposals[t].receipt = NoAnswer
                  /\ proposals'[t] = [proposals[t] EXCEPT !.receipt = proposals'[t].receipt]
  <1>1. ReconciliationInv /\ [Next]_vars => [Kept]_vars
    <2> SUFFICES ASSUME ReconciliationInv, [Next]_vars PROVE Kept
      OBVIOUS
    <2>1. ASSUME UNCHANGED ledger PROVE Kept
      BY <2>1 DEF ledger
    <2>2. ASSUME NEW i \in inspections, AssessDrift(i) PROVE Kept
      BY <2>2 DEF AssessDrift
    <2>3. ASSUME NEW c \in Clis, InsertProposal(c) PROVE Kept
      BY <2>3 DEF InsertProposal
    <2>4. ASSUME NEW c \in Clis, StoreReceipt(c) PROVE Kept
      <3>1. PICK at, answer : at = cli[c].proposal /\ answer = cli[c].answer
        OBVIOUS
      <3>2. \A t \in DOMAIN proposals : proposals[t] \in [assessment: DOMAIN assessments,
              generation: Generations, receipt: Receipt \cup {NoAnswer}]
        BY DEF ReconciliationInv, TypeOK
      <3>3. UNCHANGED assessments /\ proposals' =
              [proposals EXCEPT ![at] = [proposals[at] EXCEPT !.receipt =
                 IF proposals[at].receipt = NoAnswer THEN answer ELSE proposals[at].receipt]]
        BY <2>4, <3>1 DEF StoreReceipt
      <3> QED  BY <3>2, <3>3
    <2> QED
      BY <2>1, <2>2, <2>3, <2>4
      DEF Next, Commands, Inspect, Propose, Reconcile, Execute, Revalidate, Crash, OtherApply,
          ForeignWrite, HostRestart, Tick, vars
  <1> QED  BY <1>1, ReconciliationInvAlways, PTL DEF Spec, LedgerIsHistory
=============================================================================
