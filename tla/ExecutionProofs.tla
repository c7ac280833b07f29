-------------------------- MODULE ExecutionProofs --------------------------
(***************************************************************************)
(* The adapter host and the executor above it keep their promises for      *)
(* every set of operations, contents, process identifiers and deadlines    *)
(* and any number of faults: the host by itself first (HostSpec), then the *)
(* executor, which takes the host's steps as its own (Spec).               *)
(***************************************************************************)
EXTENDS Execution, TLAPS

LEMMA OperationFields ==
  ASSUME NEW op \in Operations
  PROVE  /\ op.id \in Ids /\ op.action \in Actions
         /\ op.desired \in Contents /\ op.expected \in Nat /\ op.related \in Ids
  BY OperationsAssumption DEF Operation

LEMMA NoCallType == NoCall \in Call
  BY OperationsAssumption DEF NoCall, AnyOperation, Call, Error, Answer, Steps, Contents

(* Answers of the right type keep the call and the completed answers typed *)
LEMMA AnswersType ==
  ASSUME HostTypeOK, NEW op \in Operations, NEW answer \in Answer, Answers(op, answer)
  PROVE  call' \in Call /\ (completed \subseteq [op: Operations, answer: Answer])'
  BY DEF HostTypeOK, Answers, Call, Steps, Contents, Answer, ReceiptKinds

LEMMA ErrorType ==
  ASSUME NEW kind \in {"io", "rejected", "none"}
  PROVE  Error(kind) \in Answer
  BY DEF Error, Answer, Contents

LEMMA ReceiptType ==
  ASSUME NEW kind \in ReceiptKinds, NEW generation \in Nat, NEW result \in Contents
  PROVE  Receipt(kind, generation, result) \in Answer
  BY DEF Receipt, Answer

LEMMA RecordedType ==
  ASSUME HostTypeOK, NEW op \in Operations, NEW r \in Recorded(op)
  PROVE  r \in [op: Operations, answer: Answer]
  <1>1. CASE Cached(op.id) # {}
    BY <1>1 DEF HostTypeOK, Recorded, Cached
  <1>2. CASE Cached(op.id) = {} /\ op.action = "apply"
    <2>1. PICK e \in Applied(op.id) :
            r = [op |-> e.op, answer |-> Receipt("converged", e.generation, e.op.desired)]
      BY <1>2 DEF Recorded
    <2>2. e \in HistoryEntry
      BY DEF Applied, HostTypeOK, AdapterState
    <2>3. Receipt("converged", e.generation, e.op.desired) \in Answer
      BY <2>2, ReceiptType, OperationFields DEF HistoryEntry, ReceiptKinds
    <2> QED  BY <2>1, <2>2, <2>3 DEF HistoryEntry
  <1>3. CASE Cached(op.id) = {} /\ op.action = "rollback"
    <2>1. PICK e \in Reversed(op.id) :
            r = [op |-> e.op, answer |-> Receipt("converged", e.generation, e.result)]
      BY <1>3 DEF Recorded
    <2>2. e \in Reversal
      BY DEF Reversed, HostTypeOK, AdapterState
    <2>3. Receipt("converged", e.generation, e.result) \in Answer
      BY <2>2, ReceiptType DEF Reversal, ReceiptKinds
    <2> QED  BY <2>1, <2>2, <2>3 DEF Reversal
  <1>4. CASE Cached(op.id) = {} /\ op.action \notin Changing
    BY <1>4 DEF Recorded, Changing
  <1> QED  BY <1>1, <1>2, <1>3, <1>4 DEF Changing

(* The receipt of a call about to be persisted.                            *)
LEMMA NewReceiptIs ==
  ASSUME HostTypeOK, MemoryAheadByCall, UnrecordedCall, up, call.step = "recorded"
  PROVE  /\ NewReceipt \in Answer
         /\ NewReceipt.kind = "converged"
         /\ call.op.action = "apply" =>
              /\ NewReceipt.generation = memory.generation
              /\ NewReceipt.result = call.op.desired
         /\ call.op.action # "apply" =>
              \E e \in memory.reversals : /\ e.op = call.op
                                          /\ e.generation = NewReceipt.generation
                                          /\ e.result = NewReceipt.result
  <1>1. call.op \in Operations /\ memory.generation \in Nat
    BY DEF HostTypeOK, Call, AdapterState
  <1>2. CASE call.op.action = "apply"
    <2>1. NewReceipt = Receipt("converged", memory.generation, call.op.desired)
      BY <1>2 DEF NewReceipt
    <2> QED  BY <1>1, <1>2, <2>1, OperationFields DEF Receipt, Answer, ReceiptKinds
  <1>3. CASE call.op.action # "apply"
    <2> DEFINE Candidates ==
          {Receipt("converged", e.generation, e.result) : e \in Reversed(call.op.id)}
    <2>1. PICK result \in Contents :
            memory.reversals = disk.reversals \cup
              {[op |-> call.op, generation |-> memory.generation, result |-> result]}
      BY <1>3 DEF MemoryAheadByCall
    <2>2. \A e \in disk.reversals : e.op.id # call.op.id
      BY <1>3 DEF UnrecordedCall
    <2>3. Candidates = {Receipt("converged", memory.generation, result)}
      <3>1. Reversed(call.op.id) =
              {[op |-> call.op, generation |-> memory.generation, result |-> result]}
        BY <2>1, <2>2 DEF Reversed
      <3> QED  BY <3>1
    <2>4. NewReceipt = CHOOSE a \in Candidates : TRUE
      BY <1>3, Zenon DEF NewReceipt
    <2>5. NewReceipt = Receipt("converged", memory.generation, result)
      <3> HIDE DEF Candidates
      <3> QED  BY <2>3, <2>4
    <2>6. [op |-> call.op, generation |-> memory.generation, result |-> result]
            \in memory.reversals
      BY <2>1
    <2>7. NewReceipt.generation = memory.generation /\ NewReceipt.result = result
          /\ NewReceipt.kind = "converged" /\ NewReceipt \in Answer
      BY <1>1, <2>5 DEF Receipt, Answer, ReceiptKinds
    <2> QED  BY <1>3, <2>6, <2>7
  <1> QED  BY <1>2, <1>3

---------------------------------------------------------------------------
(* Every step keeps the types.                                             *)
LEMMA TypeInit == HostInit => HostTypeOK
  BY NoCallType, BoundAssumption
  DEF HostInit, HostTypeOK, Contents, AdapterState, EmptyState

LEMMA FaultType ==
  ASSUME HostTypeOK, Fault \/ UNCHANGED faults
  PROVE  faults' \in 0..MaxFaults
  BY BoundAssumption DEF Fault, HostTypeOK

LEMMA TypeAccept ==
  ASSUME HostTypeOK, NEW op \in Operations, NEW live \in BOOLEAN, HostAccept(op, live)
  PROVE  HostTypeOK'
  <1>1. CASE Refuse(op, live)
    <2>1. Error("rejected") \in Answer
      BY ErrorType
    <2> QED  BY <1>1, <2>1, AnswersType DEF Refuse, HostTypeOK
  <1>2. CASE Replay(op, live)
    <2>1. PICK r \in Recorded(op) : r.op = op /\ Answers(op, r.answer)
      BY <1>2 DEF Replay
    <2>2. r.answer \in Answer
      BY <2>1, RecordedType
    <2> QED  BY <1>2, <2>1, <2>2, AnswersType DEF Replay, HostTypeOK
  <1>3. CASE Stage(op, live)
    <2>1. call' \in Call
      BY <1>3, ErrorType DEF Stage, HostTypeOK, Call, Steps
    <2> QED  BY <1>3, <2>1 DEF Stage, HostTypeOK
  <1>4. CASE StageFails(op, live)
    <2>1. PICK kind \in {"io", "rejected"} : Answers(op, Error(kind))
      BY <1>4 DEF StageFails
    <2>2. faults' \in 0..MaxFaults
      BY <1>4, FaultType DEF StageFails
    <2>3. stages' \subseteq Pids
      BY <1>4 DEF StageFails, HostTypeOK
    <2> QED  BY <1>4, <2>1, <2>2, <2>3, ErrorType, AnswersType DEF StageFails, HostTypeOK
  <1>5. CASE DryRun(op, live)
    <2>1. Receipt("converged", memory.generation, op.desired) \in Answer
      BY ReceiptType, OperationFields DEF HostTypeOK, AdapterState, ReceiptKinds
    <2> QED  BY <1>5, <2>1, AnswersType DEF DryRun, HostTypeOK
  <1>6. CASE Look(op, live)
    <2>1. PICK answer \in Answer : Answers(op, answer)
      <3>1. CASE Answers(op, Receipt(IF file = op.desired THEN "converged" ELSE "failed",
                                     memory.generation, file))
        BY <3>1, ReceiptType DEF HostTypeOK, AdapterState, ReceiptKinds
      <3> QED  BY <1>6, <3>1, ErrorType DEF Look
    <2>2. faults' \in 0..MaxFaults
      BY <1>6, FaultType DEF Look
    <2> QED  BY <1>6, <2>1, <2>2, AnswersType DEF Look, HostTypeOK
  <1> QED  BY <1>1, <1>2, <1>3, <1>4, <1>5, <1>6 DEF HostAccept

LEMMA TypeRun ==
  ASSUME HostTypeOK, MemoryAheadByCall, UnrecordedCall, HostRun
  PROVE  HostTypeOK'
  <1> USE DEF HostTypeOK
  <1>0. /\ call \in Call /\ call.op \in Operations /\ call.old \in Contents
        /\ memory.generation \in Nat
        /\ memory.history \subseteq HistoryEntry /\ memory.reversals \subseteq Reversal
    BY DEF Call, AdapterState
  <1>1. CASE Replace
    <2>1. call' \in Call
      BY <1>0, <1>1 DEF Replace, Call, Steps
    <2>2. effects' \in [Ids -> Nat]
      BY <1>0, <1>1, OperationFields DEF Replace
    <2>3. file' \in Contents
      BY <1>0, <1>1, OperationFields DEF Replace
    <2> QED  BY <1>1, <2>1, <2>2, <2>3 DEF Replace
  <1>2. CASE ReplaceFails
    BY <1>0, <1>2, ErrorType, AnswersType, FaultType DEF ReplaceFails
  <1>3. CASE RecordApply
    <2>1. call' \in Call
      BY <1>0, <1>3 DEF RecordApply, Call, Steps
    <2> DEFINE entry ==
          [op |-> call.op, old |-> call.old, generation |-> memory.generation + 1]
    <2>2. entry \in HistoryEntry
      BY <1>0 DEF HistoryEntry
    <2>3. memory' \in AdapterState
      <3>1. memory' = [memory EXCEPT !.generation = memory.generation + 1,
                                     !.history = memory.history \cup {entry}]
        BY <1>3 DEF RecordApply, AdapterState
      <3>2. memory.history \cup {entry} \in SUBSET HistoryEntry
        BY <1>0, <2>2
      <3>3. memory' = [generation |-> memory.generation + 1,
                       history |-> memory.history \cup {entry}, reversals |-> memory.reversals]
        BY <3>1 DEF AdapterState
      <3> HIDE DEF entry, HostTypeOK
      <3> QED  BY <1>0, <3>2, <3>3 DEF AdapterState
    <2> QED  BY <1>3, <2>1, <2>3 DEF RecordApply
  <1>4. CASE ReadBackMismatch
    <2>1. Receipt("failed", memory.generation, call.old) \in Answer
      BY <1>0, ReceiptType DEF ReceiptKinds
    <2>2. faults' \in 0..MaxFaults
      BY <1>4, FaultType DEF ReadBackMismatch
    <2> QED  BY <1>0, <1>4, <2>1, <2>2, AnswersType DEF ReadBackMismatch
  <1>5. CASE ReadBackUnrestored
    <2>1. Receipt("partially_converged", memory.generation, file) \in Answer
      BY <1>0, ReceiptType DEF ReceiptKinds
    <2>2. stages' \subseteq Pids
      BY <1>5 DEF ReadBackUnrestored
    <2> QED  BY <1>0, <1>5, <2>1, <2>2, AnswersType, FaultType DEF ReadBackUnrestored
  <1>6. CASE Restore
    <2>1. call' \in Call
      BY <1>0, <1>6 DEF Restore, Call, Steps
    <2>2. file' \in Contents
      BY <1>0, <1>6 DEF Restore, Applied, HistoryEntry
    <2>3. memory' \in AdapterState
      BY <1>0, <1>6 DEF Restore, AdapterState
    <2> QED  BY <1>6, <2>1, <2>2, <2>3 DEF Restore
  <1>7. CASE RecordReversal
    <2>1. call' \in Call
      BY <1>0, <1>7 DEF RecordReversal, Call, Steps
    <2>2. [op |-> call.op, generation |-> memory.generation, result |-> file] \in Reversal
      BY <1>0 DEF Reversal
    <2>3. memory' \in AdapterState
      BY <1>0, <1>7, <2>2 DEF RecordReversal, AdapterState
    <2> QED  BY <1>7, <2>1, <2>3 DEF RecordReversal
  <1>8. CASE ReversalUnobserved
    <2>1. PICK kind \in {"io", "rejected"} : Answers(call.op, Error(kind))
      BY <1>8 DEF ReversalUnobserved
    <2>2. faults' \in 0..MaxFaults
      BY <1>8, FaultType DEF ReversalUnobserved
    <2> QED  BY <1>0, <1>8, <2>1, <2>2, ErrorType, AnswersType DEF ReversalUnobserved
  <1>9. CASE Persist
    BY <1>0, <1>9, NewReceiptIs, AnswersType DEF Persist
  <1>10. CASE PersistFails
    <2>1. memory.generation - 1 \in Nat
      BY <1>0, <1>10 DEF PersistFails, MemoryAheadByCall, AdapterState
    <2>2. memory' \in AdapterState
      BY <1>0, <1>10, <2>1 DEF PersistFails, AdapterState
    <2>3. file' \in Contents /\ stages' \subseteq Pids
      BY <1>0, <1>10 DEF PersistFails
    <2> QED  BY <1>0, <1>10, <2>2, <2>3, ErrorType, AnswersType, FaultType DEF PersistFails
  <1> QED  BY <1>1, <1>2, <1>3, <1>4, <1>5, <1>6, <1>7, <1>8, <1>9, <1>10 DEF HostRun

LEMMA TypeEnvironment ==
  ASSUME HostTypeOK, Deliver \/ HostCrash \/ HostRestart \/ ForeignWrite
  PROVE  HostTypeOK'
  <1>1. CASE Deliver
    BY <1>1, NoCallType DEF Deliver, HostTypeOK
  <1>2. CASE HostCrash
    <2>1. EmptyState \in AdapterState
      BY DEF EmptyState, AdapterState
    <2> QED  BY <1>2, <2>1, NoCallType, FaultType DEF HostCrash, HostTypeOK
  <1>3. CASE HostRestart
    BY <1>3 DEF HostRestart, HostTypeOK
  <1>4. CASE ForeignWrite
    BY <1>4, FaultType DEF ForeignWrite, HostTypeOK
  <1> QED  BY <1>1, <1>2, <1>3, <1>4

---------------------------------------------------------------------------
(* Memory is the sidecar but for the record of the call in progress.       *)

(* A step that leaves memory, sidecar and process alone and moves between  *)
(* steps of a call that has recorded nothing.                              *)
Unwritten == {"idle", "staged", "replaced", "answered"}

LEMMA QuietStep ==
  ASSUME MemoryAheadByCall, up, call.step \in Unwritten, call'.step \in Unwritten,
         UNCHANGED <<memory, disk, up>>
  PROVE  MemoryAheadByCall'
  BY DEF MemoryAheadByCall, SameRecords, Unwritten

LEMMA AnswersStep ==
  ASSUME NEW op, NEW answer, Answers(op, answer)
  PROVE  call'.step = "answered"
  BY DEF Answers

LEMMA AheadAccept ==
  ASSUME HostTypeOK, MemoryAheadByCall, NEW op, NEW live, HostAccept(op, live)
  PROVE  MemoryAheadByCall'
  <1>1. call.step \in Unwritten /\ up /\ UNCHANGED <<memory, disk, up>>
    BY DEF HostAccept, Refuse, Replay, DryRun, Look, Stage, StageFails, Ready, Unwritten
  <1>2. call'.step \in Unwritten
    BY AnswersStep DEF HostAccept, Refuse, Replay, DryRun, Look, Stage, StageFails, Unwritten
  <1> QED  BY <1>1, <1>2, QuietStep

LEMMA AheadRun ==
  ASSUME HostTypeOK, MemoryAheadByCall, UnrecordedCall, HostRun
  PROVE  MemoryAheadByCall'
  <1>0. /\ memory.generation \in Nat /\ disk.generation \in Nat
        /\ memory \in AdapterState
    BY OperationFields DEF HostTypeOK, Call, AdapterState
  <1>1. CASE Replace
    BY <1>1, QuietStep DEF Replace, At, Unwritten, HostTypeOK, Call
  <1>2. CASE ReplaceFails
    BY <1>2, QuietStep, AnswersStep DEF ReplaceFails, Unwritten
  <1>3. CASE RecordApply
    <2>1. /\ call'.step = "recorded" /\ call'.op = call.op /\ call'.old = call.old
          /\ call.op.action = "apply" /\ up /\ up' /\ disk' = disk
      BY <1>3 DEF RecordApply, At, HostTypeOK, Call
    <2>2. SameRecords /\ memory.generation >= disk.generation
      BY <1>3 DEF RecordApply, At, MemoryAheadByCall
    <2>3. /\ memory'.generation = memory.generation + 1
          /\ memory'.reversals = memory.reversals
          /\ memory'.history = memory.history \cup
               {[op |-> call.op, old |-> call.old, generation |-> memory.generation + 1]}
      BY <1>0, <1>3 DEF RecordApply, AdapterState
    <2> QED  BY <1>0, <2>1, <2>2, <2>3 DEF MemoryAheadByCall, SameRecords
  <1>4. CASE ReadBackMismatch
    BY <1>4, QuietStep, AnswersStep DEF ReadBackMismatch, At, Unwritten
  <1>5. CASE ReadBackUnrestored
    BY <1>5, QuietStep, AnswersStep DEF ReadBackUnrestored, At, Unwritten
  <1>6. CASE Restore
    <2>1. call'.step = "restored" /\ up /\ up' /\ disk' = disk
      BY <1>6 DEF Restore, At, HostTypeOK, Call
    <2>2. SameRecords /\ memory.generation >= disk.generation
      BY <1>6 DEF Restore, At, MemoryAheadByCall
    <2>3. /\ memory'.generation = memory.generation + 1
          /\ memory'.reversals = memory.reversals /\ memory'.history = memory.history
      BY <1>0, <1>6 DEF Restore, AdapterState
    <2> QED  BY <1>0, <2>1, <2>2, <2>3 DEF MemoryAheadByCall, SameRecords
  <1>7. CASE RecordReversal
    <2>1. /\ call'.step = "recorded" /\ call'.op = call.op
          /\ call.op.action # "apply" /\ up /\ up' /\ disk' = disk /\ file \in Contents
      BY <1>7 DEF RecordReversal, At, HostTypeOK, Call
    <2>2. SameRecords /\ memory.generation > disk.generation
      BY <1>7 DEF RecordReversal, At, MemoryAheadByCall
    <2>3. /\ memory'.generation = memory.generation
          /\ memory'.history = memory.history
          /\ memory'.reversals = memory.reversals \cup
               {[op |-> call.op, generation |-> memory.generation, result |-> file]}
      BY <1>0, <1>7 DEF RecordReversal, AdapterState
    <2> QED  BY <1>0, <2>1, <2>2, <2>3 DEF MemoryAheadByCall, SameRecords
  <1>8. CASE ReversalUnobserved
    <2>1. call'.step = "answered" /\ up /\ UNCHANGED <<memory, disk, up>>
      BY <1>8, AnswersStep DEF ReversalUnobserved, At
    <2>2. SameRecords /\ memory.generation > disk.generation
      BY <1>8 DEF ReversalUnobserved, At, MemoryAheadByCall
    <2> QED  BY <1>0, <2>1, <2>2 DEF MemoryAheadByCall, SameRecords
  <1>9. CASE Persist
    <2>1. call'.step = "answered" /\ disk' = memory /\ memory' = memory /\ up'
      BY <1>9, AnswersStep DEF Persist
    <2> QED  BY <1>0, <2>1 DEF MemoryAheadByCall, SameRecords
  <1>10. CASE PersistFails
    <2>1. call'.step = "answered" /\ disk' = disk /\ up /\ up'
      BY <1>10, AnswersStep DEF PersistFails
    <2>2. memory.generation > disk.generation /\ memory'.generation = memory.generation - 1
      BY <1>10 DEF PersistFails, MemoryAheadByCall
    <2>3. memory'.history = disk.history /\ memory'.reversals = disk.reversals
      <3>1. CASE call.op.action = "apply"
        <4>1. memory'.history = memory.history \ Applied(call.op.id)
              /\ memory'.reversals = memory.reversals
          BY <1>10, <3>1 DEF PersistFails
        <4>2. /\ memory.reversals = disk.reversals
              /\ memory.history = disk.history \cup
                   {[op |-> call.op, old |-> call.old, generation |-> memory.generation]}
          BY <1>10, <3>1 DEF PersistFails, MemoryAheadByCall
        <4>3. \A e \in disk.history : e.op.id # call.op.id
          BY <1>10, <3>1 DEF PersistFails, UnrecordedCall
        <4> QED  BY <4>1, <4>2, <4>3 DEF Applied
      <3>2. CASE call.op.action = "rollback"
        <4>1. memory'.reversals = memory.reversals \ Reversed(call.op.id)
              /\ memory'.history = memory.history
          BY <1>10, <3>2 DEF PersistFails
        <4>2. /\ memory.history = disk.history
              /\ \E result \in Contents :
                   memory.reversals = disk.reversals \cup
                     {[op |-> call.op, generation |-> memory.generation, result |-> result]}
          BY <1>10, <3>2 DEF PersistFails, MemoryAheadByCall
        <4>3. \A e \in disk.reversals : e.op.id # call.op.id
          BY <1>10, <3>2 DEF PersistFails, UnrecordedCall
        <4> QED  BY <4>1, <4>2, <4>3 DEF Reversed
      <3>3. call.op.action \in Changing
        BY <1>10 DEF PersistFails, UnrecordedCall
      <3> QED  BY <3>1, <3>2, <3>3 DEF Changing
    <2> QED  BY <1>0, <2>1, <2>2, <2>3 DEF MemoryAheadByCall, SameRecords
  <1> QED  BY <1>1, <1>2, <1>3, <1>4, <1>5, <1>6, <1>7, <1>8, <1>9, <1>10 DEF HostRun

LEMMA AheadEnvironment ==
  ASSUME HostTypeOK, MemoryAheadByCall, Deliver \/ HostCrash \/ HostRestart \/ ForeignWrite
  PROVE  MemoryAheadByCall'
  <1>1. CASE Deliver
    BY <1>1, QuietStep DEF Deliver, NoCall, Unwritten
  <1>2. CASE HostCrash
    BY <1>2 DEF HostCrash, MemoryAheadByCall
  <1>3. CASE HostRestart
    <2>1. up' /\ memory' = disk' /\ call' = NoCall
      BY <1>3 DEF HostRestart, MemoryAheadByCall
    <2>2. disk'.generation \in Nat
      BY <1>3 DEF HostRestart, HostTypeOK, AdapterState
    <2> QED  BY <2>1, <2>2 DEF MemoryAheadByCall, SameRecords, NoCall
  <1>4. CASE ForeignWrite
    BY <1>4 DEF ForeignWrite, MemoryAheadByCall, SameRecords
  <1> QED  BY <1>1, <1>2, <1>3, <1>4

---------------------------------------------------------------------------
(* A call that got past the checks is not recorded.                        *)
LEMMA UnrecordedAccept ==
  ASSUME HostTypeOK, MemoryAheadByCall, UnrecordedCall,
         NEW op \in Operations, NEW live, HostAccept(op, live)
  PROVE  UnrecordedCall'
  <1>1. CASE Stage(op, live)
    <2>1. /\ call'.step = "staged" /\ call'.op = op /\ disk' = disk /\ SameRecords
          /\ memory' = memory /\ op.action \in Changing
      BY <1>1 DEF Stage, Ready, MemoryAheadByCall
    <2>2. memory.generation = op.expected
      BY <1>1, <2>1 DEF Stage, Admissible, Changing
    <2>3. CASE op.action = "apply"
      <3>1. Applied(op.id) = {}
        BY <1>1, <2>3 DEF Stage, Recorded
      <3> QED  BY <2>1, <2>2, <2>3, <3>1 DEF UnrecordedCall, SameRecords, Applied
    <2>4. CASE op.action = "rollback"
      <3>1. Reversed(op.id) = {}
        BY <1>1, <2>4 DEF Stage, Recorded
      <3> QED  BY <2>1, <2>2, <2>4, <3>1 DEF UnrecordedCall, SameRecords, Reversed
    <2> QED  BY <2>1, <2>3, <2>4 DEF Changing
  <1>2. CASE Refuse(op, live) \/ Replay(op, live) \/ DryRun(op, live) \/ Look(op, live)
             \/ StageFails(op, live)
    BY <1>2, AnswersStep DEF Refuse, Replay, DryRun, Look, StageFails, UnrecordedCall
  <1> QED  BY <1>1, <1>2 DEF HostAccept

LEMMA UnrecordedRun ==
  ASSUME HostTypeOK, UnrecordedCall, HostRun
  PROVE  UnrecordedCall'
  <1>1. CASE Replace \/ RecordReversal
    BY <1>1 DEF Replace, RecordReversal, At, UnrecordedCall, HostTypeOK, Call, AdapterState
  <1>3. CASE RecordApply \/ Restore
    <2>1. /\ call'.step \in {"recorded", "restored"} /\ call'.op = call.op /\ disk' = disk
          /\ call'.step = "restored" => call.op.action = "rollback"
          /\ call.step \in {"staged", "replaced"}
      BY <1>3 DEF RecordApply, Restore, At, HostTypeOK, Call
    <2>2. memory'.generation = memory.generation + 1 /\ memory.generation \in Nat
      BY <1>3 DEF RecordApply, Restore, HostTypeOK, AdapterState
    <2> QED  BY <2>1, <2>2 DEF UnrecordedCall
  <1>2. CASE ReplaceFails \/ ReadBackMismatch \/ ReadBackUnrestored \/ ReversalUnobserved
             \/ Persist \/ PersistFails
    BY <1>2, AnswersStep DEF ReplaceFails, ReadBackMismatch, ReadBackUnrestored,
                             ReversalUnobserved, Persist, PersistFails, UnrecordedCall
  <1> QED  BY <1>1, <1>2, <1>3 DEF HostRun

LEMMA UnrecordedEnvironment ==
  ASSUME MemoryAheadByCall, UnrecordedCall, Deliver \/ HostCrash \/ HostRestart \/ ForeignWrite
  PROVE  UnrecordedCall'
  <1>1. CASE Deliver \/ HostCrash \/ HostRestart
    <2>1. call' = NoCall
      BY <1>1 DEF Deliver, HostCrash, HostRestart, MemoryAheadByCall
    <2> QED  BY <2>1 DEF UnrecordedCall, NoCall
  <1>2. CASE ForeignWrite
    BY <1>2 DEF UnrecordedCall, ForeignWrite
  <1> QED  BY <1>1, <1>2

---------------------------------------------------------------------------
(* Persist is the only step that changes the sidecar: recorded generations *)
(* stay within its generation and name one operation each.                 *)
LEMMA PersistStamps ==
  ASSUME HostTypeOK, MemoryAheadByCall, UnrecordedCall, StampsWithin(disk), up,
         call.step = "recorded"
  PROVE  StampsWithin(memory)
  <1> DEFINE all(s) == s.history \cup s.reversals
  <1>0. /\ memory.generation \in Nat /\ disk.generation \in Nat
        /\ memory.generation > disk.generation
        /\ \A x \in all(disk) :
             x.generation = x.op.expected + 1 /\ x.generation <= disk.generation
        /\ \A x \in all(disk) : x.generation \in Int
        /\ memory.generation = call.op.expected + 1
        /\ \A x, y \in all(disk) : x.generation = y.generation => x.op = y.op
    BY DEF HostTypeOK, AdapterState, MemoryAheadByCall, UnrecordedCall, StampsWithin,
       HistoryEntry, Reversal
  <1>1. \A x \in all(memory) :
          x \in all(disk) \/ (x.op = call.op /\ x.generation = memory.generation)
    BY DEF MemoryAheadByCall
  <1> QED  BY <1>0, <1>1 DEF StampsWithin

LEMMA StampsStep ==
  ASSUME HostTypeOK, MemoryAheadByCall, UnrecordedCall, StampsWithin(disk),
         (up /\ call.step = "recorded" /\ disk' = memory) \/ disk' = disk
  PROVE  StampsWithin(disk)'
  BY PersistStamps DEF StampsWithin

LEMMA DiskStep ==
  ASSUME HostNext
  PROVE  (Persist /\ up /\ call.step = "recorded" /\ disk' = memory) \/ disk' = disk
  BY DEF HostNext, HostAccept, HostRun, Refuse, Replay, DryRun, Look, Stage, StageFails, Replace,
         ReplaceFails, RecordApply, ReadBackMismatch, ReadBackUnrestored, Restore,
         RecordReversal, ReversalUnobserved, Persist, PersistFails, Deliver, HostCrash,
         HostRestart, ForeignWrite

---------------------------------------------------------------------------
(* Every converged receipt the host remembers is in the sidecar.           *)
LEMMA SidecarGrows ==
  ASSUME HostTypeOK, MemoryAheadByCall, UnrecordedCall, HostNext
  PROVE  disk.history \subseteq disk'.history /\ disk.reversals \subseteq disk'.reversals
  <1>1. CASE up /\ call.step = "recorded" /\ disk' = memory
    <2>1. CASE call.op.action = "apply"
      BY <1>1, <2>1 DEF MemoryAheadByCall
    <2>2. CASE call.op.action # "apply"
      BY <1>1, <2>2 DEF MemoryAheadByCall
    <2> QED  BY <2>1, <2>2
  <1>2. CASE disk' = disk
    BY <1>2
  <1> QED  BY <1>1, <1>2, DiskStep

LEMMA InSidecarStays ==
  ASSUME HostTypeOK, MemoryAheadByCall, UnrecordedCall, HostNext,
         NEW op, NEW answer, InSidecar(op, answer)
  PROVE  InSidecar(op, answer)'
  BY SidecarGrows DEF InSidecar

(* What the duplicate of a recorded operation is answered is in it.        *)
LEMMA ReplayedIsDurable ==
  ASSUME HostTypeOK, SameRecords, ConvergedIsDurable, NEW op \in Operations,
         NEW r \in Recorded(op), r.op = op, r.answer.kind = "converged"
  PROVE  InSidecar(r.op, r.answer)
  <1>1. CASE Cached(op.id) # {}
    BY <1>1 DEF Recorded, Cached, ConvergedIsDurable
  <1>2. CASE Cached(op.id) = {} /\ op.action = "apply"
    <2>1. PICK e \in Applied(op.id) :
            r = [op |-> e.op, answer |-> Receipt("converged", e.generation, e.op.desired)]
      BY <1>2 DEF Recorded
    <2>2. e \in disk.history /\ e.op = op
      BY <2>1 DEF Applied, SameRecords
    <2>3. r.answer.generation = e.generation /\ r.answer.result = op.desired
      BY <2>1, <2>2 DEF Receipt
    <2> QED  BY <1>2, <2>2, <2>3 DEF InSidecar
  <1>3. CASE Cached(op.id) = {} /\ op.action = "rollback"
    <2>1. PICK e \in Reversed(op.id) :
            r = [op |-> e.op, answer |-> Receipt("converged", e.generation, e.result)]
      BY <1>3 DEF Recorded
    <2>2. e \in disk.reversals /\ e.op = op
      BY <2>1 DEF Reversed, SameRecords
    <2>3. r.answer.generation = e.generation /\ r.answer.result = e.result
      BY <2>1 DEF Receipt
    <2> QED  BY <1>3, <2>2, <2>3 DEF InSidecar
  <1>4. CASE Cached(op.id) = {} /\ op.action \notin Changing
    BY <1>4 DEF Recorded, Changing
  <1> QED  BY <1>1, <1>2, <1>3, <1>4 DEF Changing

(* An answer that is not converged, or is in the sidecar, keeps it so.     *)
LEMMA AnswersDurable ==
  ASSUME HostTypeOK, MemoryAheadByCall, UnrecordedCall, ConvergedIsDurable, HostNext,
         NEW op, NEW answer, Answers(op, answer),
         answer.kind = "converged" => InSidecar(op, answer)'
  PROVE  ConvergedIsDurable'
  <1> SUFFICES ASSUME NEW c \in completed', c.answer.kind = "converged"
               PROVE  InSidecar(c.op, c.answer)'
    BY DEF ConvergedIsDurable
  <1>1. CASE c \in completed
    BY <1>1, InSidecarStays DEF ConvergedIsDurable
  <1>2. CASE c \notin completed
    <2>1. c = [op |-> op, answer |-> answer]
      BY <1>2 DEF Answers
    <2> QED  BY <2>1
  <1> QED  BY <1>1, <1>2

LEMMA DurableStep ==
  ASSUME HostInv, HostNext
  PROVE  ConvergedIsDurable'
  <1> USE DEF HostInv
  <1>1. CASE UNCHANGED completed \/ completed' = {}
    BY <1>1, InSidecarStays DEF ConvergedIsDurable
  <1>2. CASE Persist
    <2>1. Answers(call.op, NewReceipt) /\ disk' = memory /\ up /\ call.step = "recorded"
      BY <1>2 DEF Persist
    <2>2. call.op.action = "apply" =>
            [op |-> call.op, old |-> call.old, generation |-> memory.generation]
              \in memory.history
      BY <2>1 DEF MemoryAheadByCall
    <2>3. ASSUME NEW op, NEW answer, op = call.op, answer = NewReceipt
          PROVE  InSidecar(op, answer)'
      <3>1. CASE op.action = "apply"
        BY <2>1, <2>2, <2>3, <3>1, NewReceiptIs DEF InSidecar
      <3>2. CASE op.action # "apply"
        BY <2>1, <2>3, <3>2, NewReceiptIs DEF InSidecar
      <3> QED  BY <3>1, <3>2
    <2>4. PICK op, answer : op = call.op /\ answer = NewReceipt
      OBVIOUS
    <2> QED  BY <2>1, <2>3, <2>4, AnswersDurable
  <1>3. ASSUME NEW op \in Operations, NEW live \in BOOLEAN, Replay(op, live)
        PROVE  ConvergedIsDurable'
    <2>1. PICK r \in Recorded(op) : r.op = op /\ Answers(op, r.answer)
      BY <1>3 DEF Replay
    <2>2. SameRecords
      BY <1>3 DEF Replay, Ready, MemoryAheadByCall
    <2>3. r.answer.kind = "converged" => InSidecar(op, r.answer)'
      BY <2>1, <2>2, ReplayedIsDurable, InSidecarStays
    <2> QED  BY <2>1, <2>3, AnswersDurable
  <1>4. ASSUME NEW op, NEW answer, Answers(op, answer), answer.kind # "converged"
        PROVE  ConvergedIsDurable'
    BY <1>4, AnswersDurable
  <1>5. \A kind \in {"io", "rejected"} : Error(kind).kind # "converged"
    BY DEF Error
  <1>6. \A kind, generation, result : Receipt(kind, generation, result).kind = kind
    BY DEF Receipt
  <1>7. ASSUME NEW op \in Operations, NEW live \in BOOLEAN, HostAccept(op, live)
        PROVE  ConvergedIsDurable'
    <2>1. CASE Refuse(op, live) \/ StageFails(op, live)
      <3>1. \E kind \in {"io", "rejected"} : Answers(op, Error(kind))
        BY <2>1 DEF Refuse, StageFails
      <3> QED  BY <3>1, <1>4, <1>5
    <2>2. CASE Stage(op, live)
      BY <2>2, <1>1 DEF Stage
    <2>3. CASE DryRun(op, live)
      <3>1. op.action = "dry_run" /\ \E answer : Answers(op, answer)
        BY <2>3 DEF DryRun
      <3> QED  BY <3>1, AnswersDurable DEF InSidecar
    <2>4. CASE Look(op, live)
      <3>1. op.action = "verify" /\ \E answer : Answers(op, answer)
        BY <2>4 DEF Look
      <3> QED  BY <3>1, AnswersDurable DEF InSidecar
    <2> QED  BY <1>3, <1>7, <2>1, <2>2, <2>3, <2>4 DEF HostAccept
  <1>8. CASE HostRun
    <2>1. CASE ReplaceFails \/ ReversalUnobserved \/ PersistFails
      <3>1. \E kind \in {"io", "rejected"} : Answers(call.op, Error(kind))
        BY <2>1 DEF ReplaceFails, ReversalUnobserved, PersistFails
      <3> QED  BY <3>1, <1>4, <1>5
    <2>2. CASE ReadBackMismatch \/ ReadBackUnrestored
      <3>1. \E kind \in {"failed", "partially_converged"} : \E generation, result :
              Answers(call.op, Receipt(kind, generation, result))
        BY <2>2 DEF ReadBackMismatch, ReadBackUnrestored
      <3> QED  BY <3>1, <1>4, <1>6
    <2>3. CASE Replace \/ RecordApply \/ Restore \/ RecordReversal
      BY <2>3, <1>1 DEF Replace, RecordApply, Restore, RecordReversal
    <2> QED  BY <1>2, <1>8, <2>1, <2>2, <2>3 DEF HostRun
  <1>9. CASE Deliver \/ HostCrash \/ HostRestart \/ ForeignWrite
    BY <1>1, <1>9 DEF Deliver, HostCrash, HostRestart, ForeignWrite
  <1> QED  BY <1>7, <1>8, <1>9 DEF HostNext

---------------------------------------------------------------------------
(* HostInv is inductive.                                                   *)
LEMMA HostInvInit == HostInit => HostInv
  BY TypeInit DEF HostInit, HostInv, MemoryAheadByCall, SameRecords, UnrecordedCall,
     StampsWithin, ConvergedIsDurable, EmptyState, NoCall

LEMMA HostInvNext ==
  ASSUME HostInv, HostNext
  PROVE  HostInv'
  <1> USE DEF HostInv
  <1>1. StampsWithin(disk)' /\ ConvergedIsDurable'
    BY DiskStep, StampsStep, DurableStep
  <1>2. ASSUME NEW op \in Operations, NEW live \in BOOLEAN, HostAccept(op, live)
        PROVE  HostTypeOK' /\ MemoryAheadByCall' /\ UnrecordedCall'
    BY <1>2, TypeAccept, AheadAccept, UnrecordedAccept
  <1>3. CASE HostRun
    BY <1>1, <1>3, TypeRun, AheadRun, UnrecordedRun
  <1>4. CASE Deliver \/ HostCrash \/ HostRestart \/ ForeignWrite
    BY <1>1, <1>4, TypeEnvironment, AheadEnvironment, UnrecordedEnvironment
  <1> QED  BY <1>1, <1>2, <1>3, <1>4 DEF HostNext

LEMMA HostInvStutter ==
  ASSUME HostInv, UNCHANGED hostVars
  PROVE  HostInv'
  BY DEF HostInv, HostTypeOK, MemoryAheadByCall, SameRecords, UnrecordedCall, StampsWithin,
     ConvergedIsDurable, InSidecar, hostVars

LEMMA HostInvAlways == HostSpec => []HostInv
  <1>1. HostInv /\ [HostNext]_hostVars => HostInv'
    BY HostInvNext, HostInvStutter
  <1> QED  BY <1>1, HostInvInit, PTL DEF HostSpec

(* The adapter's files and memory have their types under every caller.     *)
THEOREM HostTypes == HostSpec => []HostTypeOK
  BY HostInvAlways, PTL DEF HostInv

(* A converged receipt is never handed out, or kept to be handed out       *)
(* again, before the sidecar holds it.                                     *)
THEOREM ConvergedDurable == HostSpec => []ConvergedIsDurable
  BY HostInvAlways, PTL DEF HostInv

(* Between two calls the adapter remembers what its sidecar records, never *)
(* an older generation.                                                    *)
THEOREM IdleMemory == HostSpec => []IdleMemoryKnowsDisk
  <1>1. HostInv => IdleMemoryKnowsDisk
    BY DEF HostInv, MemoryAheadByCall, SameRecords, IdleMemoryKnowsDisk, Ready
  <1> QED  BY <1>1, HostInvAlways, PTL

(* Of the operations signed for one generation at most one is recorded.    *)
THEOREM Generations == HostSpec => []OneRecordPerGeneration
  <1>1. HostInv => OneRecordPerGeneration
    <2> SUFFICES ASSUME HostInv PROVE OneRecordPerGeneration
      OBVIOUS
    <2> USE DEF HostInv
    <2>1. StampsWithin(memory)
      <3>1. CASE ~up
        <4>1. memory = EmptyState
          BY <3>1 DEF MemoryAheadByCall
        <4> QED  BY <4>1 DEF EmptyState, StampsWithin
      <3>2. CASE up /\ call.step = "recorded"
        BY <3>2, PersistStamps
      <3>3. CASE up /\ call.step # "recorded"
        <4>1. SameRecords /\ memory.generation >= disk.generation
              /\ memory.generation \in Nat /\ disk.generation \in Nat
          <5>1. /\ memory.generation \in Nat /\ disk.generation \in Nat
                /\ call.step \in Steps
            BY DEF HostTypeOK, Call, AdapterState
          <5>2. CASE call.step = "restored"
            BY <3>3, <5>1, <5>2 DEF MemoryAheadByCall
          <5>3. CASE call.step \in {"idle", "staged", "replaced", "answered"}
            BY <3>3, <5>3, <5>1 DEF MemoryAheadByCall
          <5> QED  BY <3>3, <5>1, <5>2, <5>3 DEF Steps
        <4>2. \A x \in disk.history \cup disk.reversals : x.generation \in Nat
          BY DEF HostTypeOK, AdapterState, HistoryEntry, Reversal
        <4>3. \A x \in disk.history \cup disk.reversals : x.generation <= memory.generation
          BY <4>1, <4>2 DEF StampsWithin
        <4> QED  BY <4>1, <4>3 DEF StampsWithin, SameRecords
      <3> QED  BY <3>1, <3>2, <3>3
    <2>2. ASSUME NEW s, StampsWithin(s)
          PROVE  /\ \A x, y \in Stamps(s) : x[1].expected = y[1].expected => x = y
                 /\ \A x \in Stamps(s) : x[2] = x[1].expected + 1 /\ x[2] <= s.generation
      BY <2>2 DEF StampsWithin, Stamps
    <2> QED  BY <2>1, <2>2 DEF OneRecordPerGeneration
  <1> QED  BY <1>1, HostInvAlways, PTL

(* What the sidecar records is never done to the file again.               *)
THEOREM NeverRepeated == HostSpec => DurableIsNeverRepeated
  <1> DEFINE Once == /\ \A e \in disk.history : effects'[e.op.id] = effects[e.op.id]
                     /\ \A e \in disk.reversals : ~Restores(e.op.id)
  <1>1. HostInv /\ HostNext => Once
    <2> SUFFICES ASSUME HostInv, HostNext PROVE Once
      OBVIOUS
    <2> USE DEF HostInv
    <2>1. CASE Replace
      <3>1. \A e \in disk.history : e.op.id # call.op.id
        BY <2>1 DEF Replace, At, UnrecordedCall
      <3>2. effects' = [effects EXCEPT ![call.op.id] = @ + 1] /\ call'.step = "replaced"
        BY <2>1 DEF Replace, HostTypeOK, Call
      <3> QED  BY <3>1, <3>2 DEF HostTypeOK, Restores, AdapterState, HistoryEntry, Call
    <2>2. CASE Restore
      <3>1. \A e \in disk.reversals : e.op.id # call.op.id
        BY <2>2 DEF Restore, At, UnrecordedCall
      <3> QED  BY <2>2, <3>1 DEF Restore, Restores
    <2>3. CASE RecordApply \/ RecordReversal
      BY <2>3 DEF RecordApply, RecordReversal, At, Restores
    <2>4. ASSUME UNCHANGED effects, call'.step \in Unwritten
          PROVE  Once
      BY <2>4 DEF Restores, Unwritten
    <2>5. CASE ReplaceFails \/ ReadBackMismatch \/ ReadBackUnrestored \/ ReversalUnobserved
               \/ Persist \/ PersistFails
      BY <2>4, <2>5, AnswersStep DEF ReplaceFails, ReadBackMismatch, ReadBackUnrestored,
         ReversalUnobserved, Persist, PersistFails, Unwritten
    <2>6. ASSUME NEW op \in Operations, NEW live \in BOOLEAN, HostAccept(op, live)
          PROVE  Once
      BY <2>4, <2>6, AnswersStep DEF HostAccept, Refuse, Replay, DryRun, Look, Stage, StageFails,
         Unwritten
    <2>7. CASE Deliver \/ HostCrash
      BY <2>4, <2>7 DEF Deliver, HostCrash, NoCall, Unwritten
    <2>8. CASE HostRestart \/ ForeignWrite
      BY <2>8 DEF HostRestart, ForeignWrite, Restores
    <2> QED  BY <2>1, <2>2, <2>3, <2>5, <2>6, <2>7, <2>8 DEF HostNext, HostRun
  <1>2. HostInv /\ [HostNext]_hostVars => [Once]_hostVars
    BY <1>1
  <1> QED  BY <1>2, HostInvAlways, PTL DEF HostSpec, DurableIsNeverRepeated

---------------------------------------------------------------------------
(* The executor.                                                           *)

LEMMA WorkTypes ==
  /\ NoWork \in Work
  /\ \A op \in Operations, station \in Stations, applied \in Answer,
        receipt \in Reasons \cup {"none"} : Handle(station, op, applied, receipt) \in Work
  BY OperationsAssumption, ErrorType DEF NoWork, Work, AnyOperation, Stations, Handle

LEMMA ReasonTypes ==
  /\ \A answer, reading : Lifecycle(answer, reading) \in Reasons
  /\ \A reading \in Readings : AfterRestart(reading) \in Reasons
  /\ \A answer \in Answer : \A reading : RecoveryOutcome(answer, reading) \in RecoveryReasons
  /\ Reasons \cap (RecoveryReasons \cup {"REFUSED", "none"}) = {}
  <1>1. \A answer, reading : Lifecycle(answer, reading) \in Reasons
    BY DEF Lifecycle, Reasons
  <1>2. \A reading \in Readings : AfterRestart(reading) \in Reasons
    BY DEF AfterRestart, Reasons, Readings
  <1>3. \A answer \in Answer : \A reading : RecoveryOutcome(answer, reading) \in RecoveryReasons
    BY DEF RecoveryOutcome, RecoveryReasons
  <1>4. Reasons \cap (RecoveryReasons \cup {"REFUSED", "none"}) = {}
    BY DEF Reasons, RecoveryReasons
  <1> QED  BY <1>1, <1>2, <1>3, <1>4

(* What a receipt says of the adapter's answer.                            *)
LEMMA VerifiedConverged ==
  \A answer, reading :
    /\ Lifecycle(answer, reading) = "EXECUTION_VERIFIED" => answer.kind = "converged"
    /\ Lifecycle(answer, reading) = "EXECUTION_REJECTED_BY_ADAPTER" =>
         answer.kind \notin ReceiptKinds \cup {"io"}
  BY DEF Lifecycle, ReceiptKinds

LEMMA RestartClaimsNothing ==
  \A reading \in Readings :
    AfterRestart(reading) \notin {"EXECUTION_VERIFIED", "EXECUTION_REJECTED_BY_ADAPTER"}
  BY DEF AfterRestart, Readings

---------------------------------------------------------------------------
(* A step of the executor is a step of the adapter host, or leaves the     *)
(* adapter's state alone but for an answer that is dropped.                *)
HostQuiet ==
  /\ UNCHANGED <<file, stages, disk, up, pid, memory, completed, effects>>
  /\ call' = call \/ (up /\ call.step \in {"idle", "answered"} /\ call' = NoCall)
  /\ faults' = faults \/ Fault

LEMMA HostSteps ==
  ASSUME TypeOK, WorkFits, Next
  PROVE  HostNext \/ HostQuiet
  <1>1. ASSUME NEW op \in Operations, AuthorizeApply(op) \/ AuthorizeRecovery(op)
                                        \/ Submit(op)
        PROVE  HostQuiet
    BY <1>1 DEF AuthorizeApply, AuthorizeRecovery, Submit, StartExecution, ResumeReported,
       CloseVerified, ReturnStored, RefuseRequest, StartRecovery, ObserveStarted, Read,
       HostQuiet, hostVars
  <1>2. CASE CallAdapter
    <2>1. work.op \in Operations /\ work.live \in BOOLEAN
      BY DEF TypeOK, Work
    <2> QED  BY <1>2, <2>1 DEF CallAdapter, HostNext
  <1>3. CASE Report \/ TakeRecovery
    BY <1>3 DEF Report, TakeRecovery, HostNext
  <1>4. CASE RecordVerified \/ RecordComplete
    BY <1>4 DEF RecordVerified, RecordComplete, HostQuiet, hostVars
  <1>5. ASSUME NEW reading \in Readings, Verify(reading) \/ ConfirmRecovery(reading)
        PROVE  HostQuiet
    BY <1>5 DEF Verify, ConfirmRecovery, Read, HostQuiet
  <1>6. CASE StorageError
    BY <1>6 DEF StorageError, JournalWriteDue, WorkFits, HostQuiet
  <1>7. CASE Crash \/ Restart \/ ChangeFile
    BY <1>7 DEF Crash, Restart, ChangeFile, HostNext
  <1>8. ASSUME NEW id \in Ids, NEW deadline \in Deadlines, Lapse(id, deadline)
        PROVE  HostQuiet
    BY <1>8 DEF Lapse, HostQuiet, hostVars
  <1> QED  BY <1>1, <1>2, <1>3, <1>4, <1>5, <1>6, <1>7, <1>8 DEF Next, Proceed

LEMMA HostQuietInv ==
  ASSUME HostInv, HostQuiet
  PROVE  HostInv'
  <1>1. faults' \in 0..MaxFaults
    BY FaultType DEF HostQuiet, HostInv, HostTypeOK
  <1>2. CASE call' = call
    BY <1>1, <1>2 DEF HostQuiet, HostInv, HostTypeOK, MemoryAheadByCall, SameRecords,
       UnrecordedCall, StampsWithin, ConvergedIsDurable, InSidecar
  <1>3. CASE up /\ call.step \in {"idle", "answered"} /\ call' = NoCall
    <2>1. HostTypeOK'
      BY <1>1, <1>3, NoCallType DEF HostQuiet, HostInv, HostTypeOK
    <2>2. call'.step = "idle"
      BY <1>3 DEF NoCall
    <2> QED  BY <1>3, <2>1, <2>2 DEF HostQuiet, HostInv, MemoryAheadByCall, SameRecords,
             UnrecordedCall, StampsWithin, ConvergedIsDurable, InSidecar
  <1> QED  BY <1>2, <1>3 DEF HostQuiet

LEMMA HostInvStep ==
  ASSUME TypeOK, HostInv, WorkFits, Next
  PROVE  HostInv'
  BY HostSteps, HostQuietInv, HostInvNext

---------------------------------------------------------------------------
(* Types of the controller's state.                                        *)
ControllerTypes ==
  /\ authorized \subseteq Operations /\ recoveries \subseteq authorized
  /\ journal \in [Ids -> Row]
  /\ lapsed \subseteq MayLapse
  /\ work \in Work
  /\ replies \in [Ids -> Reasons \cup RecoveryReasons \cup {"REFUSED", "none"}]

LEMMA SubmitTypes ==
  ASSUME TypeOK, NEW op \in Operations,
         AuthorizeApply(op) \/ AuthorizeRecovery(op) \/ Submit(op)
  PROVE  ControllerTypes'
  <1> USE DEF TypeOK
  <1>0. op.id \in Ids /\ journal[op.id] \in Row /\ Error("none") \in Answer
    BY OperationFields, ErrorType
  <1>1. CASE AuthorizeApply(op) \/ AuthorizeRecovery(op)
    BY <1>1 DEF AuthorizeApply, AuthorizeRecovery, ControllerTypes
  <1>2. CASE StartExecution(op)
    <2>1. work' \in Work
      BY <1>0, <1>2, WorkTypes DEF StartExecution, Stations
    <2> QED  BY <1>0, <1>2, <2>1 DEF StartExecution, ControllerTypes, Row, Phases
  <1>3. CASE ResumeReported(op) \/ CloseVerified(op) \/ StartRecovery(op)
    <2>1. work' \in Work
      BY <1>0, <1>3, WorkTypes DEF ResumeReported, CloseVerified, StartRecovery, Stations, Row
    <2> QED  BY <1>3, <2>1 DEF ResumeReported, CloseVerified, StartRecovery, ControllerTypes
  <1>4. CASE ReturnStored(op) \/ RefuseRequest(op)
    BY <1>0, <1>4 DEF ReturnStored, RefuseRequest, Reply, Row, ControllerTypes
  <1>5. ASSUME NEW reading \in Readings, ObserveStarted(op, reading)
        PROVE  ControllerTypes'
    <2>1. AfterRestart(reading) \in Reasons
      BY ReasonTypes
    <2>2. work' \in Work
      BY <1>0, <1>5, <2>1, WorkTypes DEF ObserveStarted, Stations
    <2> QED  BY <1>5, <2>2 DEF ObserveStarted, ControllerTypes
  <1> QED  BY <1>1, <1>2, <1>3, <1>4, <1>5 DEF Submit

LEMMA ProceedTypes ==
  ASSUME TypeOK, RowsFit, WorkMatchesRow, Proceed \/ StorageError
  PROVE  ControllerTypes'
  <1> USE DEF TypeOK
  <1>0. /\ work \in Work /\ work.op \in Operations /\ work.op.id \in Ids
        /\ work.applied \in Answer /\ call.answer \in Answer
    BY OperationFields DEF Work, HostTypeOK, Call
  <1>1. CASE CallAdapter
    BY <1>1 DEF CallAdapter, controllerVars, ControllerTypes
  <1>2. CASE Report
    <2>1. work' \in Work
      BY <1>0, <1>2 DEF Report, Work, Stations
    <2>2. journal' \in [Ids -> Row]
      BY <1>0, <1>2 DEF Report, Row, Phases
    <2> QED  BY <1>2, <2>1, <2>2 DEF Report, ControllerTypes
  <1>3. CASE RecordVerified
    <2>1. work.receipt \in Reasons
      BY <1>3, ReasonTypes DEF RecordVerified, WorkMatchesRow
    <2> QED  BY <1>0, <1>3, <2>1 DEF RecordVerified, ControllerTypes, Work, Row, Phases, Stations
  <1>4. CASE RecordComplete
    <2>1. work.receipt \in Reasons
      <3>1. CASE Started
        BY <1>4, <3>1, ReasonTypes DEF RecordComplete, WorkMatchesRow, Started
      <3>2. CASE journal[work.op.id].phase = "verified" /\ journal[work.op.id].receipt = work.receipt
        BY <1>0, <3>2 DEF RowsFit, Row
      <3> QED  BY <1>4, <3>1, <3>2 DEF RecordComplete, WorkMatchesRow
    <2>2. journal' \in [Ids -> Row]
      BY <1>0, <1>4, <2>1 DEF RecordComplete, Row, Phases
    <2> QED  BY <1>0, <1>4, <2>1, <2>2, WorkTypes DEF RecordComplete, Reply, ControllerTypes
  <1>5. CASE TakeRecovery
    BY <1>0, <1>5 DEF TakeRecovery, ControllerTypes, Work, Stations
  <1>6. ASSUME NEW reading \in Readings, Verify(reading)
        PROVE  ControllerTypes'
    BY <1>0, <1>6, ReasonTypes DEF Verify, ControllerTypes, Work, Stations
  <1>7. ASSUME NEW reading \in Readings, ConfirmRecovery(reading)
        PROVE  ControllerTypes'
    BY <1>0, <1>7, ReasonTypes, WorkTypes DEF ConfirmRecovery, Reply, ControllerTypes
  <1>8. CASE StorageError
    BY <1>0, <1>8, WorkTypes DEF StorageError, Reply, ControllerTypes
  <1> QED  BY <1>1, <1>2, <1>3, <1>4, <1>5, <1>6, <1>7, <1>8 DEF Proceed

LEMMA TypeStep ==
  ASSUME TypeOK, HostInv, RowsFit, WorkFits, WorkMatchesRow, Next
  PROVE  TypeOK'
  <1>1. HostTypeOK'
    BY HostInvStep DEF HostInv
  <1>2. ASSUME Crash \/ Restart \/ ChangeFile
        PROVE  ControllerTypes'
    BY <1>2, WorkTypes DEF Crash, Restart, ChangeFile, controllerVars, TypeOK, ControllerTypes
  <1>3. ASSUME NEW id \in Ids, NEW deadline \in Deadlines, Lapse(id, deadline)
        PROVE  ControllerTypes'
    BY <1>3 DEF Lapse, TypeOK, ControllerTypes
  <1>4. ControllerTypes'
    BY <1>2, <1>3, SubmitTypes, ProceedTypes DEF Next
  <1> QED  BY <1>1, <1>4 DEF TypeOK, ControllerTypes

---------------------------------------------------------------------------
(* The steps that write to a store: everything else leaves all of them     *)
(* alone.                                                                  *)
stores == <<authorized, recoveries, journal, effects, disk>>

LEMMA StoresStep ==
  ASSUME Next
  PROVE  \/ UNCHANGED stores
         \/ \E op \in Operations :
              AuthorizeApply(op) \/ AuthorizeRecovery(op) \/ StartExecution(op)
         \/ Report \/ RecordVerified \/ RecordComplete
         \/ CallAdapter /\ (Replace \/ Persist)
  <1>1. ASSUME NEW op \in Operations, Submit(op)
        PROVE  UNCHANGED stores \/ StartExecution(op)
    BY <1>1 DEF Submit, ResumeReported, CloseVerified, ReturnStored, RefuseRequest,
       StartRecovery, ObserveStarted, hostVars, stores
  <1>2. ASSUME CallAdapter
        PROVE  UNCHANGED stores \/ Replace \/ Persist
    <2>1. UNCHANGED <<authorized, recoveries, journal>>
      BY <1>2 DEF CallAdapter, controllerVars
    <2>2. (HostAccept(work.op, work.live) \/ HostRun) =>
            UNCHANGED <<effects, disk>> \/ Replace \/ Persist
      BY DEF HostAccept, HostRun, Refuse, Replay, DryRun, Look, Stage, StageFails, ReplaceFails,
         RecordApply, ReadBackMismatch, ReadBackUnrestored, Restore, RecordReversal,
         ReversalUnobserved, PersistFails
    <2> QED  BY <1>2, <2>1, <2>2 DEF CallAdapter, stores
  <1>3. TakeRecovery => UNCHANGED stores
    BY DEF TakeRecovery, Deliver, stores
  <1>4. ASSUME NEW reading \in Readings, Verify(reading) \/ ConfirmRecovery(reading)
        PROVE  UNCHANGED stores
    BY <1>4 DEF Verify, ConfirmRecovery, stores
  <1>5. StorageError => UNCHANGED stores
    BY DEF StorageError, stores
  <1>6. Crash \/ Restart \/ ChangeFile => UNCHANGED stores
    BY DEF Crash, Restart, ChangeFile, HostCrash, HostRestart, ForeignWrite, controllerVars, stores
  <1>7. ASSUME NEW id \in Ids, NEW deadline \in Deadlines, Lapse(id, deadline)
        PROVE  UNCHANGED stores
    BY <1>7 DEF Lapse, hostVars, stores
  <1> QED  BY <1>1, <1>2, <1>3, <1>4, <1>5, <1>6, <1>7 DEF Next, Proceed

(* An operation is authorized under an identifier nobody has used.         *)
LEMMA AuthorizeStores ==
  ASSUME TypeOK, StoresAgree, NEW op \in Operations, AuthorizeApply(op) \/ AuthorizeRecovery(op)
  PROVE  StoresAgree'
  <1> USE DEF StoresAgree
  <1>1. /\ authorized' = authorized \cup {op} /\ UNCHANGED <<hostVars, journal>>
        /\ \/ recoveries' = recoveries
           \/ recoveries' = recoveries \cup {op} /\ RecoveryGate(op)
        /\ \A o \in authorized : o.id # op.id
        /\ authorized \subseteq Operations /\ recoveries \subseteq authorized
    BY DEF AuthorizeApply, AuthorizeRecovery, Unclaimed, TypeOK
  <1>2. UNCHANGED <<disk, effects, journal>>
    BY <1>1 DEF hostVars
  <1>3. journal[op.id].phase = "none"
    BY <1>1, OperationFields DEF RowsFit
  <1>4. OneEffect' /\ AuthorizedOnce' /\ HistoryFits' /\ RejectedHadNoEffect'
    BY <1>1, <1>2 DEF OneEffect, AuthorizedOnce, HistoryFits, RejectedHadNoEffect
  <1>5. \A o \in authorized \ recoveries : o \in authorized' \ recoveries'
    BY <1>1
  <1>6. VerifiedIsDurable'
    BY <1>2, <1>5 DEF VerifiedIsDurable, InSidecar
  <1>7. RowsFit'
    BY <1>1, <1>2, <1>3, <1>5 DEF RowsFit, TrueOf, InSidecar
  <1>8. ReversalsFit'
    BY <1>1, <1>2 DEF ReversalsFit, RecoveryGate
  <1> QED  BY <1>4, <1>6, <1>7, <1>8

LEMMA StoresStay ==
  ASSUME StoresAgree, UNCHANGED stores
  PROVE  StoresAgree'
  BY DEF StoresAgree, stores, OneEffect, AuthorizedOnce, RowsFit, ReversalsFit, HistoryFits,
     VerifiedIsDurable, RejectedHadNoEffect, TrueOf, InSidecar, RecoveryGate

(* What the receipt EXECUTION_VERIFIED promises of an operation.           *)
VerifiedOf(id, answer) ==
  \E o \in authorized \ recoveries :
    /\ o.id = id /\ InSidecar(o, answer)
    /\ effects[id] = IF o.action = "apply" THEN 1 ELSE 0

(* A row advances: what it says stays true, and closed rows do not change. *)
LEMMA RowAdvances ==
  ASSUME TypeOK, StoresAgree, NEW id \in Ids, NEW row \in Row,
         UNCHANGED <<authorized, recoveries, effects, disk>>,
         journal' = [journal EXCEPT ![id] = row],
         journal[id].phase # "complete", row.phase # "none",
         journal[id].receipt # "none" => row.receipt = journal[id].receipt /\ row.adapter = journal[id].adapter,
         \E o \in authorized \ recoveries : o.id = id,
         row.receipt = "none" <=> row.phase \notin {"verified", "complete"},
         row.phase = "adapter_reported" =>
           row.adapter.kind \in ReceiptKinds
             /\ \A o \in authorized : o.id = id => TrueOf(o, row.adapter),
         row.receipt = "EXECUTION_VERIFIED" => VerifiedOf(id, row.adapter),
         row.receipt = "EXECUTION_REJECTED_BY_ADAPTER" => effects[id] = 0
  PROVE  StoresAgree'
  <1> USE DEF StoresAgree
  <1>1. /\ journal'[id] = row /\ \A other \in Ids \ {id} : journal'[other] = journal[other]
        /\ authorized \subseteq Operations /\ recoveries \subseteq authorized
    BY DEF TypeOK
  <1>2. OneEffect' /\ AuthorizedOnce' /\ HistoryFits'
    BY DEF OneEffect, AuthorizedOnce, HistoryFits
  <1>3. VerifiedIsDurable' /\ RejectedHadNoEffect'
    BY <1>1 DEF VerifiedIsDurable, RejectedHadNoEffect, VerifiedOf, InSidecar
  <1>4. RowsFit'
    BY <1>1 DEF RowsFit, TrueOf, InSidecar
  <1>5. \A o \in recoveries : RecoveryGate(o) => RecoveryGate(o)'
    BY <1>1, OperationFields DEF RecoveryGate
  <1>6. ReversalsFit'
    BY <1>5 DEF ReversalsFit
  <1> QED  BY <1>2, <1>3, <1>4, <1>6

LEMMA StartStores ==
  ASSUME TypeOK, StoresAgree, NEW op \in Operations, StartExecution(op)
  PROVE  StoresAgree'
  <1> DEFINE row == [journal[op.id] EXCEPT !.phase = "started"]
  <1>1. /\ op.id \in Ids /\ journal[op.id] \in Row /\ op \in authorized \ recoveries
        /\ journal[op.id].phase = "none" /\ UNCHANGED <<authorized, recoveries, effects, disk>>
        /\ journal' = [journal EXCEPT ![op.id] = row]
    BY OperationFields DEF StartExecution, Resumes, PhaseOf, TypeOK, hostVars
  <1>2. journal[op.id].receipt = "none"
    BY <1>1 DEF StoresAgree, RowsFit
  <1>3. row \in Row /\ row.phase = "started" /\ row.receipt = "none"
    BY <1>1, <1>2 DEF Row, Phases
  <1> HIDE DEF row
  <1> QED  BY <1>1, <1>2, <1>3, RowAdvances

LEMMA ReportStores ==
  ASSUME TypeOK, StoresAgree, WorkAgrees, Report
  PROVE  StoresAgree'
  <1> DEFINE id == work.op.id
             row == [journal[id] EXCEPT !.phase = "adapter_reported", !.adapter = call.answer]
  <1>1. /\ work.op \in Operations /\ work.op \in authorized \ recoveries
        /\ id \in Ids /\ journal[id] \in Row /\ journal[id].phase = "started"
        /\ journal[id].receipt = "none"
        /\ call.answer \in Answer /\ call.op = work.op /\ TrueOf(work.op, call.answer)
    <2>1. work.op \in Operations /\ call.answer \in Answer /\ work.at = "executing"
          /\ call.step = "answered"
      BY DEF Report, Deliver, TypeOK, HostTypeOK, Call, Work
    <2>2. id \in Ids /\ journal[id] \in Row
      BY <2>1, OperationFields DEF TypeOK
    <2>3. /\ work.op \in authorized \ recoveries
          /\ journal[id].phase = "started" /\ call.op = work.op /\ TrueOf(call.op, call.answer)
      BY <2>1 DEF WorkAgrees, WorkFits, WorkMatchesRow, CallMatchesEffects, Started
    <2>4. journal[id].receipt = "none"
      BY <2>2, <2>3 DEF StoresAgree, RowsFit
    <2> QED  BY <2>1, <2>2, <2>3, <2>4
  <1>2. UNCHANGED <<authorized, recoveries, effects, disk>>
    BY DEF Report, Deliver
  <1>3. CASE call.answer.kind \in ReceiptKinds
    <2>1. journal' = [journal EXCEPT ![id] = row]
      BY <1>1, <1>3 DEF Report, TypeOK
    <2>2. row \in Row /\ row.phase = "adapter_reported" /\ row.receipt = "none"
          /\ row.adapter = call.answer
      BY <1>1 DEF Row, Phases
    <2>3. \A o \in authorized : o.id = id => o = work.op
      BY <1>1 DEF StoresAgree, AuthorizedOnce
    <2>4. /\ journal[id].phase # "complete" /\ row.phase # "none" /\ row.receipt = "none"
          /\ \E o \in authorized \ recoveries : o.id = id
          /\ row.adapter.kind \in ReceiptKinds
          /\ \A o \in authorized : o.id = id => TrueOf(o, row.adapter)
      BY <1>1, <1>3, <2>2, <2>3
    <2> HIDE DEF row, id
    <2>5. id \in Ids
      BY <1>1
    <2> QED  BY <1>1, <1>2, <2>1, <2>2, <2>4, <2>5, RowAdvances
  <1>4. CASE call.answer.kind \notin ReceiptKinds
    <2>1. UNCHANGED stores
      BY <1>2, <1>4 DEF Report, stores
    <2> QED  BY <2>1, StoresStay
  <1> QED  BY <1>3, <1>4

(* An operation that is not an apply never counts as one.                  *)
LEMMA EffectsOf ==
  ASSUME TypeOK, StoresAgree, NEW o \in authorized, o.action # "apply"
  PROVE  effects[o.id] = 0
  BY OperationFields DEF TypeOK, StoresAgree, OneEffect, AuthorizedOnce

LEMMA RecordVerifiedStores ==
  ASSUME TypeOK, StoresAgree, WorkAgrees, RecordVerified
  PROVE  StoresAgree'
  <1> DEFINE id == work.op.id
             row == [journal[id] EXCEPT !.phase = "verified", !.receipt = work.receipt]
  <1>1. /\ work.op \in Operations /\ work.op \in authorized \ recoveries
        /\ id \in Ids /\ journal[id] \in Row /\ work.at = "recording"
    BY OperationFields DEF RecordVerified, WorkAgrees, WorkFits, TypeOK, Work
  <1>2. PICK reading \in Readings : work.receipt = Lifecycle(work.applied, reading)
    BY <1>1 DEF WorkAgrees, WorkMatchesRow
  <1>3. /\ TrueOf(work.op, work.applied)
        /\ work.applied.kind \in ReceiptKinds =>
             journal[id].phase = "adapter_reported" /\ journal[id].adapter = work.applied
        /\ journal[id].phase \in {"started", "adapter_reported"}
    BY <1>1 DEF WorkAgrees, WorkMatchesRow, Started
  <1>4. journal[id].receipt = "none"
    BY <1>1, <1>3 DEF StoresAgree, RowsFit
  <1>5. work.receipt \in Reasons /\ work.receipt # "none"
    BY <1>2, ReasonTypes
  <1>6. journal' = [journal EXCEPT ![id] = row] /\ UNCHANGED <<authorized, recoveries, effects, disk>>
    BY <1>1 DEF RecordVerified, TypeOK, hostVars
  <1>7. row \in Row /\ row.phase = "verified" /\ row.receipt = work.receipt
        /\ row.adapter = journal[id].adapter
    BY <1>1, <1>5 DEF Row, Phases
  <1>8. work.receipt = "EXECUTION_VERIFIED" => VerifiedOf(id, journal[id].adapter)
    <2> SUFFICES ASSUME work.receipt = "EXECUTION_VERIFIED"
                 PROVE  VerifiedOf(id, journal[id].adapter)
      OBVIOUS
    <2>1. work.applied.kind = "converged"
      BY <1>2, VerifiedConverged
    <2>2. journal[id].adapter = work.applied /\ InSidecar(work.op, work.applied)
      BY <1>3, <2>1 DEF TrueOf, ReceiptKinds
    <2>3. effects[id] = IF work.op.action = "apply" THEN 1 ELSE 0
      BY <1>1, <1>3, <2>1, EffectsOf DEF TrueOf
    <2> QED  BY <1>1, <2>2, <2>3 DEF VerifiedOf
  <1>9. work.receipt = "EXECUTION_REJECTED_BY_ADAPTER" => effects[id] = 0
    <2>1. work.receipt = "EXECUTION_REJECTED_BY_ADAPTER" =>
            work.applied.kind \notin ReceiptKinds \cup {"io"}
      BY <1>2, VerifiedConverged
    <2> QED  BY <1>1, <1>3, <2>1, EffectsOf DEF TrueOf
  <1> QED  BY <1>1, <1>3, <1>4, <1>5, <1>6, <1>7, <1>8, <1>9, RowAdvances

LEMMA RecordCompleteStores ==
  ASSUME TypeOK, StoresAgree, WorkAgrees, RecordComplete
  PROVE  StoresAgree'
  <1> DEFINE id == work.op.id
             row == [journal[id] EXCEPT !.phase = "complete", !.receipt = work.receipt]
  <1>1. /\ work.op \in Operations /\ work.op \in authorized \ recoveries
        /\ id \in Ids /\ journal[id] \in Row /\ work.at = "closing"
    BY OperationFields DEF RecordComplete, WorkAgrees, WorkFits, TypeOK, Work
  <1>2. \/ journal[id].phase = "verified" /\ journal[id].receipt = work.receipt
        \/ journal[id].phase = "started" /\ journal[id].receipt = "none"
             /\ \E reading \in Readings : work.receipt = AfterRestart(reading)
    BY <1>1 DEF WorkAgrees, WorkMatchesRow, Started, StoresAgree, RowsFit
  <1>3. work.receipt \in Reasons /\ work.receipt # "none"
    BY <1>1, <1>2, ReasonTypes DEF StoresAgree, RowsFit, Row
  <1>4. journal' = [journal EXCEPT ![id] = row] /\ UNCHANGED <<authorized, recoveries, effects, disk>>
    BY <1>1 DEF RecordComplete, TypeOK, hostVars
  <1>5. row \in Row /\ row.phase = "complete" /\ row.receipt = work.receipt
        /\ row.adapter = journal[id].adapter
    BY <1>1, <1>3 DEF Row, Phases
  <1>6. /\ work.receipt = "EXECUTION_VERIFIED" => VerifiedOf(id, journal[id].adapter)
        /\ work.receipt = "EXECUTION_REJECTED_BY_ADAPTER" => effects[id] = 0
    BY <1>1, <1>2, RestartClaimsNothing
       DEF StoresAgree, VerifiedIsDurable, RejectedHadNoEffect, VerifiedOf
  <1> QED  BY <1>1, <1>2, <1>3, <1>4, <1>5, <1>6, RowAdvances

(* The rename: only the apply being executed is replaced, for the first    *)
(* time.                                                                   *)
LEMMA ReplaceStores ==
  ASSUME TypeOK, StoresAgree, WorkAgrees, CallAdapter, Replace
  PROVE  StoresAgree'
  <1> DEFINE id == work.op.id
  <1>1. /\ call.op = work.op /\ work.at = "executing" /\ id \in Ids /\ effects[id] = 0
        /\ journal[id].phase = "started" /\ work.op \in authorized /\ work.op.action = "apply"
    <2>1. call.step = "staged" /\ call.op.action = "apply" /\ work.op \in Operations
      BY DEF Replace, At, TypeOK, Work
    <2>2. call.op = work.op /\ work.at = "executing" /\ work.op \in authorized
      BY <2>1 DEF WorkAgrees, WorkFits, StoresAgree, ReversalsFit, RecoveryGate
    <2> QED  BY <2>1, <2>2, OperationFields
             DEF WorkAgrees, WorkMatchesRow, Started, CallMatchesEffects
  <1>2. /\ effects'[id] = 1 /\ \A other \in Ids \ {id} : effects'[other] = effects[other]
        /\ UNCHANGED <<authorized, recoveries, journal, disk>>
    BY <1>1 DEF Replace, CallAdapter, controllerVars, TypeOK, HostTypeOK
  <1>3. journal[id].receipt = "none"
    BY <1>1 DEF StoresAgree, RowsFit
  <1>4. authorized \subseteq Operations /\ disk.history \subseteq HistoryEntry
    BY DEF TypeOK, HostTypeOK, AdapterState
  <1> USE DEF StoresAgree
  <1> HIDE DEF id
  <1>5. OneEffect' /\ AuthorizedOnce'
    <2>1. \E o \in authorized : o.id = id /\ o.action = "apply"
      BY <1>1 DEF id
    <2> QED  BY <1>2, <2>1 DEF OneEffect, AuthorizedOnce
  <1>6. VerifiedIsDurable' /\ RejectedHadNoEffect'
    BY <1>2, <1>3 DEF VerifiedIsDurable, RejectedHadNoEffect, InSidecar
  <1>7. RowsFit'
    BY <1>1, <1>2 DEF RowsFit, TrueOf, InSidecar
  <1>8. HistoryFits'
    <2>1. \A e \in disk.history : e.op.id \in Ids \ {id}
      BY <1>1, <1>4, OperationFields DEF HistoryFits, HistoryEntry
    <2> QED  BY <1>2, <2>1 DEF HistoryFits
  <1>9. ReversalsFit'
    BY <1>2 DEF ReversalsFit, RecoveryGate
  <1> QED  BY <1>5, <1>6, <1>7, <1>8, <1>9

(* The sidecar gains the call being handled: an apply that replaced the    *)
(* file, or a reversal at the generation it was authorized for.            *)
LEMMA PersistStores ==
  ASSUME TypeOK, HostInv, StoresAgree, WorkAgrees, CallAdapter, Persist
  PROVE  StoresAgree'
  <1> USE DEF StoresAgree, HostInv
  <1>1. /\ up /\ call.step = "recorded" /\ disk' = memory
        /\ UNCHANGED <<authorized, recoveries, journal, effects>>
        /\ call.op = work.op /\ work.op \in authorized /\ work.op \in Operations
        /\ work.at \in {"executing", "recovering"}
        /\ work.op.action \in Changing
    BY DEF Persist, CallAdapter, controllerVars, WorkAgrees, WorkFits, TypeOK, Work, UnrecordedCall
  <1>2. HostNext
    BY DEF HostNext, HostRun
  <1>3. disk.history \subseteq disk'.history /\ disk.reversals \subseteq disk'.reversals
    BY <1>2, SidecarGrows
  <1>4. OneEffect' /\ AuthorizedOnce' /\ RejectedHadNoEffect'
    BY <1>1 DEF OneEffect, AuthorizedOnce, RejectedHadNoEffect
  <1>0. \A op, answer : InSidecar(op, answer) => InSidecar(op, answer)'
    BY <1>3 DEF InSidecar
  <1>5. VerifiedIsDurable'
    BY <1>1, <1>0 DEF VerifiedIsDurable
  <1>6. RowsFit'
    <2>1. \A op, answer : TrueOf(op, answer) => TrueOf(op, answer)'
      BY <1>1, <1>0 DEF TrueOf
    <2> QED  BY <1>1, <2>1 DEF RowsFit
  <1>7. CASE work.op.action = "apply"
    <2>1. work.at = "executing" /\ effects[call.op.id] = 1
      BY <1>1, <1>7 DEF WorkAgrees, WorkFits, CallMatchesEffects, ReversalsFit, RecoveryGate
    <2>2. /\ disk'.reversals = disk.reversals
          /\ disk'.history = disk.history \cup
               {[op |-> call.op, old |-> call.old, generation |-> memory.generation]}
          /\ \A e \in disk.history : e.op.id # call.op.id
      BY <1>1, <1>7 DEF MemoryAheadByCall, UnrecordedCall
    <2>3. HistoryFits'
      BY <1>1, <1>7, <2>1, <2>2 DEF HistoryFits
    <2>4. ReversalsFit'
      BY <1>1, <2>2 DEF ReversalsFit, RecoveryGate
    <2> QED  BY <1>4, <1>5, <1>6, <2>3, <2>4
  <1>8. CASE work.op.action # "apply"
    <2>1. call.op.action = "rollback"
      BY <1>1, <1>8 DEF Changing
    <2>2. /\ disk'.history = disk.history
          /\ \E result \in Contents :
               disk'.reversals = disk.reversals \cup
                 {[op |-> call.op, generation |-> memory.generation, result |-> result]}
      BY <1>1, <1>8 DEF MemoryAheadByCall
    <2>3. HistoryFits'
      BY <1>1, <2>2 DEF HistoryFits
    <2>4. ReversalsFit'
      BY <1>1, <2>1, <2>2 DEF ReversalsFit, RecoveryGate
    <2> QED  BY <1>4, <1>5, <1>6, <2>3, <2>4
  <1> QED  BY <1>7, <1>8

LEMMA StoresAgreeStep ==
  ASSUME ExecutionInv, Next
  PROVE  StoresAgree'
  <1>1. TypeOK /\ HostInv /\ StoresAgree /\ WorkAgrees
    BY DEF ExecutionInv
  <1> QED  BY <1>1, StoresStep, StoresStay, AuthorizeStores, StartStores, ReportStores,
           RecordVerifiedStores, RecordCompleteStores, ReplaceStores, PersistStores

---------------------------------------------------------------------------
(* The request being handled.  A step that ends it, or finds none, leaves  *)
(* nothing to agree with.                                                  *)
LEMMA NothingToDo ==
  ASSUME work'.at = "idle", ~up' => work' = NoWork, call'.step = "idle"
  PROVE  WorkAgrees'
  BY DEF WorkAgrees, WorkFits, WorkMatchesRow, CallMatchesEffects

LEMMA WorkStays ==
  ASSUME WorkAgrees, UNCHANGED <<up, call, work, authorized, recoveries, journal, effects, disk, memory>>
  PROVE  WorkAgrees'
  BY DEF WorkAgrees, WorkFits, WorkMatchesRow, Started, CallMatchesEffects, TrueOf, InSidecar

LEMMA IdleCall ==
  ASSUME WorkFits, work.at \notin {"executing", "recovering"}
  PROVE  call.step = "idle"
  BY DEF WorkFits

LEMMA SubmitWork ==
  ASSUME TypeOK, StoresAgree, WorkAgrees, NEW op \in Operations,
         AuthorizeApply(op) \/ AuthorizeRecovery(op) \/ Submit(op)
  PROVE  WorkAgrees'
  <1>0. /\ WorkFits /\ op.id \in Ids /\ journal[op.id] \in Row
        /\ RowsFit /\ AuthorizedOnce /\ authorized \subseteq Operations
    BY OperationFields DEF WorkAgrees, StoresAgree, TypeOK
  <1>1. CASE AuthorizeApply(op) \/ AuthorizeRecovery(op) \/ ReturnStored(op) \/ RefuseRequest(op)
    <2>1. Idle /\ UNCHANGED <<up, call, work>>
      BY <1>1 DEF AuthorizeApply, AuthorizeRecovery, ReturnStored, RefuseRequest, Resumes, hostVars
    <2> QED  BY <1>0, <2>1, IdleCall, NothingToDo DEF Idle
  <1>2. CASE StartExecution(op)
    <2>1. /\ op \in authorized \ recoveries /\ up /\ call.step = "idle"
          /\ journal[op.id].phase = "none"
          /\ UNCHANGED <<up, call, authorized, recoveries, effects, disk, memory>>
      BY <1>0, <1>2, IdleCall DEF StartExecution, Resumes, Idle, PhaseOf, hostVars
    <2>2. work'.at = "executing" /\ work'.op = op /\ journal'[op.id].phase = "started"
      BY <1>0, <1>2 DEF StartExecution, Handle, TypeOK
    <2>3. effects[op.id] = 0
      BY <1>0, <2>1 DEF RowsFit
    <2> QED  BY <2>1, <2>2, <2>3
             DEF WorkAgrees, WorkFits, WorkMatchesRow, Started, CallMatchesEffects
  <1>3. CASE ResumeReported(op)
    <2>1. /\ op \in authorized \ recoveries /\ up /\ call.step = "idle"
          /\ journal[op.id].phase = "adapter_reported"
          /\ UNCHANGED <<up, call, authorized, recoveries, journal, effects, disk, memory>>
      BY <1>0, <1>3, IdleCall DEF ResumeReported, Resumes, Idle, PhaseOf, hostVars
    <2>2. work'.at = "verifying" /\ work'.op = op /\ work'.applied = journal[op.id].adapter
      BY <1>3 DEF ResumeReported, Handle
    <2>3. journal[op.id].adapter.kind \in ReceiptKinds /\ TrueOf(op, journal[op.id].adapter)
      BY <1>0, <2>1 DEF RowsFit
    <2> QED  BY <2>1, <2>2, <2>3
             DEF WorkAgrees, WorkFits, WorkMatchesRow, Started, CallMatchesEffects, TrueOf, InSidecar
  <1>4. CASE CloseVerified(op)
    BY <1>0, <1>4, IdleCall
       DEF CloseVerified, Resumes, Idle, PhaseOf, hostVars, Handle,
           WorkAgrees, WorkFits, WorkMatchesRow, Started, CallMatchesEffects
  <1>5. CASE StartRecovery(op)
    BY <1>0, <1>5, IdleCall
       DEF StartRecovery, RecoveryGate, Idle, hostVars, Handle,
           WorkAgrees, WorkFits, WorkMatchesRow, Started, CallMatchesEffects
  <1>6. ASSUME NEW reading \in Readings, ObserveStarted(op, reading)
        PROVE  WorkAgrees'
    BY <1>0, <1>6, IdleCall
       DEF ObserveStarted, Resumes, Idle, PhaseOf, Handle,
           WorkAgrees, WorkFits, WorkMatchesRow, Started, CallMatchesEffects
  <1> QED  BY <1>1, <1>2, <1>3, <1>4, <1>5, <1>6 DEF Submit

LEMMA ProceedWork ==
  ASSUME TypeOK, StoresAgree, WorkAgrees, (Proceed /\ ~CallAdapter) \/ StorageError
  PROVE  WorkAgrees'
  <1>0. WorkFits /\ work \in Work /\ work.op \in Operations /\ work.op.id \in Ids
    BY OperationFields DEF WorkAgrees, TypeOK, Work
  <1>1. CASE Report
    <2>1. /\ up /\ work.at = "executing" /\ call.step = "answered" /\ call' = NoCall
          /\ UNCHANGED <<up, authorized, recoveries, effects, disk, memory>>
      BY <1>1 DEF Report, Deliver
    <2>2. /\ work.op \in authorized \ recoveries /\ call.op = work.op
          /\ journal[work.op.id].phase = "started" /\ TrueOf(work.op, call.answer)
      BY <2>1 DEF WorkAgrees, WorkFits, WorkMatchesRow, CallMatchesEffects, Started
    <2>3. work'.at = "verifying" /\ work'.op = work.op /\ work'.applied = call.answer
      BY <1>0, <1>1 DEF Report, Work
    <2>4. IF call.answer.kind \in ReceiptKinds
          THEN journal'[work.op.id].phase = "adapter_reported"
                 /\ journal'[work.op.id].adapter = call.answer
          ELSE journal'[work.op.id].phase = "started"
      BY <1>0, <1>1, <2>2 DEF Report, TypeOK, Row
    <2>5. WorkFits' /\ CallMatchesEffects'
      BY <2>1, <2>2, <2>3 DEF WorkFits, CallMatchesEffects, NoCall
    <2>6. WorkMatchesRow'
      BY <2>1, <2>2, <2>3, <2>4 DEF WorkMatchesRow, Started, TrueOf, InSidecar
    <2> QED  BY <2>5, <2>6 DEF WorkAgrees
  <1>2. ASSUME NEW reading \in Readings, Verify(reading)
        PROVE  WorkAgrees'
    <2>1. /\ up /\ work.at = "verifying" /\ call.step = "idle"
          /\ UNCHANGED <<up, call, authorized, recoveries, journal, effects, disk, memory>>
      BY <1>0, <1>2, IdleCall DEF Verify
    <2>2. /\ work'.at = "recording" /\ work'.op = work.op /\ work'.applied = work.applied
          /\ work'.receipt = Lifecycle(work.applied, reading)
      BY <1>0, <1>2 DEF Verify, Work
    <2>3. WorkFits' /\ CallMatchesEffects'
      BY <2>1, <2>2 DEF WorkAgrees, WorkFits, CallMatchesEffects
    <2>4. WorkMatchesRow'
      BY <1>2, <2>1, <2>2 DEF WorkAgrees, WorkMatchesRow, Started, TrueOf, InSidecar
    <2> QED  BY <2>3, <2>4 DEF WorkAgrees
  <1>3. CASE RecordVerified
    <2>1. /\ up /\ work.at = "recording" /\ call.step = "idle"
          /\ UNCHANGED <<up, call, authorized, recoveries>>
      BY <1>0, <1>3, IdleCall DEF RecordVerified, hostVars
    <2>2. /\ work'.at = "closing" /\ work'.op = work.op /\ work'.receipt = work.receipt
          /\ journal'[work.op.id].phase = "verified"
          /\ journal'[work.op.id].receipt = work.receipt
      BY <1>0, <1>3 DEF RecordVerified, Work, TypeOK, Row
    <2> QED  BY <2>1, <2>2 DEF WorkAgrees, WorkFits, WorkMatchesRow, CallMatchesEffects
  <1>4. CASE TakeRecovery
    <2>1. /\ up /\ work.at = "recovering" /\ call.step = "answered" /\ call' = NoCall
          /\ UNCHANGED <<up, authorized, recoveries, journal, effects, disk, memory>>
      BY <1>4 DEF TakeRecovery, Deliver
    <2>2. work'.at = "confirming" /\ work'.op = work.op /\ work'.applied = call.answer
      BY <1>0, <1>4 DEF TakeRecovery, Work
    <2>3. call.op = work.op /\ TrueOf(work.op, call.answer)
      BY <2>1 DEF WorkAgrees, WorkFits, CallMatchesEffects
    <2>4. WorkFits' /\ CallMatchesEffects'
      BY <2>1, <2>2 DEF WorkAgrees, WorkFits, CallMatchesEffects, NoCall
    <2>5. WorkMatchesRow'
      BY <2>1, <2>2, <2>3 DEF WorkMatchesRow, Started, TrueOf, InSidecar
    <2> QED  BY <2>4, <2>5 DEF WorkAgrees
  <1>5. ASSUME RecordComplete \/ StorageError \/ \E reading \in Readings : ConfirmRecovery(reading)
        PROVE  WorkAgrees'
    <2>1. work' = NoWork /\ call'.step = "idle"
      BY <1>0, <1>5, IdleCall DEF RecordComplete, StorageError, ConfirmRecovery, hostVars, NoCall
    <2> QED  BY <2>1, NothingToDo DEF NoWork
  <1> QED  BY <1>1, <1>2, <1>3, <1>4, <1>5 DEF Proceed

---------------------------------------------------------------------------
(* The adapter call of the request being handled.                          *)
LEMMA AnsweredAgrees ==
  ASSUME NEW op, NEW answer, Answers(op, answer), TrueOf(op, answer)'
  PROVE  CallMatchesEffects'
  BY DEF Answers, CallMatchesEffects, TrueOf, InSidecar

LEMMA AcceptAgrees ==
  ASSUME TypeOK, HostInv, StoresAgree, WorkAgrees, work.at \in {"executing", "recovering"},
         UNCHANGED work, HostAccept(work.op, work.live)
  PROVE  CallMatchesEffects' /\ (call'.step # "idle" => call'.op = work.op)
  <1> DEFINE op == work.op
  <1>1. /\ op \in Operations /\ call.step = "idle" /\ up /\ SameRecords
        /\ UNCHANGED <<disk, effects, memory, up>>
    BY DEF TypeOK, Work, HostAccept, Refuse, Replay, DryRun, Look, Stage, StageFails, Ready, HostInv,
       MemoryAheadByCall
  <1>2. op.action = "apply" => effects[op.id] = 0
    BY <1>1 DEF WorkAgrees, WorkFits, CallMatchesEffects, StoresAgree, ReversalsFit, RecoveryGate
  <1>3. CASE Refuse(op, work.live) \/ StageFails(op, work.live)
    <2>1. PICK kind \in {"io", "rejected"} : Answers(op, Error(kind))
      BY <1>3 DEF Refuse, StageFails
    <2>2. TrueOf(work.op, Error(kind))'
      BY <1>1, <1>2, <2>1 DEF TrueOf, Error, ReceiptKinds
    <2> QED  BY <2>1, <2>2, AnsweredAgrees DEF Answers
  <1>4. CASE Replay(op, work.live)
    <2>1. PICK r \in Recorded(op) : r.op = op /\ Answers(op, r.answer)
      BY <1>4 DEF Replay
    <2>2. r.answer.kind = "converged" => InSidecar(op, r.answer)
      BY <1>1, <2>1, ReplayedIsDurable DEF HostInv
    <2>3. TrueOf(work.op, r.answer)'
      BY <1>1, <1>2, <2>2 DEF TrueOf, InSidecar, StoresAgree, HistoryFits
    <2> QED  BY <2>1, <2>3, AnsweredAgrees DEF Answers
  <1>5. CASE Stage(op, work.live)
    BY <1>1, <1>2, <1>5 DEF Stage, CallMatchesEffects, WorkAgrees, WorkFits
  <1>6. CASE DryRun(op, work.live) \/ Look(op, work.live)
    <2>1. op.action \notin Changing /\ \E answer : Answers(op, answer)
      BY <1>6 DEF DryRun, Look, Changing
    <2>2. \A answer : TrueOf(op, answer)'
      BY <2>1 DEF TrueOf, InSidecar, Changing
    <2> QED  BY <2>1, <2>2, AnsweredAgrees DEF Answers
  <1> QED  BY <1>3, <1>4, <1>5, <1>6 DEF HostAccept

LEMMA RunAgrees ==
  ASSUME TypeOK, HostInv, HostInv', StoresAgree, WorkAgrees, UNCHANGED work, HostRun
  PROVE  CallMatchesEffects' /\ call'.op = work.op
  <1> DEFINE op == work.op
  <1>0. /\ call \in Call /\ work.op \in Operations /\ op.id \in Ids /\ effects \in [Ids -> Nat]
        /\ memory \in AdapterState /\ up /\ call.step # "idle"
    BY OperationFields DEF TypeOK, HostTypeOK, Work, HostRun, Replace, ReplaceFails, RecordApply,
       ReadBackMismatch, ReadBackUnrestored, Restore, RecordReversal, ReversalUnobserved, Persist,
       PersistFails, At
  <1>1. /\ call.op = op /\ work.at \in {"executing", "recovering"}
        /\ work.at = "recovering" => op.action = "rollback"
    BY <1>0 DEF WorkAgrees, WorkFits, StoresAgree, ReversalsFit, RecoveryGate
  <1>2. CASE Replace
    <2>1. effects'[op.id] = effects[op.id] + 1 /\ call'.step = "replaced" /\ call'.op = op
      BY <1>0, <1>1, <1>2 DEF Replace, Call
    <2>2. work.at = "executing" /\ effects[op.id] = 0
      BY <1>1, <1>2 DEF Replace, At, WorkAgrees, CallMatchesEffects
    <2> QED  BY <2>1, <2>2 DEF CallMatchesEffects
  <1>3. CASE RecordApply
    <2>1. UNCHANGED effects /\ call'.step = "recorded" /\ call'.op = op
      BY <1>0, <1>1, <1>3 DEF RecordApply, Call
    <2>2. work.at = "executing" /\ effects[op.id] = 1
      BY <1>1, <1>3 DEF RecordApply, At, WorkAgrees, CallMatchesEffects
    <2> QED  BY <2>1, <2>2 DEF CallMatchesEffects
  <1>4. CASE Restore
    <2>1. call'.step = "restored" /\ call'.op = op
      BY <1>0, <1>1, <1>4 DEF Restore, Call
    <2> QED  BY <2>1 DEF CallMatchesEffects
  <1>5. CASE RecordReversal
    <2>1. call'.step = "recorded" /\ call'.op = op /\ op.action = "rollback"
      BY <1>0, <1>1, <1>5 DEF RecordReversal, At, Call
    <2> QED  BY <2>1 DEF CallMatchesEffects
  <1>6. ASSUME ReplaceFails \/ PersistFails \/ ReversalUnobserved
               \/ ReadBackMismatch \/ ReadBackUnrestored
        PROVE  CallMatchesEffects' /\ call'.op = op
    <2>1. PICK answer : Answers(op, answer) /\ answer.kind # "converged"
                          /\ (answer.kind \notin ReceiptKinds \cup {"io"} => op.action # "apply")
      <3>1. CASE ReplaceFails \/ PersistFails
        <4>1. Answers(op, Error("io"))
          BY <1>1, <3>1 DEF ReplaceFails, PersistFails
        <4> QED  BY <4>1 DEF Error
      <3>2. CASE ReversalUnobserved
        <4>1. PICK kind \in {"io", "rejected"} : Answers(op, Error(kind))
          BY <1>1, <3>2 DEF ReversalUnobserved
        <4>2. op.action # "apply"
          BY <1>1, <3>2 DEF ReversalUnobserved, At
        <4> QED  BY <4>1, <4>2 DEF Error
      <3>3. CASE ReadBackMismatch
        <4>1. Answers(op, Receipt("failed", memory.generation, call.old))
          BY <1>1, <3>3 DEF ReadBackMismatch
        <4> QED  BY <4>1 DEF Receipt, ReceiptKinds
      <3>4. CASE ReadBackUnrestored
        <4>1. Answers(op, Receipt("partially_converged", memory.generation, file))
          BY <1>1, <3>4 DEF ReadBackUnrestored
        <4> QED  BY <4>1 DEF Receipt, ReceiptKinds
      <3> QED  BY <1>6, <3>1, <3>2, <3>3, <3>4
    <2>2. TrueOf(op, answer)'
      BY <2>1 DEF TrueOf
    <2> QED  BY <2>1, <2>2, AnsweredAgrees DEF Answers
  <1>7. CASE Persist
    <2>1. PICK answer : answer = NewReceipt
      OBVIOUS
    <2>2. Answers(op, answer) /\ UNCHANGED effects /\ call.step = "recorded"
      BY <1>1, <1>7, <2>1 DEF Persist
    <2>3. answer.kind = "converged"
      BY <1>0, <2>1, <2>2, NewReceiptIs DEF HostInv
    <2>4. InSidecar(op, answer)'
      <3>1. [op |-> op, answer |-> answer] \in completed'
        BY <2>2, <2>3 DEF Answers, ReceiptKinds
      <3> QED  BY <2>3, <3>1 DEF HostInv, ConvergedIsDurable
    <2>5. op.action = "apply" => effects'[op.id] = 1
      BY <1>1, <2>2 DEF WorkAgrees, CallMatchesEffects
    <2>6. TrueOf(op, answer)'
      BY <2>3, <2>4, <2>5 DEF TrueOf, ReceiptKinds
    <2> QED  BY <2>2, <2>6, AnsweredAgrees DEF Answers
  <1> QED  BY <1>2, <1>3, <1>4, <1>5, <1>6, <1>7 DEF HostRun

LEMMA CallWork ==
  ASSUME TypeOK, HostInv, HostInv', StoresAgree, WorkAgrees, CallAdapter
  PROVE  WorkAgrees'
  <1>1. /\ work.at \in {"executing", "recovering"} /\ UNCHANGED <<work, authorized, recoveries, journal>>
        /\ HostAccept(work.op, work.live) \/ HostRun
    BY DEF CallAdapter, controllerVars
  <1>2. CallMatchesEffects' /\ (call'.step # "idle" => call'.op = work.op)
    BY <1>1, AcceptAgrees, RunAgrees
  <1>3. up'
    BY <1>1 DEF HostAccept, HostRun, Refuse, Replay, DryRun, Look, Stage, StageFails, Ready, Replace,
       ReplaceFails, RecordApply, ReadBackMismatch, ReadBackUnrestored, Restore, RecordReversal,
       ReversalUnobserved, Persist, PersistFails, At
  <1>4. WorkFits'
    BY <1>1, <1>2, <1>3 DEF WorkAgrees, WorkFits
  <1>5. WorkMatchesRow'
    BY <1>1 DEF WorkAgrees, WorkMatchesRow, Started
  <1> QED  BY <1>2, <1>4, <1>5 DEF WorkAgrees

LEMMA WorkAgreesStep ==
  ASSUME ExecutionInv, Next
  PROVE  WorkAgrees'
  <1>0. TypeOK /\ HostInv /\ StoresAgree /\ WorkAgrees /\ WorkFits
    BY DEF ExecutionInv, WorkAgrees
  <1>1. HostInv'
    BY <1>0, HostInvStep
  <1>2. CASE Crash
    BY <1>2, NothingToDo DEF Crash, HostCrash, NoWork, NoCall
  <1>3. CASE Restart
    <2>0. ~up /\ UNCHANGED <<call, work>>
      BY <1>3 DEF Restart, HostRestart, controllerVars
    <2>1. call' = NoCall /\ work' = NoWork
      BY <1>0, <2>0 DEF WorkFits, HostInv, MemoryAheadByCall
    <2>2. call'.step = "idle"
      BY <2>1 DEF NoCall
    <2> QED  BY <2>1, <2>2, NothingToDo DEF NoWork
  <1>4. ASSUME ChangeFile \/ \E id \in Ids, deadline \in Deadlines : Lapse(id, deadline)
        PROVE  WorkAgrees'
    BY <1>0, <1>4, WorkStays DEF ChangeFile, ForeignWrite, Lapse, controllerVars, hostVars
  <1>5. CASE Proceed \/ StorageError
    BY <1>0, <1>1, <1>5, CallWork, ProceedWork
  <1> QED  BY <1>0, <1>2, <1>3, <1>4, <1>5, SubmitWork DEF Next

---------------------------------------------------------------------------
(* What clients were answered.  A step that answers nothing keeps what was *)
(* answered true: closed rows and recorded reversals stay.                 *)
LEMMA RowsStayClosed ==
  ASSUME ExecutionInv, Next, NEW id \in Ids, journal[id].phase = "complete"
  PROVE  journal'[id] = journal[id]
  <1>0. TypeOK /\ WorkMatchesRow /\ work \in Work
    BY DEF ExecutionInv, WorkAgrees, TypeOK
  <1>1. ASSUME NEW op \in Operations, StartExecution(op)
        PROVE  journal'[id] = journal[id]
    BY <1>0, <1>1 DEF StartExecution, PhaseOf, TypeOK
  <1>2. ASSUME Report \/ RecordVerified \/ RecordComplete
        PROVE  journal'[id] = journal[id]
    <2>1. journal[work.op.id].phase # "complete"
      BY <1>0, <1>2 DEF Report, RecordVerified, RecordComplete, WorkMatchesRow, Started
    <2> QED  BY <1>0, <1>2, <2>1 DEF Report, RecordVerified, RecordComplete, TypeOK
  <1>3. ASSUME NEW op \in Operations, AuthorizeApply(op) \/ AuthorizeRecovery(op)
        PROVE  UNCHANGED journal
    BY <1>3 DEF AuthorizeApply, AuthorizeRecovery
  <1>4. CASE CallAdapter
    BY <1>4 DEF CallAdapter, controllerVars
  <1> QED  BY <1>1, <1>2, <1>3, <1>4, StoresStep DEF stores

LEMMA ReversalsStay ==
  ASSUME ExecutionInv, Next
  PROVE  disk.reversals \subseteq disk'.reversals
  <1>1. HostNext \/ UNCHANGED disk
    BY HostSteps DEF ExecutionInv, WorkAgrees, HostQuiet
  <1> QED  BY <1>1, SidecarGrows DEF ExecutionInv, HostInv

LEMMA RepliesStay ==
  ASSUME ExecutionInv, Next, UNCHANGED replies
  PROVE  RepliesAgree'
  <1>1. AnsweredReceiptsAgree'
    BY RowsStayClosed DEF ExecutionInv, RepliesAgree, AnsweredReceiptsAgree
  <1>2. ReversedIsDurable'
    BY ReversalsStay DEF ExecutionInv, RepliesAgree, ReversedIsDurable
  <1> QED  BY <1>1, <1>2 DEF RepliesAgree

LEMMA AnsweringAgrees ==
  ASSUME ExecutionInv, Next, NEW id \in Ids, NEW reason,
         replies' = [replies EXCEPT ![id] = reason],
         reason \in Reasons => journal'[id].phase = "complete" /\ journal'[id].receipt = reason,
         reason = "RECOVERY_VERIFIED_REVERSED" => \E x \in disk'.reversals : x.op.id = id
  PROVE  RepliesAgree'
  <1>1. replies'[id] = reason /\ \A other \in Ids \ {id} : replies'[other] = replies[other]
    BY DEF ExecutionInv, TypeOK
  <1>2. AnsweredReceiptsAgree'
    BY <1>1, RowsStayClosed DEF ExecutionInv, RepliesAgree, AnsweredReceiptsAgree
  <1>3. ReversedIsDurable'
    BY <1>1, ReversalsStay DEF ExecutionInv, RepliesAgree, ReversedIsDurable
  <1> QED  BY <1>2, <1>3 DEF RepliesAgree

LEMMA RepliesAgreeStep ==
  ASSUME ExecutionInv, Next
  PROVE  RepliesAgree'
  <1>0. /\ TypeOK /\ work.op \in Operations /\ work.op.id \in Ids /\ work.applied \in Answer
        /\ RowsFit /\ ReversalsFit /\ WorkFits /\ WorkMatchesRow
    BY OperationFields DEF ExecutionInv, TypeOK, Work, StoresAgree, WorkAgrees
  <1>1. ASSUME NEW op \in Operations, Submit(op)
        PROVE  RepliesAgree'
    <2>0. op.id \in Ids
      BY OperationFields
    <2>1. CASE ReturnStored(op)
      <3>1. PICK reason : reason = journal[op.id].receipt
        OBVIOUS
      <3>2. /\ replies' = [replies EXCEPT ![op.id] = reason] /\ UNCHANGED journal
            /\ journal[op.id].phase = "complete" /\ reason \in Reasons \cup {"none"}
        BY <1>0, <2>0, <2>1, <3>1 DEF ReturnStored, Reply, Resumes, PhaseOf, TypeOK, Row
      <3>3. reason # "RECOVERY_VERIFIED_REVERSED"
        BY <3>2 DEF Reasons
      <3> QED  BY <2>0, <3>1, <3>2, <3>3, AnsweringAgrees
    <2>2. CASE RefuseRequest(op)
      <3>1. replies' = [replies EXCEPT ![op.id] = "REFUSED"]
        BY <2>2 DEF RefuseRequest, Reply
      <3> QED  BY <2>0, <3>1, ReasonTypes, AnsweringAgrees
    <2>3. ASSUME \/ StartExecution(op) \/ ResumeReported(op) \/ CloseVerified(op)
                 \/ StartRecovery(op) \/ \E reading \in Readings : ObserveStarted(op, reading)
          PROVE  UNCHANGED replies
      BY <2>3 DEF StartExecution, ResumeReported, CloseVerified, StartRecovery, ObserveStarted
    <2> QED  BY <1>1, <2>1, <2>2, <2>3, RepliesStay DEF Submit
  <1>2. CASE RecordComplete
    <2>1. PICK reason : reason = work.receipt
      OBVIOUS
    <2>2. /\ replies' = [replies EXCEPT ![work.op.id] = reason]
          /\ journal'[work.op.id].phase = "complete" /\ journal'[work.op.id].receipt = reason
      BY <1>0, <1>2, <2>1 DEF RecordComplete, Reply, TypeOK, Row
    <2>3. reason # "RECOVERY_VERIFIED_REVERSED"
      BY <1>0, <2>1 DEF TypeOK, Work, Reasons
    <2> QED  BY <1>0, <2>2, <2>3, AnsweringAgrees
  <1>3. CASE StorageError
    <2>1. replies' = [replies EXCEPT ![work.op.id] = "REFUSED"]
      BY <1>3 DEF StorageError, Reply
    <2> QED  BY <1>0, <2>1, ReasonTypes, AnsweringAgrees
  <1>4. ASSUME NEW reading \in Readings, ConfirmRecovery(reading)
        PROVE  RepliesAgree'
    <2>1. PICK reason : reason = RecoveryOutcome(work.applied, reading)
      OBVIOUS
    <2>2. /\ replies' = [replies EXCEPT ![work.op.id] = reason] /\ UNCHANGED disk
          /\ work.at = "confirming" /\ reason \in RecoveryReasons
      BY <1>0, <1>4, <2>1, ReasonTypes DEF ConfirmRecovery, Reply
    <2>3. reason \notin Reasons
      BY <2>2, ReasonTypes
    <2>4. ASSUME reason = "RECOVERY_VERIFIED_REVERSED"
          PROVE  \E x \in disk'.reversals : x.op.id = work.op.id
      <3>1. work.applied.kind = "converged"
        BY <2>1, <2>4 DEF RecoveryOutcome
      <3>2. InSidecar(work.op, work.applied) /\ work.op.action = "rollback"
        BY <1>0, <2>2, <3>1 DEF WorkMatchesRow, WorkFits, TrueOf, ReversalsFit, RecoveryGate
      <3> QED  BY <2>2, <3>2 DEF InSidecar
    <2> QED  BY <1>0, <2>2, <2>3, <2>4, AnsweringAgrees
  <1>5. ASSUME \/ \E op \in Operations : AuthorizeApply(op) \/ AuthorizeRecovery(op)
               \/ CallAdapter \/ Report \/ RecordVerified \/ TakeRecovery
               \/ \E reading \in Readings : Verify(reading)
               \/ Crash \/ Restart \/ ChangeFile
               \/ \E id \in Ids, deadline \in Deadlines : Lapse(id, deadline)
        PROVE  UNCHANGED replies
    BY <1>5 DEF AuthorizeApply, AuthorizeRecovery, CallAdapter, Report, RecordVerified,
       TakeRecovery, Verify, Crash, Restart, ChangeFile, Lapse, controllerVars
  <1> QED  BY <1>1, <1>2, <1>3, <1>4, <1>5, RepliesStay DEF Next, Proceed

---------------------------------------------------------------------------
LEMMA ExecutionInvInit == Init => ExecutionInv
  <1> SUFFICES ASSUME Init  PROVE ExecutionInv
    OBVIOUS
  <1>1. HostInv
    BY HostInvInit DEF Init
  <1>2. NoRow \in Row
    BY ErrorType DEF NoRow, Row, Phases
  <1>3. TypeOK
    BY <1>1, <1>2, WorkTypes DEF Init, TypeOK, HostInv
  <1>4. StoresAgree
    BY DEF Init, HostInit, EmptyState, NoRow, StoresAgree, OneEffect, AuthorizedOnce, RowsFit,
       ReversalsFit, HistoryFits, VerifiedIsDurable, RejectedHadNoEffect
  <1>5. WorkAgrees
    BY DEF Init, HostInit, NoWork, NoCall, WorkAgrees, WorkFits, WorkMatchesRow, CallMatchesEffects
  <1>6. RepliesAgree
    BY DEF Init, RepliesAgree, AnsweredReceiptsAgree, ReversedIsDurable, Reasons
  <1> QED  BY <1>1, <1>3, <1>4, <1>5, <1>6 DEF ExecutionInv

LEMMA ExecutionInvNext == ExecutionInv /\ [Next]_vars => ExecutionInv'
  <1>1. ASSUME ExecutionInv, Next
        PROVE  ExecutionInv'
    <2>1. TypeOK /\ HostInv /\ RowsFit /\ WorkFits /\ WorkMatchesRow
      BY <1>1 DEF ExecutionInv, StoresAgree, WorkAgrees
    <2>2. TypeOK' /\ HostInv'
      BY <1>1, <2>1, TypeStep, HostInvStep
    <2> QED  BY <1>1, <2>2, StoresAgreeStep, WorkAgreesStep, RepliesAgreeStep DEF ExecutionInv
  <1>2. ASSUME ExecutionInv, UNCHANGED vars
        PROVE  ExecutionInv'
    <2>1. UNCHANGED <<file, stages, disk, up, pid, memory, completed, call, effects, faults,
                      authorized, recoveries, journal, lapsed, work, replies>>
      BY <1>2 DEF vars, hostVars
    <2>2. HostInv'
      BY <1>2, <2>1, HostQuietInv DEF HostQuiet, ExecutionInv
    <2>3. TypeOK'
      BY <1>2, <2>1, <2>2 DEF ExecutionInv, HostInv, TypeOK
    <2>4. StoresAgree' /\ WorkAgrees'
      BY <1>2, <2>1, StoresStay, WorkStays DEF ExecutionInv, stores
    <2>5. RepliesAgree'
      BY <1>2, <2>1 DEF ExecutionInv, RepliesAgree, AnsweredReceiptsAgree, ReversedIsDurable
    <2> QED  BY <2>2, <2>3, <2>4, <2>5 DEF ExecutionInv
  <1> QED  BY <1>1, <1>2

(* The journal, the sidecar, the request being handled and what clients    *)
(* were answered agree after every step of serve-executor.                 *)
THEOREM ExecutionInvAlways == Spec => []ExecutionInv
  BY ExecutionInvInit, ExecutionInvNext, PTL DEF Spec

(* Every variable keeps its type.                                          *)
THEOREM TypeCorrect == Spec => []TypeOK
  <1>1. ExecutionInv => TypeOK
    BY DEF ExecutionInv
  <1> QED  BY <1>1, ExecutionInvAlways, PTL

(* Whatever crashes, errors and duplicate requests come, an apply replaces *)
(* the managed file at most once, and never before its intent is in the    *)
(* journal (execute_authorized, AdapterHost).                              *)
THEOREM AtMostOnceAlways == Spec => []AtMostOnce
  <1>1. ExecutionInv => AtMostOnce
    BY DEF ExecutionInv, StoresAgree, OneEffect, RowsFit, AtMostOnce
  <1> QED  BY <1>1, ExecutionInvAlways, PTL

(* A receipt EXECUTION_VERIFIED in the journal is true of the file's       *)
(* history and of the sidecar, across every crash and for every action an  *)
(* operation under an apply gate may have.                                 *)
THEOREM VerifiedIsDurableAlways == Spec => []VerifiedIsDurable
  <1>1. ExecutionInv => VerifiedIsDurable
    BY DEF ExecutionInv, StoresAgree
  <1> QED  BY <1>1, ExecutionInvAlways, PTL

(* An apply reported as rejected did not replace the file.                 *)
THEOREM RejectedHadNoEffectAlways == Spec => []RejectedHadNoEffect
  <1>1. ExecutionInv => RejectedHadNoEffect
    BY DEF ExecutionInv, StoresAgree
  <1> QED  BY <1>1, ExecutionInvAlways, PTL

(* The lifecycle receipt a client is answered is the one in the journal.   *)
THEOREM AnsweredReceiptsAgreeAlways == Spec => []AnsweredReceiptsAgree
  <1>1. ExecutionInv => AnsweredReceiptsAgree
    BY DEF ExecutionInv, RepliesAgree
  <1> QED  BY <1>1, ExecutionInvAlways, PTL

(* A recovery answered as reversed is recorded in the sidecar.             *)
THEOREM ReversedIsDurableAlways == Spec => []ReversedIsDurable
  <1>1. ExecutionInv => ReversedIsDurable
    BY DEF ExecutionInv, RepliesAgree
  <1> QED  BY <1>1, ExecutionInvAlways, PTL

(* A reversal made under a recovery gate comes directly after the apply it *)
(* reverses: the gate names the generation of a verified execution, and    *)
(* that execution is in the sidecar once.                                  *)
THEOREM ReversalFollowsItsOriginalAlways == Spec => []ReversalFollowsItsOriginal
  <1>1. ExecutionInv => ReversalFollowsItsOriginal
    <2> SUFFICES ASSUME ExecutionInv, NEW x \in disk.reversals, NEW e \in disk.history,
                        x.op \in recoveries, e.op.id = x.op.related
                 PROVE  x.generation = e.generation + 1
      BY DEF ReversalFollowsItsOriginal
    <2>1. /\ x.op \in Operations /\ x.op.related \in Ids
          /\ RecoveryGate(x.op) /\ x.generation = x.op.expected + 1
      BY OperationFields
         DEF ExecutionInv, TypeOK, StoresAgree, ReversalsFit, HostInv, StampsWithin
    <2>2. PICK original \in disk.history :
            /\ original.op.id = x.op.related
            /\ original.generation = journal[x.op.related].adapter.generation
      <3>1. PICK o \in authorized : o.id = x.op.related /\ InSidecar(o, journal[o.id].adapter)
        BY <2>1 DEF ExecutionInv, StoresAgree, VerifiedIsDurable, RecoveryGate
      <3>2. o = e.op /\ o.action = "apply"
        BY <3>1 DEF ExecutionInv, StoresAgree, AuthorizedOnce, HistoryFits
      <3> QED  BY <3>1, <3>2 DEF InSidecar
    <2>3. e = original
      BY <2>2 DEF ExecutionInv, StoresAgree, HistoryFits
    <2> QED  BY <2>1, <2>2, <2>3 DEF RecoveryGate
  <1> QED  BY <1>1, ExecutionInvAlways, PTL

---------------------------------------------------------------------------
(* Each step of the journal.                                               *)
JournalForward ==
  \A id \in Ids :
    /\ Rank(journal'[id].phase) >= Rank(journal[id].phase)
    /\ journal[id].receipt # "none" => journal'[id].receipt = journal[id].receipt

LEMMA JournalSteps ==
  ASSUME ExecutionInv, Next, UNCHANGED journal => JournalForward
  PROVE  JournalForward
  <1>0. /\ journal \in [Ids -> Row] /\ RowsFit /\ WorkMatchesRow
        /\ work.op \in Operations /\ work.op.id \in Ids
    BY OperationFields DEF ExecutionInv, TypeOK, Work, StoresAgree, WorkAgrees
  <1>1. ASSUME NEW op \in Operations, StartExecution(op)
        PROVE  JournalForward
    BY <1>0, <1>1, OperationFields DEF StartExecution, PhaseOf, JournalForward, Rank, Row, Phases
  <1>2. CASE Report
    BY <1>0, <1>2 DEF Report, WorkMatchesRow, Started, JournalForward, Rank, Row, Phases
  <1>3. CASE RecordVerified
    BY <1>0, <1>3
       DEF RecordVerified, WorkMatchesRow, Started, RowsFit, JournalForward, Rank, Row, Phases
  <1>4. CASE RecordComplete
    BY <1>0, <1>4
       DEF RecordComplete, WorkMatchesRow, Started, RowsFit, JournalForward, Rank, Row, Phases
  <1>5. ASSUME NEW op \in Operations, AuthorizeApply(op) \/ AuthorizeRecovery(op)
        PROVE  UNCHANGED journal
    BY <1>5 DEF AuthorizeApply, AuthorizeRecovery
  <1>6. CallAdapter => UNCHANGED journal
    BY DEF CallAdapter, controllerVars
  <1> QED  BY <1>1, <1>2, <1>3, <1>4, <1>5, <1>6, StoresStep DEF stores

(* A journal row only moves forward and its receipt is written once, for   *)
(* any crashes and storage errors (save_execution over executions that     *)
(* resume).                                                                *)
THEOREM JournalMovesForwardAlways == Spec => JournalMovesForward
  <1>1. ExecutionInv /\ [Next]_vars => [JournalForward]_vars
    <2> SUFFICES ASSUME ExecutionInv, Next  PROVE JournalForward
      OBVIOUS
    <2>1. UNCHANGED journal => JournalForward
      <3>1. \A id \in Ids : Rank(journal[id].phase) \in Nat
        BY DEF ExecutionInv, TypeOK, Row, Phases, Rank
      <3> QED  BY <3>1 DEF JournalForward
    <2> QED  BY <2>1, JournalSteps
  <1> QED  BY <1>1, ExecutionInvAlways, PTL DEF Spec, JournalMovesForward, JournalForward

---------------------------------------------------------------------------
(* The refinement: which abstract step each step of the executor is.       *)
status == [id \in Ids |-> Status(id)]
kinds == [id \in Ids |-> Kind(id)]
receipts == [id \in Ids |-> journal[id].receipt]

LEMMA Same ==
  ASSUME ExecutionInv, UNCHANGED <<authorized, journal, effects>>
  PROVE  UNCHANGED <<status, kinds, effects, receipts>>
  BY DEF status, kinds, receipts, Status, Kind, Unclaimed

LEMMA StatusChange ==
  ASSUME ExecutionInv, NEW id \in Ids,
         \A other \in Ids \ {id} : journal'[other] = journal[other] /\ (Unclaimed(other) <=> Unclaimed(other)')
  PROVE  /\ status' = [status EXCEPT ![id] = Status(id)']
         /\ receipts' = [receipts EXCEPT ![id] = journal'[id].receipt]
  <1>1. \A other \in Ids \ {id} : Status(other)' = Status(other)
    BY DEF Status
  <1> QED  BY <1>1 DEF status, receipts

LEMMA AuthorizeKeepsPromise ==
  ASSUME ExecutionInv, NEW op \in Operations, AuthorizeApply(op) \/ AuthorizeRecovery(op)
  PROVE  \E k \in {"apply", "other"} : Promise!Authorize(op.id, k)
  <1>1. /\ op.id \in Ids /\ Unclaimed(op.id) /\ authorized' = authorized \cup {op}
        /\ UNCHANGED <<journal, effects>>
    BY OperationFields DEF AuthorizeApply, AuthorizeRecovery, hostVars
  <1>2. journal[op.id].phase = "none" /\ journal[op.id].receipt = "none"
    BY <1>1 DEF ExecutionInv, StoresAgree, RowsFit, Unclaimed
  <1>3. /\ ~Unclaimed(op.id)' /\ \A other \in Ids \ {op.id} : Unclaimed(other) <=> Unclaimed(other)'
    BY <1>1 DEF Unclaimed
  <1>4. Status(op.id) = "unauthorized" /\ Status(op.id)' = "authorized"
    BY <1>1, <1>2, <1>3 DEF Status
  <1>5. status' = [status EXCEPT ![op.id] = "authorized"] /\ UNCHANGED <<effects, receipts>>
    BY <1>1, <1>3, <1>4, StatusChange DEF receipts
  <1>6. PICK k \in {"apply", "other"} : k = Kind(op.id)'
    BY <1>3 DEF Kind
  <1>7. \A other \in Ids \ {op.id} : Kind(other)' = Kind(other)
    BY <1>1 DEF Kind, Unclaimed
  <1>8. kinds' = [kinds EXCEPT ![op.id] = k]
    BY <1>6, <1>7 DEF kinds
  <1> QED  BY <1>1, <1>4, <1>5, <1>8 DEF Promise!Authorize, status, kinds, receipts

LEMMA StartKeepsPromise ==
  ASSUME ExecutionInv, NEW op \in Operations, StartExecution(op)
  PROVE  Promise!Begin(op.id)
  <1>1. /\ op.id \in Ids /\ op \in authorized /\ journal[op.id].phase = "none"
        /\ journal' = [journal EXCEPT ![op.id].phase = "started"]
        /\ UNCHANGED <<authorized, recoveries, effects>> /\ journal \in [Ids -> Row]
    BY OperationFields
       DEF StartExecution, Resumes, PhaseOf, hostVars, ExecutionInv, TypeOK
  <1>2. journal[op.id].receipt = "none" /\ ~Unclaimed(op.id)
    BY <1>1 DEF ExecutionInv, StoresAgree, RowsFit, Unclaimed
  <1>3. /\ journal'[op.id].phase = "started" /\ journal'[op.id].receipt = "none"
        /\ \A other \in Ids \ {op.id} :
             journal'[other] = journal[other] /\ (Unclaimed(other) <=> Unclaimed(other)')
    BY <1>1, <1>2 DEF Unclaimed, Row
  <1>4. Status(op.id) = "authorized" /\ Status(op.id)' = "underway"
    BY <1>1, <1>2, <1>3 DEF Status
  <1>5. status' = [status EXCEPT ![op.id] = "underway"]
    BY <1>1, <1>3, <1>4, StatusChange
  <1>6. UNCHANGED <<kinds, effects, receipts>>
    BY <1>1, <1>2, <1>3 DEF kinds, Kind, Unclaimed, receipts
  <1> QED  BY <1>1, <1>4, <1>5, <1>6 DEF Promise!Begin, status, kinds, receipts

LEMMA ReplaceKeepsPromise ==
  ASSUME ExecutionInv, CallAdapter, Replace
  PROVE  Promise!Touch(work.op.id)
  <1> DEFINE id == work.op.id
  <1>1. /\ call.op = work.op /\ work.at = "executing" /\ effects[id] = 0
        /\ journal[id].phase = "started" /\ id \in Ids
        /\ work.op \in authorized /\ work.op.action = "apply"
    <2>1. call.step = "staged" /\ call.op.action = "apply" /\ work.op \in Operations
      BY DEF Replace, At, ExecutionInv, TypeOK, Work
    <2>2. call.op = work.op /\ work.at = "executing" /\ work.op \in authorized
      BY <2>1 DEF ExecutionInv, WorkAgrees, WorkFits, StoresAgree, ReversalsFit, RecoveryGate
    <2> QED  BY <2>1, <2>2, OperationFields
             DEF ExecutionInv, WorkAgrees, WorkMatchesRow, Started, CallMatchesEffects
  <1>2. UNCHANGED <<authorized, recoveries, journal>> /\ effects' = [effects EXCEPT ![id] = 1]
    BY <1>1 DEF Replace, CallAdapter, controllerVars, ExecutionInv, TypeOK, HostTypeOK
  <1>3. journal[id].receipt = "none"
    BY <1>1 DEF ExecutionInv, StoresAgree, RowsFit
  <1>4. Status(id) = "underway" /\ Kind(id) = "apply"
    BY <1>1, <1>3 DEF Status, Kind, Unclaimed
  <1>5. UNCHANGED <<status, kinds, receipts>>
    BY <1>2 DEF status, kinds, receipts, Status, Kind, Unclaimed
  <1> QED  BY <1>1, <1>2, <1>4, <1>5 DEF Promise!Touch, status, kinds, receipts

LEMMA ReportKeepsPromise ==
  ASSUME ExecutionInv, Report
  PROVE  UNCHANGED <<status, kinds, effects, receipts>>
  <1> DEFINE id == work.op.id
  <1>1. /\ journal[id].phase = "started" /\ id \in Ids /\ journal \in [Ids -> Row]
        /\ UNCHANGED <<authorized, recoveries, effects>>
    BY OperationFields DEF Report, Deliver, ExecutionInv, TypeOK, Work, WorkAgrees, WorkMatchesRow, Started
  <1>2. /\ journal'[id].phase \in {"started", "adapter_reported"}
        /\ journal'[id].receipt = journal[id].receipt
        /\ \A other \in Ids \ {id} : journal'[other] = journal[other]
    BY <1>1 DEF Report, Row
  <1>3. \A other \in Ids : Status(other)' = Status(other) /\ journal'[other].receipt = journal[other].receipt
    BY <1>1, <1>2 DEF Status, Unclaimed
  <1> QED  BY <1>1, <1>3 DEF status, kinds, Kind, Unclaimed, receipts

(* A receipt is stored: for the first time when the row leaves "started"   *)
(* or "adapter_reported", and again, unchanged, when a verified row closes *)
LEMMA RecordKeepsPromise ==
  ASSUME ExecutionInv, StoresAgree', RecordVerified \/ RecordComplete
  PROVE  \/ \E r \in Reasons : Promise!Settle(work.op.id, r)
         \/ UNCHANGED <<status, kinds, effects, receipts>>
  <1>0. PICK id, r : id = work.op.id /\ r = work.receipt
    OBVIOUS
  <1>1. /\ id \in Ids /\ journal \in [Ids -> Row] /\ RowsFit /\ WorkMatchesRow
        /\ UNCHANGED <<authorized, recoveries, effects>>
    BY <1>0, OperationFields DEF RecordVerified, RecordComplete, hostVars, ExecutionInv, TypeOK, Work,
       StoresAgree, WorkAgrees
  <1>2. /\ journal'[id].receipt = r
        /\ \A other \in Ids \ {id} :
             journal'[other] = journal[other] /\ (Unclaimed(other) <=> Unclaimed(other)')
    BY <1>0, <1>1 DEF RecordVerified, RecordComplete, Row, Unclaimed
  <1>3. journal[id].phase # "none" /\ r # "none" /\ r \in Reasons
    <2>1. CASE RecordVerified
      BY <1>0, <1>1, <2>1, ReasonTypes DEF RecordVerified, WorkMatchesRow, Started
    <2>2. CASE RecordComplete /\ Started
      BY <1>0, <1>1, <2>2, ReasonTypes DEF RecordComplete, WorkMatchesRow, Started
    <2>3. CASE RecordComplete /\ ~Started
      BY <1>0, <1>1, <2>3 DEF RecordComplete, WorkMatchesRow, RowsFit, Row
    <2> QED  BY <2>1, <2>2, <2>3
  <1>4. Status(id)' = "settled"
    BY <1>2, <1>3 DEF Status
  <1>5. CASE journal[id].receipt = "none"
    <2>1. Status(id) = "underway"
      BY <1>3, <1>5 DEF Status
    <2>2. /\ status' = [status EXCEPT ![id] = "settled"]
          /\ receipts' = [receipts EXCEPT ![id] = r]
      BY <1>1, <1>2, <1>4, StatusChange
    <2>3. Kind(id) = "apply" /\ r \in {"EXECUTION_VERIFIED"} => effects[id] = 1
      <3> SUFFICES ASSUME Kind(id) = "apply", r = "EXECUTION_VERIFIED"  PROVE effects[id] = 1
        OBVIOUS
      <3>1. PICK o \in authorized : o.id = id /\ o.action = "apply"
        BY DEF Kind
      <3>2. PICK other \in authorized :
              other.id = id /\ effects[id] = IF other.action = "apply" THEN 1 ELSE 0
        BY <1>1, <1>2 DEF StoresAgree, VerifiedIsDurable
      <3>3. o = other
        BY <3>1, <3>2 DEF ExecutionInv, StoresAgree, AuthorizedOnce
      <3> QED  BY <3>1, <3>2, <3>3
    <2>4. r \in {"EXECUTION_REJECTED_BY_ADAPTER"} => effects[id] = 0
      BY <1>1, <1>2 DEF StoresAgree, RejectedHadNoEffect
    <2>5. UNCHANGED kinds
      BY <1>1 DEF kinds, Kind, Unclaimed
    <2>6. Promise!Settle(id, r)
      BY <1>1, <2>1, <2>2, <2>3, <2>4, <2>5 DEF Promise!Settle, status, kinds, receipts
    <2> QED  BY <1>0, <1>3, <2>6
  <1>6. CASE journal[id].receipt # "none"
    <2>1. journal[id].receipt = r
      BY <1>0, <1>1, <1>6 DEF RecordVerified, RecordComplete, WorkMatchesRow, Started, RowsFit
    <2>2. \A other \in Ids : Status(other)' = Status(other) /\ journal'[other].receipt = journal[other].receipt
      BY <1>2, <1>3, <2>1 DEF Status
    <2> QED  BY <1>1, <2>2 DEF status, kinds, Kind, Unclaimed, receipts
  <1> QED  BY <1>5, <1>6

LEMMA StepKeepsPromise ==
  ASSUME ExecutionInv, StoresAgree', Next
  PROVE  Promise!LocalNext \/ UNCHANGED <<status, kinds, effects, receipts>>
  <1>1. ASSUME NEW op \in Operations, AuthorizeApply(op) \/ AuthorizeRecovery(op) \/ StartExecution(op)
        PROVE  Promise!LocalNext
    BY <1>1, OperationFields, AuthorizeKeepsPromise, StartKeepsPromise DEF Promise!LocalNext
  <1>2. work.op.id \in Ids
    BY OperationFields DEF ExecutionInv, TypeOK, Work
  <1>3. CASE Report
    BY <1>3, ReportKeepsPromise
  <1>4. CASE RecordVerified \/ RecordComplete
    BY <1>2, <1>4, RecordKeepsPromise DEF Promise!LocalNext
  <1>5. CASE CallAdapter /\ Replace
    BY <1>2, <1>5, ReplaceKeepsPromise DEF Promise!LocalNext
  <1>6. CASE CallAdapter /\ Persist
    BY <1>6, Same DEF CallAdapter, Persist, controllerVars
  <1>7. CASE UNCHANGED stores
    BY <1>7, Same DEF stores
  <1> QED  BY <1>1, <1>3, <1>4, <1>5, <1>6, <1>7, StoresStep

(* The executor with its journal, adapter, sidecar and crashes implements  *)
(* the abstract local apply.                                               *)
THEOREM ExecutionKeepsPromise == Spec => KeepsPromise
  <1>1. Init => Promise!LocalInit
    BY DEF Init, HostInit, NoRow, Status, Kind, Unclaimed, Promise!LocalInit
  <1>2. ExecutionInv /\ ExecutionInv' /\ [Next]_vars => [Promise!LocalNext]_(Promise!localVars)
    <2>1. ASSUME ExecutionInv, ExecutionInv', Next
          PROVE  [Promise!LocalNext]_(Promise!localVars)
      BY <2>1, StepKeepsPromise DEF ExecutionInv, Promise!localVars, status, kinds, receipts
    <2>2. ASSUME ExecutionInv, UNCHANGED vars
          PROVE  UNCHANGED Promise!localVars
      BY <2>2, Same DEF vars, hostVars, Promise!localVars, status, kinds, receipts
    <2> QED  BY <2>1, <2>2
  <1> QED  BY <1>1, <1>2, ExecutionInvAlways, PTL DEF Spec, KeepsPromise, Promise!LocalSpec
=============================================================================
