---------------------------- MODULE AdapterHost ----------------------------
(***************************************************************************)
(* The adapter host of the executor process and the one managed adapter it *)
(* registers, RuntimeConfigAdapter (src/src/adapters.rs).                  *)
(*                                                                         *)
(* The adapter owns one configuration file and an owner-only sidecar that  *)
(* keeps its generation, the operations it applied with the bytes each one *)
(* replaced, and the reversals it made.  A call runs as a sequence of file *)
(* system steps; an I/O error, another writer of the file or a crash of    *)
(* the process may come between any two of them.                           *)
(*                                                                         *)
(* The module is the adapter under ANY caller: operations are called in    *)
(* every order, repeatedly, across restarts.  Execution.tla puts the       *)
(* controller's journal in front of it.                                    *)
(***************************************************************************)
EXTENDS Integers, FiniteSets

CONSTANTS
  Ids,         \* operation identifiers
  Configs,     \* contents that are a valid RuntimeConfigV1
  Invalid,     \* JSON that is not one
  Unreadable,  \* no file, or bytes that are not JSON
  Operations,  \* the operations a caller may present
  Pids,        \* process identifiers the executor may be given
  MaxFaults    \* bound on I/O errors, foreign writes and crashes together

Contents == Configs \cup {Invalid, Unreadable}

(* What the code calls the binding of an operation (operation_binding) is  *)
(* a digest of the whole of it: here the operation itself.  "verify"       *)
(* stands for "observe" as well, "other" for every action there is not.    *)
Changing == {"apply", "rollback"}
Actions == Changing \cup {"dry_run", "verify", "other"}
Operation ==
  [id: Ids, action: Actions, desired: Contents \ {Unreadable}, expected: Nat, related: Ids]

ASSUME ContentsAssumption ==
  /\ Invalid \notin Configs /\ Unreadable \notin Configs
  /\ Invalid # Unreadable /\ Configs # {}
ASSUME OperationsAssumption == Operations \subseteq Operation /\ Operations # {}
ASSUME BoundAssumption == MaxFaults \in Nat /\ Pids # {}

VARIABLES
  file,       \* content of the managed file
  stages,     \* pids whose stage file .iicp-stage-<pid> exists
  disk,       \* the sidecar
  up,         \* the executor process runs
  pid,        \* its process identifier
  memory,     \* the adapter's copy of the sidecar
  completed,  \* AdapterHost.completed: the answers of this process
  call,       \* the call in progress
  effects,    \* history variable: how often each apply replaced the file
  faults      \* faults so far

hostVars == <<file, stages, disk, up, pid, memory, completed, call, effects, faults>>

HistoryEntry == [op: Operations, old: Contents, generation: Nat]
Reversal == [op: Operations, generation: Nat, result: Contents]
AdapterState ==
  [generation: Nat, history: SUBSET HistoryEntry, reversals: SUBSET Reversal]
EmptyState == [generation |-> 0, history |-> {}, reversals |-> {}]

(* An answer is a receipt in one of the three convergence states, an       *)
(* AdapterError of the kinds whose outcome is unknown ("io"), or another   *)
(* AdapterError ("rejected").                                              *)
ReceiptKinds == {"converged", "partially_converged", "failed"}
Answer == [kind: ReceiptKinds \cup {"io", "rejected", "none"}, generation: Nat, result: Contents]
Error(kind) == [kind |-> kind, generation |-> 0, result |-> Unreadable]
Receipt(kind, generation, result) ==
  [kind |-> kind, generation |-> generation, result |-> result]

Steps == {"idle", "staged", "replaced", "restored", "recorded", "answered"}
Call == [step: Steps, op: Operations, old: Contents, answer: Answer]
AnyOperation == CHOOSE op \in Operations : TRUE
NoCall == [step |-> "idle", op |-> AnyOperation, old |-> Unreadable, answer |-> Error("none")]

---------------------------------------------------------------------------
(* What the host and the adapter know of an operation before they act.     *)

Cached(id) == {c \in completed : c.op.id = id}
Applied(id) == {e \in memory.history : e.op.id = id}
Reversed(id) == {e \in memory.reversals : e.op.id = id}

(* The receipts already recorded for an operation identifier, each with    *)
(* the operation it was recorded for.                                      *)
Recorded(op) ==
  CASE Cached(op.id) # {} -> Cached(op.id)
    [] Cached(op.id) = {} /\ op.action = "apply" ->
         {[op |-> e.op, answer |-> Receipt("converged", e.generation, e.op.desired)] :
          e \in Applied(op.id)}
    [] Cached(op.id) = {} /\ op.action = "rollback" ->
         {[op |-> e.op, answer |-> Receipt("converged", e.generation, e.result)] :
          e \in Reversed(op.id)}
    [] OTHER -> {}

(* Broken variant: a rollback does not compare generations.                *)
AdmissibleWithoutRollbackGeneration(op) ==
  CASE op.action = "apply" ->
         op.expected = memory.generation /\ op.desired \in Configs /\ file \in Configs
    [] op.action = "rollback" -> Applied(op.related) # {}
    [] op.action = "dry_run" -> op.desired \in Configs
    [] OTHER -> op.action = "verify"

(* The checks an unrecorded operation must pass before anything is written *)
(* or answered.  AdapterHost::execute dispatches on the action of the      *)
(* operation and knows no others than these.                               *)
Admissible(op) ==
  CASE op.action = "apply" ->
         op.expected = memory.generation /\ op.desired \in Configs /\ file \in Configs
    [] op.action = "rollback" -> op.expected = memory.generation /\ Applied(op.related) # {}
    [] op.action = "dry_run" -> op.desired \in Configs
    [] OTHER -> op.action = "verify"

Fault == faults < MaxFaults /\ faults' = faults + 1
Ready == up /\ call.step = "idle"

(* The answer of a call; AdapterHost::execute remembers every receipt.     *)
Answers(op, answer) ==
  /\ call' = [step |-> "answered", op |-> op, old |-> Unreadable, answer |-> answer]
  /\ completed' = IF answer.kind \in ReceiptKinds
                  THEN completed \cup {[op |-> op, answer |-> answer]} ELSE completed

At(step, action) == up /\ call.step = step /\ call.op.action = action

---------------------------------------------------------------------------
(* Calls that end before anything is written: an expired operation, an     *)
(* identifier recorded for another operation, a failed check.              *)
Refuse(op, live) ==
  /\ Ready
  /\ \/ ~live
     \/ Recorded(op) # {} /\ \A r \in Recorded(op) : r.op # op
     \/ Recorded(op) = {} /\ ~Admissible(op)
  /\ Answers(op, Error("rejected"))
  /\ UNCHANGED <<file, stages, disk, up, pid, memory, effects, faults>>

(* A duplicate gets the receipt recorded for it.                           *)
Replay(op, live) ==
  /\ Ready /\ live
  /\ \E r \in Recorded(op) : r.op = op /\ Answers(op, r.answer)
  /\ UNCHANGED <<file, stages, disk, up, pid, memory, effects, faults>>

(* dry_run and verify answer from memory and the file and write nothing;   *)
(* a file that is not there or not JSON makes verify fail.                 *)
DryRun(op, live) ==
  /\ Ready /\ live /\ Recorded(op) = {} /\ Admissible(op)
  /\ op.action = "dry_run"
  /\ Answers(op, Receipt("converged", memory.generation, op.desired))
  /\ UNCHANGED <<file, stages, disk, up, pid, memory, effects, faults>>

Look(op, live) ==
  /\ Ready /\ live /\ Recorded(op) = {} /\ Admissible(op)
  /\ op.action = "verify"
  /\ \/ /\ file # Unreadable /\ UNCHANGED faults
        /\ Answers(op, Receipt(IF file = op.desired THEN "converged" ELSE "failed",
                               memory.generation, file))
     \/ /\ IF file = Unreadable THEN UNCHANGED faults ELSE Fault
        /\ \E kind \in {"io"} \cup {k \in {"rejected"} : file = Unreadable} :
             Answers(op, Error(kind))
  /\ UNCHANGED <<file, stages, disk, up, pid, memory, effects>>

(* tempfile_in: the stage is created exclusively.  A stage left behind by  *)
(* a crashed process of the same pid makes it fail, and nothing clears it. *)
Stage(op, live) ==
  /\ Ready /\ live /\ Recorded(op) = {} /\ Admissible(op)
  /\ op.action \in Changing /\ pid \notin stages
  /\ stages' = stages \cup {pid}
  /\ call' = [step |-> "staged", op |-> op, old |-> file, answer |-> Error("none")]
  /\ UNCHANGED <<file, disk, up, pid, memory, completed, effects, faults>>

(* Nothing is staged: the file or the stage cannot be read or written.  An *)
(* apply takes a file it cannot read for an empty one and rejects it.  A   *)
(* stage that was created, but not given its permissions, stays behind.    *)
StageFails(op, live) ==
  /\ Ready /\ live /\ Recorded(op) = {} /\ Admissible(op)
  /\ op.action \in Changing
  /\ \/ /\ pid \in stages \/ (op.action = "rollback" /\ file = Unreadable)
        /\ UNCHANGED <<stages, faults>>
        /\ Answers(op, Error("io"))
     \/ /\ Fault /\ stages' \in {stages, stages \cup {pid}}
        /\ Answers(op, Error("io"))
     \/ /\ Fault /\ UNCHANGED stages
        /\ op.action = "apply" /\ Answers(op, Error("rejected"))
  /\ UNCHANGED <<file, disk, up, pid, memory, effects>>

---------------------------------------------------------------------------
(* apply: rename the stage over the file.                                  *)
Replace ==
  /\ At("staged", "apply")
  /\ file' = call.op.desired
  /\ stages' = stages \ {pid}
  /\ effects' = [effects EXCEPT ![call.op.id] = @ + 1]
  /\ call' = [call EXCEPT !.step = "replaced"]
  /\ UNCHANGED <<disk, up, pid, memory, completed, faults>>

(* The write, flush, sync or rename fails: the stage is removed.  The same *)
(* holds for the stage of a restore.                                       *)
ReplaceFails ==
  /\ up /\ call.step = "staged"
  /\ Fault
  /\ stages' = stages \ {pid}
  /\ Answers(call.op, Error("io"))
  /\ UNCHANGED <<file, disk, up, pid, memory, effects>>

(* The read-back agrees: generation and history advance in memory.         *)
RecordApply ==
  /\ At("replaced", "apply")
  /\ file = call.op.desired
  /\ memory' = [memory EXCEPT !.generation = @ + 1,
                  !.history = @ \cup {[op |-> call.op, old |-> call.old,
                                       generation |-> memory.generation + 1]}]
  /\ call' = [call EXCEPT !.step = "recorded"]
  /\ UNCHANGED <<file, stages, disk, up, pid, completed, effects, faults>>

(* Broken variant: a failed read-back undoes a generation that has not     *)
(* advanced yet.                                                           *)
ReadBackMismatchUndoesGeneration ==
  /\ At("replaced", "apply")
  /\ IF file = call.op.desired THEN Fault ELSE UNCHANGED faults
  /\ file' = call.old
  /\ memory' = [memory EXCEPT !.generation = @ - 1]
  /\ Answers(call.op, Receipt("failed", 0, call.old))
  /\ UNCHANGED <<stages, disk, up, pid, effects>>

(* The read-back disagrees, or fails: the old bytes are restored, or that  *)
(* fails too.  Neither outcome enters the history.                         *)
ReadBackMismatch ==
  /\ At("replaced", "apply")
  /\ IF file = call.op.desired THEN Fault ELSE UNCHANGED faults
  /\ file' = call.old
  /\ Answers(call.op, Receipt("failed", memory.generation, call.old))
  /\ UNCHANGED <<stages, disk, up, pid, memory, effects>>

ReadBackUnrestored ==
  /\ At("replaced", "apply")
  /\ Fault
  /\ stages' \in {stages, stages \cup {pid}}
  /\ Answers(call.op, Receipt("partially_converged", memory.generation, file))
  /\ UNCHANGED <<file, disk, up, pid, memory, effects>>

---------------------------------------------------------------------------
(* Broken variant: a reversal keeps the generation of what it reverses.    *)
RestoreKeepsGeneration ==
  /\ At("staged", "rollback")
  /\ \E e \in Applied(call.op.related) : file' = e.old
  /\ stages' = stages \ {pid}
  /\ call' = [call EXCEPT !.step = "restored"]
  /\ UNCHANGED <<disk, up, pid, memory, completed, effects, faults>>

(* rollback: rename the recorded old bytes over the file; the generation   *)
(* advances in memory before the file is read back.                        *)
Restore ==
  /\ At("staged", "rollback")
  /\ \E e \in Applied(call.op.related) : file' = e.old
  /\ stages' = stages \ {pid}
  /\ memory' = [memory EXCEPT !.generation = @ + 1]
  /\ call' = [call EXCEPT !.step = "restored"]
  /\ UNCHANGED <<disk, up, pid, completed, effects, faults>>

RecordReversal ==
  /\ At("restored", "rollback")
  /\ file # Unreadable
  /\ memory' = [memory EXCEPT !.reversals =
                  @ \cup {[op |-> call.op, generation |-> memory.generation, result |-> file]}]
  /\ call' = [call EXCEPT !.step = "recorded"]
  /\ UNCHANGED <<file, stages, disk, up, pid, completed, effects, faults>>

(* `self.observe()?`: the read fails and rollback returns at once, with    *)
(* the file restored and the generation advanced in memory alone.          *)
ReversalUnobserved ==
  /\ At("restored", "rollback")
  /\ IF file = Unreadable THEN UNCHANGED faults ELSE Fault
  /\ \E kind \in (IF file = Unreadable THEN {"io", "rejected"} ELSE {"io"}) :
       Answers(call.op, Error(kind))
  /\ UNCHANGED <<file, stages, disk, up, pid, memory, effects>>

---------------------------------------------------------------------------
(* persist_state renames a new sidecar into place and the call converges.  *)
NewReceipt ==
  IF call.op.action = "apply"
  THEN Receipt("converged", memory.generation, call.op.desired)
  ELSE CHOOSE a \in {Receipt("converged", e.generation, e.result) : e \in Reversed(call.op.id)} :
         TRUE

Persist ==
  /\ up /\ call.step = "recorded"
  /\ disk' = memory
  /\ Answers(call.op, NewReceipt)
  /\ UNCHANGED <<file, stages, up, pid, memory, effects, faults>>

(* Broken variants: the error of persist_state is dropped; memory is not   *)
(* put back after it.                                                      *)
PersistErrorDropped ==
  /\ up /\ call.step = "recorded"
  /\ Fault
  /\ Answers(call.op, NewReceipt)
  /\ UNCHANGED <<file, stages, disk, up, pid, memory, effects>>

PersistFailsMemoryKept ==
  /\ up /\ call.step = "recorded"
  /\ Fault
  /\ file' \in {call.old, file}
  /\ Answers(call.op, Error("io"))
  /\ UNCHANGED <<stages, disk, up, pid, memory, effects>>

(* persist_state fails: memory is put back and the file restored to what   *)
(* the call found in it, unless that fails as well, as it must when the    *)
(* stage of the sidecar stayed behind.                                     *)
PersistFails ==
  /\ up /\ call.step = "recorded"
  /\ Fault
  /\ memory' = [generation |-> memory.generation - 1,
                history |-> IF call.op.action = "apply"
                            THEN memory.history \ Applied(call.op.id) ELSE memory.history,
                reversals |-> IF call.op.action = "rollback"
                              THEN memory.reversals \ Reversed(call.op.id) ELSE memory.reversals]
  /\ \/ file' \in {call.old, file} /\ UNCHANGED stages
     \/ stages' = stages \cup {pid} /\ UNCHANGED file
  /\ Answers(call.op, Error("io"))
  /\ UNCHANGED <<disk, up, pid, effects>>

(* The caller takes the answer.                                            *)
Deliver ==
  /\ up /\ call.step = "answered"
  /\ call' = NoCall
  /\ UNCHANGED <<file, stages, disk, up, pid, memory, completed, effects, faults>>

---------------------------------------------------------------------------
(* The environment.  Every write goes through a stage file, so a crash in  *)
(* the middle of one may leave it behind.                                  *)
Writing == call.step \in {"replaced", "restored", "recorded"}

HostCrash ==
  /\ up /\ Fault
  /\ up' = FALSE
  /\ stages' \in IF Writing THEN {stages, stages \cup {pid}} ELSE {stages}
  /\ memory' = EmptyState /\ completed' = {} /\ call' = NoCall
  /\ UNCHANGED <<file, disk, pid, effects>>

(* Broken variant: the sidecar is not read.                                *)
HostRestartForgets ==
  /\ ~up /\ up' = TRUE
  /\ pid' \in Pids
  /\ UNCHANGED <<file, stages, disk, memory, completed, call, effects, faults>>

(* RuntimeConfigAdapter::open reads the sidecar.                           *)
HostRestart ==
  /\ ~up /\ up' = TRUE
  /\ pid' \in Pids
  /\ memory' = disk
  /\ UNCHANGED <<file, stages, disk, completed, call, effects, faults>>

ForeignWrite ==
  /\ Fault
  /\ file' \in Contents \ {file}
  /\ UNCHANGED <<stages, disk, up, pid, memory, completed, call, effects>>

---------------------------------------------------------------------------
HostInit ==
  /\ file \in Configs
  /\ stages = {} /\ disk = EmptyState /\ memory = EmptyState
  /\ up = TRUE /\ pid \in Pids
  /\ completed = {} /\ call = NoCall
  /\ effects = [id \in Ids |-> 0]
  /\ faults = 0

HostAccept(op, live) ==
  \/ Refuse(op, live) \/ Replay(op, live) \/ DryRun(op, live) \/ Look(op, live)
  \/ Stage(op, live) \/ StageFails(op, live)

HostRun ==
  \/ Replace \/ ReplaceFails \/ RecordApply \/ ReadBackMismatch \/ ReadBackUnrestored
  \/ Restore \/ RecordReversal \/ ReversalUnobserved \/ Persist \/ PersistFails

HostNext ==
  \/ \E op \in Operations, live \in BOOLEAN : HostAccept(op, live)
  \/ HostRun
  \/ Deliver
  \/ HostCrash \/ HostRestart \/ ForeignWrite

HostSpec == HostInit /\ [][HostNext]_hostVars

---------------------------------------------------------------------------
(* Types of the adapter's state: memory and sidecar hold the same record.  *)
HostTypeOK ==
  /\ file \in Contents
  /\ stages \subseteq Pids /\ pid \in Pids /\ up \in BOOLEAN
  /\ disk \in AdapterState /\ memory \in AdapterState
  /\ completed \subseteq [op: Operations, answer: Answer]
  /\ call \in Call
  /\ effects \in [Ids -> Nat]
  /\ faults \in 0..MaxFaults

(* Operations are signed for a generation.  Of all that are signed for the *)
(* same one, at most one is ever recorded, in memory or in the sidecar, at *)
(* the generation after it: also across restarts, undone calls and         *)
(* reversals.  (The content is another matter: a crash between the rename  *)
(* and the record leaves new content under the old generation.)            *)
Stamps(s) == {<<e.op, e.generation>> : e \in s.history \cup s.reversals}
OneRecordPerGeneration ==
  \A s \in {memory, disk} :
    /\ \A x, y \in Stamps(s) : x[1].expected = y[1].expected => x = y
    /\ \A x \in Stamps(s) : x[2] = x[1].expected + 1 /\ x[2] <= s.generation

(* A converged receipt the host hands out, or would hand out again, for an *)
(* apply or a reversal is in the sidecar: no crash forgets it              *)
(* (persist_state before `Ok(r)`).                                         *)
InSidecar(op, answer) ==
  /\ op.action = "apply" =>
       \E e \in disk.history :
         e.op = op /\ e.generation = answer.generation /\ op.desired = answer.result
  /\ op.action = "rollback" =>
       \E e \in disk.reversals :
         e.op = op /\ e.generation = answer.generation /\ e.result = answer.result
ConvergedIsDurable ==
  \A c \in completed : c.answer.kind = "converged" => InSidecar(c.op, c.answer)

(* Between two calls the adapter remembers exactly the operations its      *)
(* sidecar records, and never an older generation.                         *)
IdleMemoryKnowsDisk ==
  Ready => /\ memory.history = disk.history
           /\ memory.reversals = disk.reversals
           /\ memory.generation >= disk.generation

(* Why these hold.  The adapter's memory is its sidecar but for the call   *)
(* in progress, whose record it may hold already; the operation of a call  *)
(* that got past the checks is not recorded; every recorded generation is  *)
(* within the sidecar's.                                                   *)
SameRecords == memory.history = disk.history /\ memory.reversals = disk.reversals
MemoryAheadByCall ==
  CASE ~up -> memory = EmptyState /\ call = NoCall /\ completed = {}
    [] up /\ call.step \in {"idle", "staged", "replaced", "answered"} ->
         SameRecords /\ memory.generation >= disk.generation
    [] up /\ call.step = "restored" ->
         SameRecords /\ memory.generation > disk.generation
    [] up /\ call.step = "recorded" ->
         /\ memory.generation > disk.generation
         /\ IF call.op.action = "apply"
            THEN /\ memory.reversals = disk.reversals
                 /\ memory.history = disk.history \cup
                      {[op |-> call.op, old |-> call.old, generation |-> memory.generation]}
            ELSE /\ memory.history = disk.history
                 /\ \E result \in Contents :
                      memory.reversals = disk.reversals \cup
                        {[op |-> call.op, generation |-> memory.generation, result |-> result]}
UnrecordedCall ==
  /\ call.step \in {"staged", "replaced", "restored", "recorded"} => call.op.action \in Changing
  /\ call.step \in {"staged", "replaced"} => memory.generation = call.op.expected
  /\ call.step \in {"restored", "recorded"} => memory.generation = call.op.expected + 1
  /\ call.step = "replaced" => call.op.action = "apply"
  /\ call.step = "restored" => call.op.action = "rollback"
  /\ call.step \in {"staged", "replaced", "restored", "recorded"} =>
       \A e \in IF call.op.action = "apply" THEN disk.history ELSE disk.reversals :
         e.op.id # call.op.id
StampsWithin(s) ==
  /\ \A x \in s.history \cup s.reversals :
       x.generation = x.op.expected + 1 /\ x.generation <= s.generation
  /\ \A x, y \in s.history \cup s.reversals : x.generation = y.generation => x.op = y.op
HostInv ==
  HostTypeOK /\ MemoryAheadByCall /\ UnrecordedCall /\ StampsWithin(disk) /\ ConvergedIsDurable

(* Between two calls a restart changes nothing the adapter knows: what     *)
(* LOCAL_AUTHORITY.md says of duplicate delivery and rollback.             *)
IdleMemoryIsDisk == Ready => memory = disk

(* Once the sidecar records an apply, no later step replaces the file for  *)
(* it again, whatever is delivered again and across restarts; the same     *)
(* holds of reversals.                                                     *)
Restores(id) == call.step = "staged" /\ call'.step = "restored" /\ call.op.id = id
DurableIsNeverRepeated ==
  [][/\ \A e \in disk.history : effects'[e.op.id] = effects[e.op.id]
     /\ \A e \in disk.reversals : ~Restores(e.op.id)]_hostVars
=============================================================================
