----------------------------- MODULE Execution -----------------------------
(***************************************************************************)
(* The local executor: one controller process (`serve-executor`) that      *)
(* authorizes operations, journals their execution in its SQLite database  *)
(* and runs them on the adapter host (src/src/execution.rs, recovery.rs,   *)
(* the authorization and journal tables of controller.rs, and the dispatch *)
(* of bin/iicp-management-controller.rs).                                  *)
(*                                                                         *)
(* The server handles one request at a time.  A request is a sequence of   *)
(* durable steps: journal writes (controller database) interleaved with    *)
(* the adapter's file steps (AdapterHost).  A crash, an I/O error, a       *)
(* storage error, another writer of the file or the lapse of a signature's *)
(* validity may come between any two of them, and the client may submit    *)
(* any request again at any time.                                          *)
(***************************************************************************)
EXTENDS AdapterHost

CONSTANT MayLapse  \* the <<id, deadline>> pairs whose time may come: a bound

Deadlines == {"authorization", "operation"}
ASSUME LapseAssumption == MayLapse \subseteq Ids \X Deadlines

VARIABLES
  authorized,  \* apply_authorizations: at most one operation per identifier
  recoveries,  \* those authorized under a recovery gate
  journal,     \* execution_journal
  lapsed,      \* <<id, deadline>>: the deadlines that have passed
  work,        \* the request being handled
  replies      \* history variable: what was last answered for each operation

vars == <<hostVars, authorized, recoveries, journal, lapsed, work, replies>>
controllerVars == <<authorized, recoveries, journal, lapsed, work, replies>>

Phases == {"none", "started", "adapter_reported", "verified", "complete"}

(* The reasons of an ApplyLifecycleReceiptV1 name its state; a recovery    *)
(* receipt's reasons name its outcome; "REFUSED" is `::failure`, which     *)
(* reports ExecutionState::Failed.                                         *)
Reasons ==
  {"EXECUTION_VERIFIED", "EXECUTION_VERIFIED_FAILED", "EXECUTION_NOT_FULLY_CONVERGED",
   "EXECUTION_OUTCOME_OBSERVED_BEFORE_RETRY", "EXECUTION_OUTCOME_UNKNOWN",
   "EXECUTION_VERIFICATION_UNAVAILABLE", "EXECUTION_REJECTED_BY_ADAPTER",
   "EXECUTION_EFFECT_OBSERVED_AFTER_RESTART", "EXECUTION_RESTART_OBSERVATION_MISMATCH",
   "EXECUTION_RESTART_OBSERVATION_UNAVAILABLE"}
RecoveryReasons ==
  {"RECOVERY_VERIFIED_REVERSED", "RECOVERY_NOT_FULLY_CONVERGED", "RECOVERY_OUTCOME_UNKNOWN",
   "RECOVERY_VERIFICATION_UNAVAILABLE", "RECOVERY_REJECTED_BY_ADAPTER"}

(* A journal row: the adapter's receipt and the lifecycle receipt's reason *)
Row == [phase: Phases, adapter: Answer, receipt: Reasons \cup {"none"}]
NoRow == [phase |-> "none", adapter |-> Error("none"), receipt |-> "none"]

Stations ==
  {"idle", "executing", "verifying", "recording", "closing", "recovering", "confirming"}
Work == [at: Stations, op: Operations, live: BOOLEAN, applied: Answer,
         receipt: Reasons \cup {"none"}]
NoWork == [at |-> "idle", op |-> AnyOperation, live |-> FALSE, applied |-> Error("none"),
           receipt |-> "none"]
Handle(station, op, applied, receipt) ==
  [at |-> station, op |-> op, live |-> <<op.id, "operation">> \notin lapsed,
   applied |-> applied, receipt |-> receipt]

Idle == up /\ work.at = "idle"
Current(op) == <<op.id, "authorization">> \notin lapsed
PhaseOf(op) == journal[op.id].phase

---------------------------------------------------------------------------
(* Reading the target back (verify_authorized): its content against the    *)
(* operation's desired digest, or an error.                                *)
Readings == {"match", "differs", "error"}
Reading(op, seen) ==
  CASE seen = Unreadable -> "error"
    [] seen = op.desired -> "match"
    [] OTHER -> "differs"

(* A read can fail although the file is there.                             *)
Read(op, reading) ==
  \/ reading = Reading(op, file) /\ UNCHANGED faults
  \/ reading = "error" /\ Reading(op, file) # "error" /\ Fault

(* Broken variants: the read-back alone decides; an I/O error counts as a  *)
(* rejection.                                                              *)
LifecycleTrustsReadBack(answer, reading) ==
  IF reading = "match" THEN "EXECUTION_VERIFIED"
  ELSE IF answer.kind = "rejected" THEN "EXECUTION_REJECTED_BY_ADAPTER"
       ELSE "EXECUTION_NOT_FULLY_CONVERGED"
LifecycleIoIsRejection(answer, reading) ==
  CASE answer.kind = "converged" /\ reading = "match" -> "EXECUTION_VERIFIED"
    [] answer.kind \in {"io", "rejected"} -> "EXECUTION_REJECTED_BY_ADAPTER"
    [] OTHER -> "EXECUTION_NOT_FULLY_CONVERGED"

(* lifecycle(): what the adapter answered and what the target shows.       *)
Lifecycle(answer, reading) ==
  IF answer.kind \in ReceiptKinds
  THEN CASE answer.kind = "converged" /\ reading = "match" -> "EXECUTION_VERIFIED"
         [] reading = "differs" -> "EXECUTION_VERIFIED_FAILED"
         [] reading = "error" -> "EXECUTION_VERIFICATION_UNAVAILABLE"
         [] OTHER -> "EXECUTION_NOT_FULLY_CONVERGED"
  ELSE CASE answer.kind = "io" /\ reading # "error" -> "EXECUTION_OUTCOME_OBSERVED_BEFORE_RETRY"
         [] answer.kind = "io" /\ reading = "error" -> "EXECUTION_OUTCOME_UNKNOWN"
         [] OTHER -> "EXECUTION_REJECTED_BY_ADAPTER"

(* Broken variant: an effect seen after a restart counts as verified.      *)
AfterRestartVerified(reading) ==
  CASE reading = "match" -> "EXECUTION_VERIFIED"
    [] reading = "differs" -> "EXECUTION_RESTART_OBSERVATION_MISMATCH"
    [] reading = "error" -> "EXECUTION_RESTART_OBSERVATION_UNAVAILABLE"

AfterRestart(reading) ==
  CASE reading = "match" -> "EXECUTION_EFFECT_OBSERVED_AFTER_RESTART"
    [] reading = "differs" -> "EXECUTION_RESTART_OBSERVATION_MISMATCH"
    [] reading = "error" -> "EXECUTION_RESTART_OBSERVATION_UNAVAILABLE"

(* Broken variant: the read-back alone decides.                            *)
RecoveryOutcomeTrustsReadBack(answer, reading) ==
  IF reading = "match" THEN "RECOVERY_VERIFIED_REVERSED" ELSE "RECOVERY_NOT_FULLY_CONVERGED"

(* execute_recovery() over the same two observations.                      *)
RecoveryOutcome(answer, reading) ==
  CASE answer.kind = "converged" /\ reading = "match" -> "RECOVERY_VERIFIED_REVERSED"
    [] answer.kind = "io" -> "RECOVERY_OUTCOME_UNKNOWN"
    [] answer.kind = "rejected" -> "RECOVERY_REJECTED_BY_ADAPTER"
    [] answer.kind \in ReceiptKinds /\ reading = "error" -> "RECOVERY_VERIFICATION_UNAVAILABLE"
    [] OTHER -> "RECOVERY_NOT_FULLY_CONVERGED"

Reply(id, reason) == replies' = [replies EXCEPT ![id] = reason]

---------------------------------------------------------------------------
(* Authorization.  decisions and apply_authorizations have request_id, the *)
(* operation's identifier, as primary key: an identifier is authorized     *)
(* once, for one operation, under an apply gate or a recovery gate.  The   *)
(* plan digest of a recovery is the digest of the original gate and        *)
(* receipt and that of an apply gate is its plan's, so what one kind of    *)
(* gate authorized the other cannot resume.                                *)
(*                                                                         *)
(* An apply gate compares the action of the REQUEST with "apply".  The     *)
(* operation it carries may have any action, and the adapter host goes by  *)
(* the operation's.                                                        *)
Unclaimed(id) == \A o \in authorized : o.id # id

AuthorizeApply(op) ==
  /\ Idle /\ Current(op) /\ Unclaimed(op.id)
  /\ authorized' = authorized \cup {op}
  /\ UNCHANGED <<hostVars, recoveries, journal, lapsed, work, replies>>

(* A recovery names the adapter generation of an original execution that   *)
(* converged: its gate embeds the stored receipt of that execution, over   *)
(* which the operator's signature goes.                                    *)
RecoveryGate(op) ==
  /\ op.action = "rollback"
  /\ journal[op.related].phase = "complete"
  /\ journal[op.related].receipt = "EXECUTION_VERIFIED"
  /\ op.expected = journal[op.related].adapter.generation

AuthorizeRecovery(op) ==
  /\ Idle /\ Current(op) /\ Unclaimed(op.id) /\ RecoveryGate(op)
  /\ authorized' = authorized \cup {op}
  /\ recoveries' = recoveries \cup {op}
  /\ UNCHANGED <<hostVars, journal, lapsed, work, replies>>

---------------------------------------------------------------------------
(* execute_authorized(): resume_authorized_apply checks the gate against   *)
(* the clock, and the journal decides.                                     *)
Resumes(op) == Idle /\ Current(op) /\ op \in authorized \ recoveries

(* Broken variant: an interrupted execution is started over.               *)
StartExecutionOver(op) ==
  /\ Resumes(op) /\ PhaseOf(op) \in {"none", "started"}
  /\ journal' = [journal EXCEPT ![op.id].phase = "started"]
  /\ work' = Handle("executing", op, Error("none"), "none")
  /\ UNCHANGED <<hostVars, authorized, recoveries, lapsed, replies>>

(* No row: journal "started", then call the adapter.                       *)
StartExecution(op) ==
  /\ Resumes(op) /\ PhaseOf(op) = "none"
  /\ journal' = [journal EXCEPT ![op.id].phase = "started"]
  /\ work' = Handle("executing", op, Error("none"), "none")
  /\ UNCHANGED <<hostVars, authorized, recoveries, lapsed, replies>>

(* "started": a process stopped somewhere in the adapter call.  Observe    *)
(* the target and close; the adapter is not called.                        *)
ObserveStarted(op, reading) ==
  /\ Resumes(op) /\ PhaseOf(op) = "started"
  /\ Read(op, reading)
  /\ work' = Handle("closing", op, Error("none"), AfterRestart(reading))
  /\ UNCHANGED <<file, stages, disk, up, pid, memory, completed, call, effects>>
  /\ UNCHANGED <<authorized, recoveries, journal, lapsed, replies>>

(* Broken variant: a verified row is verified again.                       *)
ResumeReportedOrVerified(op) ==
  /\ Resumes(op) /\ PhaseOf(op) \in {"adapter_reported", "verified"}
  /\ work' = Handle("verifying", op, journal[op.id].adapter, "none")
  /\ UNCHANGED <<hostVars, authorized, recoveries, journal, lapsed, replies>>

(* "adapter_reported": verify with the stored receipt.                     *)
ResumeReported(op) ==
  /\ Resumes(op) /\ PhaseOf(op) = "adapter_reported"
  /\ work' = Handle("verifying", op, journal[op.id].adapter, "none")
  /\ UNCHANGED <<hostVars, authorized, recoveries, journal, lapsed, replies>>

(* Broken variant: the stored receipt is answered and the row left open.   *)
CloseVerifiedAnswers(op) ==
  /\ Resumes(op) /\ PhaseOf(op) = "verified"
  /\ Reply(op.id, journal[op.id].receipt)
  /\ UNCHANGED <<hostVars, authorized, recoveries, journal, lapsed, work>>

(* "verified": close with the stored receipt.                              *)
CloseVerified(op) ==
  /\ Resumes(op) /\ PhaseOf(op) = "verified"
  /\ work' = Handle("closing", op, Error("none"), journal[op.id].receipt)
  /\ UNCHANGED <<hostVars, authorized, recoveries, journal, lapsed, replies>>

(* "complete": answer the stored receipt.                                  *)
ReturnStored(op) ==
  /\ Resumes(op) /\ PhaseOf(op) = "complete"
  /\ Reply(op.id, journal[op.id].receipt)
  /\ UNCHANGED <<hostVars, authorized, recoveries, journal, lapsed, work>>

(* The gate no longer validates, nothing was authorized under it, or the   *)
(* database cannot be read.                                                *)
RefuseRequest(op) ==
  /\ Idle
  /\ IF Current(op) /\ op \in authorized THEN Fault ELSE UNCHANGED faults
  /\ Reply(op.id, "REFUSED")
  /\ UNCHANGED <<file, stages, disk, up, pid, memory, completed, call, effects>>
  /\ UNCHANGED <<authorized, recoveries, journal, lapsed, work>>

(* The adapter call of an apply or of a recovery.                          *)
CallAdapter ==
  /\ work.at \in {"executing", "recovering"} /\ call.step # "answered"
  /\ HostAccept(work.op, work.live) \/ HostRun
  /\ UNCHANGED controllerVars

(* A receipt is journalled before the target is verified; an error is not. *)
Report ==
  /\ work.at = "executing"
  /\ Deliver
  /\ journal' = IF call.answer.kind \in ReceiptKinds
                THEN [journal EXCEPT ![work.op.id].phase = "adapter_reported",
                                     ![work.op.id].adapter = call.answer]
                ELSE journal
  /\ work' = [work EXCEPT !.at = "verifying", !.applied = call.answer]
  /\ UNCHANGED <<authorized, recoveries, lapsed, replies>>

Verify(reading) ==
  /\ up /\ work.at = "verifying"
  /\ Read(work.op, reading)
  /\ work' = [work EXCEPT !.at = "recording", !.receipt = Lifecycle(work.applied, reading)]
  /\ UNCHANGED <<file, stages, disk, up, pid, memory, completed, call, effects>>
  /\ UNCHANGED <<authorized, recoveries, journal, lapsed, replies>>

RecordVerified ==
  /\ up /\ work.at = "recording"
  /\ journal' = [journal EXCEPT ![work.op.id].phase = "verified",
                                ![work.op.id].receipt = work.receipt]
  /\ work' = [work EXCEPT !.at = "closing"]
  /\ UNCHANGED <<hostVars, authorized, recoveries, lapsed, replies>>

RecordComplete ==
  /\ up /\ work.at = "closing"
  /\ journal' = [journal EXCEPT ![work.op.id].phase = "complete",
                                ![work.op.id].receipt = work.receipt]
  /\ Reply(work.op.id, work.receipt)
  /\ work' = NoWork
  /\ UNCHANGED <<hostVars, authorized, recoveries, lapsed>>

(* A journal write fails: the request ends with STORAGE_ERROR and nothing  *)
(* of what it was about to write is stored.                                *)
JournalWriteDue ==
  \/ work.at = "executing" /\ call.step = "answered" /\ call.answer.kind \in ReceiptKinds
  \/ work.at \in {"recording", "closing"}

(* Broken variant: the storage error is dropped and the receipt answered.  *)
StorageErrorDropped ==
  /\ up /\ JournalWriteDue /\ Fault
  /\ Reply(work.op.id, work.receipt)
  /\ work' = NoWork /\ call' = NoCall
  /\ UNCHANGED <<file, stages, disk, up, pid, memory, completed, effects>>
  /\ UNCHANGED <<authorized, recoveries, journal, lapsed>>

StorageError ==
  /\ up /\ JournalWriteDue /\ Fault
  /\ Reply(work.op.id, "REFUSED")
  /\ work' = NoWork /\ call' = NoCall
  /\ UNCHANGED <<file, stages, disk, up, pid, memory, completed, effects>>
  /\ UNCHANGED <<authorized, recoveries, journal, lapsed>>

---------------------------------------------------------------------------
(* execute_recovery(): not journalled; a duplicate runs the adapter call   *)
(* again and relies on what the host and the sidecar recorded.             *)
StartRecovery(op) ==
  /\ Idle /\ Current(op) /\ op \in recoveries /\ RecoveryGate(op)
  /\ work' = Handle("recovering", op, Error("none"), "none")
  /\ UNCHANGED <<hostVars, authorized, recoveries, journal, lapsed, replies>>

TakeRecovery ==
  /\ work.at = "recovering"
  /\ Deliver
  /\ work' = [work EXCEPT !.at = "confirming", !.applied = call.answer]
  /\ UNCHANGED <<authorized, recoveries, journal, lapsed, replies>>

ConfirmRecovery(reading) ==
  /\ up /\ work.at = "confirming"
  /\ Read(work.op, reading)
  /\ Reply(work.op.id, RecoveryOutcome(work.applied, reading))
  /\ work' = NoWork
  /\ UNCHANGED <<file, stages, disk, up, pid, memory, completed, call, effects>>
  /\ UNCHANGED <<authorized, recoveries, journal, lapsed>>

---------------------------------------------------------------------------
Crash ==
  /\ HostCrash
  /\ work' = NoWork
  /\ UNCHANGED <<authorized, recoveries, journal, lapsed, replies>>

Restart == HostRestart /\ UNCHANGED controllerVars

ChangeFile == ForeignWrite /\ UNCHANGED controllerVars

(* A validity window ends.                                                 *)
Lapse(id, deadline) ==
  /\ <<id, deadline>> \in MayLapse
  /\ lapsed' = lapsed \cup {<<id, deadline>>}
  /\ UNCHANGED <<hostVars, authorized, recoveries, journal, work, replies>>

---------------------------------------------------------------------------
Init ==
  /\ HostInit
  /\ authorized = {} /\ recoveries = {} /\ journal = [id \in Ids |-> NoRow]
  /\ lapsed = {} /\ work = NoWork
  /\ replies = [id \in Ids |-> "none"]

Submit(op) ==
  \/ StartExecution(op) \/ ResumeReported(op) \/ CloseVerified(op)
  \/ ReturnStored(op) \/ RefuseRequest(op) \/ StartRecovery(op)
  \/ \E reading \in Readings : ObserveStarted(op, reading)

Proceed ==
  \/ CallAdapter \/ Report \/ RecordVerified \/ RecordComplete \/ TakeRecovery
  \/ \E reading \in Readings : Verify(reading) \/ ConfirmRecovery(reading)

Next ==
  \/ \E op \in Operations : AuthorizeApply(op) \/ AuthorizeRecovery(op) \/ Submit(op)
  \/ Proceed \/ StorageError
  \/ Crash \/ Restart \/ ChangeFile
  \/ \E id \in Ids, deadline \in Deadlines : Lapse(id, deadline)

Spec == Init /\ [][Next]_vars

---------------------------------------------------------------------------
TypeOK ==
  /\ HostTypeOK
  /\ authorized \subseteq Operations /\ recoveries \subseteq authorized
  /\ journal \in [Ids -> Row]
  /\ lapsed \subseteq MayLapse
  /\ work \in Work
  /\ replies \in [Ids -> Reasons \cup RecoveryReasons \cup {"REFUSED", "none"}]

(* A process stopped anywhere in an apply never applies it again: whatever *)
(* crashes, errors and duplicate submissions come, an operation replaces   *)
(* the file at most once, and never before its intent is in the journal    *)
(* (execute_authorized writes "started" before host.execute).              *)
AtMostOnce == \A id \in Ids : effects[id] <= (IF journal[id].phase = "none" THEN 0 ELSE 1)

(* EXECUTION_VERIFIED, the only receipt that reports convergence, is true  *)
(* across the two stores, for whatever operation the gate carried: an      *)
(* apply did replace the file, once, and the sidecar records it under the  *)
(* generation the journal's receipt names; a reversal is recorded so too;  *)
(* and an operation that only looks replaced nothing.                      *)
VerifiedIsDurable ==
  \A id \in Ids : journal[id].receipt = "EXECUTION_VERIFIED" =>
    \E o \in authorized \ recoveries :
      /\ o.id = id /\ InSidecar(o, journal[id].adapter)
      /\ effects[id] = IF o.action = "apply" THEN 1 ELSE 0

(* EXECUTION_REJECTED_BY_ADAPTER is never the receipt of an apply that did *)
(* replace the file.  (It may be that of a reversal sent through an apply  *)
(* gate: RuntimeConfigAdapter::rollback reads the file back after it was   *)
(* restored, and a file that is not JSON by then is a rejection.)          *)
RejectedHadNoEffect ==
  \A id \in Ids : journal[id].receipt = "EXECUTION_REJECTED_BY_ADAPTER" => effects[id] = 0

(* Every lifecycle receipt a client gets for an operation is the one the   *)
(* journal stores, and it is stored before it is answered: duplicates,     *)
(* restarts and resumptions agree.                                         *)
AnsweredReceiptsAgree ==
  \A id \in Ids : replies[id] \in Reasons =>
    journal[id].phase = "complete" /\ journal[id].receipt = replies[id]

(* A row only moves forward, and a stored receipt is never rewritten.      *)
Rank(phase) ==
  CASE phase = "none" -> 0 [] phase = "started" -> 1 [] phase = "adapter_reported" -> 2
    [] phase = "verified" -> 3 [] phase = "complete" -> 4
JournalMovesForward ==
  [][\A id \in Ids :
       /\ Rank(journal'[id].phase) >= Rank(journal[id].phase)
       /\ journal[id].receipt # "none" => journal'[id].receipt = journal[id].receipt]_vars

(* A reversal made under a recovery gate follows immediately, in the       *)
(* target's generations, the apply it reverses: no later authorized change *)
(* is discarded by it.  (A reversal carried by an apply gate names its     *)
(* original and a generation too, and nothing ties the one to the other.)  *)
ReversalFollowsItsOriginal ==
  \A x \in disk.reversals, e \in disk.history :
    x.op \in recoveries /\ e.op.id = x.op.related => x.generation = e.generation + 1

(* A recovery answered as reversed is in the sidecar.                      *)
ReversedIsDurable ==
  \A id \in Ids : replies[id] = "RECOVERY_VERIFIED_REVERSED" =>
    \E x \in disk.reversals : x.op.id = id

(* Why these hold.  What an answer says of an operation is true of the     *)
(* file and of the sidecar.                                                *)
TrueOf(op, answer) ==
  /\ answer.kind = "converged" =>
       InSidecar(op, answer) /\ (op.action = "apply" => effects[op.id] = 1)
  /\ answer.kind \notin ReceiptKinds \cup {"io"} /\ op.action = "apply" => effects[op.id] = 0

(* Rows belong to operations authorized under apply gates; a row has a     *)
(* receipt from "verified" on; what the adapter reported is true; a        *)
(* recovery is authorized for the generation of an apply whose row is      *)
(* closed.                                                                 *)
AuthorizedOnce == \A x, y \in authorized : x.id = y.id => x = y
OneEffect ==
  \A id \in Ids :
    /\ effects[id] <= 1
    /\ effects[id] # 0 => \E o \in authorized : o.id = id /\ o.action = "apply"
RowsFit ==
  \A id \in Ids :
    /\ journal[id].phase = "none" => effects[id] = 0
    /\ journal[id].phase # "none" => \E o \in authorized \ recoveries : o.id = id
    /\ journal[id].receipt = "none" <=> journal[id].phase \notin {"verified", "complete"}
    /\ journal[id].phase = "adapter_reported" =>
         /\ journal[id].adapter.kind \in ReceiptKinds
         /\ \A o \in authorized : o.id = id => TrueOf(o, journal[id].adapter)
ReversalsFit ==
  /\ \A o \in recoveries : RecoveryGate(o)
  /\ \A x \in disk.reversals : x.op \in authorized /\ x.op.action = "rollback"

(* An operation in the apply history replaced the file, and is there once. *)
HistoryFits ==
  /\ \A e \in disk.history :
       e.op \in authorized /\ e.op.action = "apply" /\ effects[e.op.id] = 1
  /\ \A x, y \in disk.history : x.op.id = y.op.id => x = y

(* The request being handled, its row, and its adapter call.               *)
WorkFits ==
  /\ ~up => work = NoWork
  /\ call.step # "idle" => call.op = work.op /\ work.at \in {"executing", "recovering"}
  /\ work.at \in {"executing", "verifying", "recording", "closing"} =>
       work.op \in authorized \ recoveries
  /\ work.at \in {"recovering", "confirming"} => work.op \in recoveries
Started == journal[work.op.id].phase = "started"
WorkMatchesRow ==
  LET row == journal[work.op.id] IN
  /\ work.at = "executing" => Started
  /\ work.at \in {"verifying", "recording"} =>
       IF work.applied.kind \in ReceiptKinds
       THEN row.phase = "adapter_reported" /\ row.adapter = work.applied
       ELSE Started
  /\ work.at \in {"verifying", "recording", "confirming"} => TrueOf(work.op, work.applied)
  /\ work.at = "recording" =>
       \E reading \in Readings : work.receipt = Lifecycle(work.applied, reading)
  /\ work.at = "closing" =>
       \/ row.phase = "verified" /\ row.receipt = work.receipt
       \/ Started /\ \E reading \in Readings : work.receipt = AfterRestart(reading)
CallMatchesEffects ==
  /\ work.at = "executing" /\ call.step \in {"idle", "staged"} => effects[work.op.id] = 0
  /\ work.at = "executing" /\ work.op.action = "apply" /\ call.step \in {"replaced", "recorded"} =>
       effects[work.op.id] = 1
  /\ call.step = "answered" => TrueOf(call.op, call.answer)

(* The durable stores agree with each other, the request being handled     *)
(* agrees with them, and so does what was answered.                        *)
StoresAgree ==
  /\ OneEffect /\ AuthorizedOnce /\ RowsFit /\ ReversalsFit /\ HistoryFits
  /\ VerifiedIsDurable /\ RejectedHadNoEffect
WorkAgrees == WorkFits /\ WorkMatchesRow /\ CallMatchesEffects
RepliesAgree == AnsweredReceiptsAgree /\ ReversedIsDurable
ExecutionInv == TypeOK /\ HostInv /\ StoresAgree /\ WorkAgrees /\ RepliesAgree

---------------------------------------------------------------------------
(* The abstract local apply: an operation settles when its receipt is      *)
(* first stored.                                                           *)
Status(id) ==
  IF journal[id].receipt # "none" THEN "settled"
  ELSE IF journal[id].phase # "none" THEN "underway"
       ELSE IF Unclaimed(id) THEN "unauthorized" ELSE "authorized"

Kind(id) ==
  IF Unclaimed(id) THEN "none"
  ELSE IF \E o \in authorized : o.id = id /\ o.action = "apply" THEN "apply" ELSE "other"

Promise == INSTANCE LocalApply WITH
  Ids <- Ids, Receipts <- Reasons,
  Touched <- {"EXECUTION_VERIFIED"}, Untouched <- {"EXECUTION_REJECTED_BY_ADAPTER"},
  status <- [id \in Ids |-> Status(id)], kind <- [id \in Ids |-> Kind(id)],
  touches <- effects, receipt <- [id \in Ids |-> journal[id].receipt]

(* Execution implements LocalApply.                                        *)
KeepsPromise == Promise!LocalSpec

---------------------------------------------------------------------------
(* Liveness.  The server loop takes every step it can and an operator      *)
(* restarts a stopped executor (weak fairness); a client that has no       *)
(* receipt submits its request again and again, and the server, which      *)
(* serves one connection after the other, gets to it (strong fairness: it  *)
(* is not always idle).                                                    *)
Resubmit(op) ==
  \/ ResumeReported(op) \/ CloseVerified(op)
  \/ \E reading \in Readings : ObserveStarted(op, reading)
Fairness ==
  /\ WF_vars(Proceed) /\ WF_vars(Restart)
  /\ \A op \in Operations : SF_vars(Resubmit(op))
FairSpec == Spec /\ Fairness

(* An execution that began is eventually closed with a receipt, wherever   *)
(* it was interrupted, unless its authorization lapses first.              *)
InterruptedExecutionsSettle ==
  \A id \in Ids :
    journal[id].phase # "none" ~>
      (journal[id].phase = "complete" \/ <<id, "authorization">> \in lapsed)
=============================================================================
