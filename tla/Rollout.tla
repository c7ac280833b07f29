------------------------------ MODULE Rollout ------------------------------
(***************************************************************************)
(* The staged rollout coordinator (src/src/rollout.rs) and the commands of *)
(* the CLI that drive it (src/src/bin/iicp-management.rs, `rollout ...`).  *)
(*                                                                         *)
(* The ledger is an SQLite file.  Every command is a process of its own    *)
(* and several may run at once: each SQL statement is atomic, nothing      *)
(* larger is (create and assess_drift apart).  A command reads the row of  *)
(* the run and the rows of its targets in two statements, decides, and     *)
(* writes in a third.  A process may stop between any two statements.      *)
(*                                                                         *)
(* The executors are seen through what Execution.tla shows of them: the    *)
(* first execution of a target's operation settles it with one receipt,    *)
(* duplicates get that receipt, a gate that has lapsed is refused, and an  *)
(* answer may be lost.                                                     *)
(***************************************************************************)
EXTENDS Integers, FiniteSets

CONSTANTS
  Targets,      \* the targets of the manifest
  BatchOf,      \* their batches
  Required,     \* the required ones
  Clis,         \* concurrent command processes
  MaxCommands   \* bound on pauses, resumes, retries and crashes together

ASSUME ManifestAssumption ==  \* validate_manifest
  /\ IsFiniteSet(Targets) /\ BatchOf \in [Targets -> Nat] /\ Required \subseteq Targets
  /\ \E canary \in Required : {t \in Targets : BatchOf[t] = 0} = {canary}
  /\ \A t \in Targets : \A b \in 0..BatchOf[t] : \E u \in Targets : BatchOf[u] = b
ASSUME CommandsAssumption == MaxCommands \in Nat

VARIABLES
  policy,    \* the manifest's failure policy
  run,       \* the row of runs, but for its version
  targets,   \* the rows of rollout_targets
  settled,   \* the receipt each executor has stored for its operation
  cli,       \* the command processes
  signed,    \* what the acceptance artifact of an administrator accepts
  commands   \* commands and crashes so far

vars == <<policy, run, targets, settled, cli, signed, commands>>

RunStates == {"pending", "running", "paused", "converged", "partially_converged"}
TargetStates == {"pending", "running", "converged", "deferred", "rejected", "failed"}
Outcomes == {"converged", "unconverged", "deferred"}  \* of a lifecycle receipt
Replies == Outcomes \cup {"refused", "error", "none"}
LastBatch == CHOOSE b \in {BatchOf[t] : t \in Targets} : \A t \in Targets : BatchOf[t] <= b
Batches == 0..LastBatch
Run == [state: RunStates, batch: Batches, accepted: BOOLEAN]
Places == {"idle", "selecting", "next", "marked", "calling", "recording", "recalculating",
           "deciding", "writing", "recorded", "retrying", "reopening"}
Cli == [at: Places, retry: BOOLEAN, todo: SUBSET Targets, target: Targets \cup {"none"},
        reply: Replies, batch: Batches, write: RunStates]

FreshRun == [state |-> "pending", batch |-> 0, accepted |-> FALSE]
Gone == [at |-> "idle", retry |-> FALSE, todo |-> {}, target |-> "none", reply |-> "none",
         batch |-> 0, write |-> "pending"]

InBatch(b) == {t \in Targets : BatchOf[t] = b}
Open(t) == targets[t] \in {"pending", "running"}
Command == commands < MaxCommands /\ commands' = commands + 1

(* The version of a run only grows, and every statement that advances it   *)
(* makes an artifact signed for an earlier one worthless: this is all the  *)
(* model keeps of it.                                                      *)
Unsigned == [t \in Targets |-> "pending"]
NewVersion == signed' = IF run.accepted THEN signed ELSE Unsigned

Goto(p, place) == cli' = [cli EXCEPT ![p].at = place]
Leave(p) == cli' = [cli EXCEPT ![p] = Gone]

---------------------------------------------------------------------------
(* run-batch: runnable_targets reads the run, then its targets.            *)
StartBatch(p) ==
  /\ cli[p].at = "idle"
  /\ run.state \notin {"paused", "converged"}
  /\ cli' = [cli EXCEPT ![p].at = "selecting", ![p].batch = run.batch]
  /\ UNCHANGED <<policy, run, targets, settled, signed, commands>>

SelectTargets(p) ==
  /\ cli[p].at = "selecting"
  /\ LET todo == {t \in InBatch(cli[p].batch) : Open(t)} IN
     IF todo = {} THEN Leave(p)
     ELSE cli' = [cli EXCEPT ![p] = [Gone EXCEPT !.at = "next", !.todo = todo]]
  /\ UNCHANGED <<policy, run, targets, settled, signed, commands>>

(* Broken variant: the row is updated whatever its state.                  *)
MarkTargetAlways(p) ==
  /\ cli[p].at = "next"
  /\ \E t \in cli[p].todo :
       /\ targets' = [targets EXCEPT ![t] = "running"]
       /\ cli' = [cli EXCEPT ![p].at = "marked", ![p].target = t, ![p].todo = @ \ {t}]
  /\ UNCHANGED <<policy, run, settled, signed, commands>>

(* mark_running: the target, if it is still pending or running, and then   *)
(* the run, if it is.  Otherwise the command ends with an error.           *)
MarkTarget(p) ==
  /\ cli[p].at = "next"
  /\ \E t \in cli[p].todo :
       IF Open(t)
       THEN /\ targets' = [targets EXCEPT ![t] = "running"]
            /\ cli' = [cli EXCEPT ![p].at = "marked", ![p].target = t, ![p].todo = @ \ {t}]
       ELSE Leave(p) /\ UNCHANGED targets
  /\ UNCHANGED <<policy, run, settled, signed, commands>>

MarkRun(p) ==
  /\ cli[p].at = "marked"
  /\ run' = IF run.state \in {"pending", "running"} THEN [run EXCEPT !.state = "running"] ELSE run
  /\ Goto(p, "calling")
  /\ UNCHANGED <<policy, targets, settled, signed, commands>>

---------------------------------------------------------------------------
(* The executor's answer, or the error of a connection that failed before  *)
(* or after the executor did its work.  An executor that stored a receipt  *)
(* and then failed answers like one that refuses.                          *)
Call(p, outcome, reply) ==
  /\ cli[p].at = "calling"
  /\ LET t == cli[p].target IN
     \/ /\ settled[t] \in {"none", outcome}
        /\ settled' = [settled EXCEPT ![t] = outcome]
        /\ reply \in {outcome, "refused", "error"}
     \/ reply \in {"refused", "error"} /\ UNCHANGED settled
  /\ cli' = [cli EXCEPT ![p].at = "recording", ![p].reply = reply]
  /\ UNCHANGED <<policy, run, targets, signed, commands>>

(* Broken variant: a target whose executor gave no answer is to be started *)
(* again.                                                                  *)
RecordedAfresh(reply) ==
  CASE reply = "converged" -> "converged"
    [] reply = "unconverged" -> "failed"
    [] reply = "deferred" -> "deferred"
    [] reply = "error" -> "pending"
    [] reply = "refused" -> "rejected"

(* The state a receipt or an error gives its target.                       *)
Recorded(reply) ==
  CASE reply = "converged" -> "converged"
    [] reply = "unconverged" -> "failed"
    [] reply \in {"deferred", "error"} -> "deferred"
    [] reply = "refused" -> "rejected"

(* Broken variant: partial convergence is recorded as convergence.         *)
RecordPartialAsConverged(p) ==
  /\ cli[p].at = "recording"
  /\ LET t == cli[p].target IN
     IF Open(t) \/ targets[t] = "deferred"
     THEN /\ targets' = [targets EXCEPT ![t] =
               IF cli[p].reply = "unconverged" THEN "converged" ELSE Recorded(cli[p].reply)]
          /\ Goto(p, "recalculating")
     ELSE /\ UNCHANGED targets
          /\ IF cli[p].reply = "error" THEN Goto(p, "recalculating") ELSE Leave(p)
  /\ UNCHANGED <<policy, run, settled, signed, commands>>

(* record_receipt, record_execution_error: the row is updated unless its   *)
(* state is final already.  A receipt that finds it final is an error.     *)
Record(p) ==
  /\ cli[p].at = "recording"
  /\ LET t == cli[p].target IN
     IF Open(t) \/ targets[t] = "deferred"
     THEN /\ targets' = [targets EXCEPT ![t] = Recorded(cli[p].reply)]
          /\ Goto(p, "recalculating")
     ELSE /\ UNCHANGED targets
          /\ IF cli[p].reply = "error" THEN Goto(p, "recalculating") ELSE Leave(p)
  /\ UNCHANGED <<policy, run, settled, signed, commands>>

---------------------------------------------------------------------------
(* recalculate: reads the run, reads its targets, writes the run.          *)
ReadRun(p) ==
  /\ cli[p].at = "recalculating"
  /\ cli' = [cli EXCEPT ![p].at = "deciding", ![p].batch = run.batch, ![p].reply = "none",
                         ![p].target = "none"]
  /\ UNCHANGED <<policy, run, targets, settled, signed, commands>>

Unconverged(b) == {t \in InBatch(b) : targets[t] # "converged"}

(* Broken variants: a batch is left although a required target of it has   *)
(* not converged; the last batch alone decides that a run converged; the   *)
(* last batch is taken for one before the last.                            *)
DispositionIgnoresRequired(b) ==
  IF b < LastBatch /\ policy = "continue_independent"
  THEN [state |-> "running", batch |-> b + 1]
  ELSE IF Unconverged(b) # {} THEN [state |-> "paused", batch |-> b]
  ELSE IF b < LastBatch THEN [state |-> "running", batch |-> b + 1]
  ELSE [batch |-> b, state |-> IF \A t \in Targets : targets[t] = "converged"
                               THEN "converged" ELSE "partially_converged"]
DispositionOfLastBatch(b) ==
  IF Unconverged(b) \cap Required # {} THEN [state |-> "paused", batch |-> b]
  ELSE IF b < LastBatch THEN [state |-> "running", batch |-> b + 1]
  ELSE [state |-> "converged", batch |-> b]

DispositionPastLast(b) ==
  IF Unconverged(b) \cap Required # {} \/ (Unconverged(b) # {} /\ policy = "stop_and_hold")
  THEN [state |-> "paused", batch |-> b]
  ELSE [batch |-> b + 1, state |-> IF b < LastBatch THEN "running" ELSE "converged"]

(* Where the run goes when every target of batch b is closed.              *)
Disposition(b) ==
  IF 0 < b /\ b = LastBatch /\ Unconverged(b) # {}
  THEN [state |-> "partially_converged", batch |-> b]
  ELSE IF Unconverged(b) \cap Required # {}
          \/ (Unconverged(b) # {} /\ policy = "stop_and_hold")
  THEN [state |-> "paused", batch |-> b]
  ELSE IF b < LastBatch THEN [state |-> "running", batch |-> b + 1]
  ELSE [batch |-> b, state |-> IF \A t \in Targets : targets[t] = "converged"
                               THEN "converged" ELSE "partially_converged"]

Decide(p) ==
  /\ cli[p].at = "deciding"
  /\ LET b == cli[p].batch  d == Disposition(b) IN
     IF \E t \in InBatch(b) : Open(t) THEN Goto(p, "recorded")
     ELSE cli' = [cli EXCEPT ![p].at = "writing", ![p].write = d.state, ![p].batch = d.batch]
  /\ UNCHANGED <<policy, run, targets, settled, signed, commands>>

Write(p) ==
  /\ cli[p].at = "writing"
  /\ run' = [run EXCEPT !.state = cli[p].write, !.batch = cli[p].batch]
  /\ NewVersion /\ Goto(p, "recorded")
  /\ UNCHANGED <<policy, targets, settled, commands>>

(* The command looks at the run again: a retry is done, a batch goes on    *)
(* with the targets it selected unless the run is paused.                  *)
Continue(p) ==
  /\ cli[p].at = "recorded"
  /\ IF cli[p].retry \/ run.state = "paused" \/ cli[p].todo = {} THEN Leave(p)
     ELSE cli' = [cli EXCEPT ![p] = [Gone EXCEPT !.at = "next", !.todo = cli[p].todo]]
  /\ UNCHANGED <<policy, run, targets, settled, signed, commands>>

---------------------------------------------------------------------------
(* retry-target: prepare_retry reads the target's state and writes the     *)
(* target and the run without looking again.                               *)
StartRetry(p, t) ==
  /\ cli[p].at = "idle" /\ targets[t] = "deferred" /\ Command
  /\ cli' = [cli EXCEPT ![p].at = "retrying", ![p].retry = TRUE, ![p].target = t]
  /\ UNCHANGED <<policy, run, targets, settled, signed>>

RetryTarget(p) ==
  /\ cli[p].at = "retrying"
  /\ targets' = [targets EXCEPT ![cli[p].target] = "running"]
  /\ Goto(p, "reopening")
  /\ UNCHANGED <<policy, run, settled, signed, commands>>

(* The executor of the target may be missing from the operator's map: the  *)
(* command ends there.                                                     *)
RetryRun(p) ==
  /\ cli[p].at = "reopening"
  /\ run' = [run EXCEPT !.state = "running"]
  /\ NewVersion
  /\ Goto(p, "calling") \/ Leave(p)
  /\ UNCHANGED <<policy, targets, settled, commands>>

---------------------------------------------------------------------------
(* pause and resume: one conditional statement each.                       *)
Transition(from, to) ==
  /\ run.state = from /\ Command
  /\ run' = [run EXCEPT !.state = to]
  /\ NewVersion
  /\ UNCHANGED <<policy, targets, settled, cli>>
Pause == Transition("running", "paused")
Resume == Transition("paused", "running")

(* An administrator signs the disposition of the run as status shows it.   *)
Sign ==
  /\ run.state = "partially_converged" /\ ~run.accepted
  /\ signed' = targets
  /\ UNCHANGED <<policy, run, targets, settled, cli, commands>>

(* accept-partial: one conditional statement on state, version and flag.   *)
AcceptPartial ==
  /\ run.state = "partially_converged" /\ ~run.accepted /\ signed # Unsigned
  /\ run' = [run EXCEPT !.accepted = TRUE]
  /\ UNCHANGED <<policy, targets, settled, cli, signed, commands>>

(* A command process stops.                                                *)
Crash(p) ==
  /\ cli[p].at # "idle" /\ Command
  /\ Leave(p)
  /\ UNCHANGED <<policy, run, targets, settled, signed>>

---------------------------------------------------------------------------
Init ==
  /\ policy \in {"stop_and_hold", "continue_independent"}
  /\ run = FreshRun /\ targets = [t \in Targets |-> "pending"]
  /\ settled = [t \in Targets |-> "none"]
  /\ cli = [p \in Clis |-> Gone]
  /\ signed = Unsigned /\ commands = 0

Step(p) ==
  \/ SelectTargets(p) \/ MarkTarget(p) \/ MarkRun(p)
  \/ \E outcome \in Outcomes, reply \in Replies : Call(p, outcome, reply)
  \/ Record(p) \/ ReadRun(p) \/ Decide(p) \/ Write(p) \/ Continue(p)
  \/ RetryTarget(p) \/ RetryRun(p)

Next ==
  \/ \E p \in Clis :
       StartBatch(p) \/ Step(p) \/ Crash(p) \/ \E t \in Targets : StartRetry(p, t)
  \/ Pause \/ Resume \/ Sign \/ AcceptPartial

Spec == Init /\ [][Next]_vars

---------------------------------------------------------------------------
(* A run never points beyond its last batch.                               *)
TypeOK ==
  /\ policy \in {"stop_and_hold", "continue_independent"}
  /\ run \in Run
  /\ targets \in [Targets -> TargetStates]
  /\ settled \in [Targets -> Outcomes \cup {"none"}]
  /\ cli \in [Clis -> Cli]
  /\ signed \in [Targets -> TargetStates]
  /\ commands \in 0..MaxCommands

(* A target leaves "pending" only when every required target of the        *)
(* batches before its own has converged at its executor, and under         *)
(* stop-and-hold every target of them: stale reads, retries, resumes and   *)
(* stopped commands let no later batch start early.                        *)
Holds(t) == t \in Required \/ policy = "stop_and_hold"
LaterBatchesWait ==
  \A t \in Targets : targets[t] # "pending" =>
    \A u \in Targets : BatchOf[u] < BatchOf[t] /\ Holds(u) => settled[u] = "converged"

(* A run is reported as converged only when every executor has converged:  *)
(* partial convergence is never relabelled as success.                     *)
ConvergedIsTruthful ==
  run.state = "converged" => \A t \in Targets : settled[t] = "converged"

(* A deferred target goes back to running only by a retry command.         *)
RetriesAreExplicit ==
  [][\A t \in Targets :
       targets[t] = "deferred" /\ targets'[t] = "running" =>
         \E p \in Clis : cli[p].at = "retrying" /\ cli[p].target = t]_vars

(* The ledger and its commands implement a staged rollout: a target is     *)
(* open from the moment its row is no longer pending.                      *)
Staged == INSTANCE StagedRollout WITH
  Reports <- RunStates, opened <- {t \in Targets : targets[t] # "pending"},
  receipts <- settled, reported <- run.state, accepted <- run.accepted
KeepsStages == Staged!StagedSpec
=============================================================================
