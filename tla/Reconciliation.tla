--------------------------- MODULE Reconciliation ---------------------------
(***************************************************************************)
(* Drift assessment and bounded reconciliation of one target of a          *)
(* finished rollout: the tables drift_assessments and                      *)
(* reconciliation_proposals of the ledger (src/src/rollout.rs), the pure   *)
(* part (src/src/reconciliation.rs), the inspection an adapter host gives  *)
(* out (src/src/adapters.rs) and the commands `rollout assess-drift`,      *)
(* `propose-reconcile` and `reconcile-target`.  Rows of different targets  *)
(* never meet: one target stands for all.                                  *)
(*                                                                         *)
(* Inspections are files: they are taken by a host whose clock may be      *)
(* ahead, and arrive late, twice, out of order or never.  Every command is *)
(* a process with one reading of the clock; several run at once and stop   *)
(* between any two SQL statements.  The executor is what Execution.tla     *)
(* shows of it: an authorized operation is carried out at most once,       *)
(* changes the target from the generation it names only, and what is       *)
(* answered afterwards is the first receipt, a failure, or nothing.  The   *)
(* adapter host is what AdapterHost.tla shows of it: a change may be left  *)
(* unfinished, and a restart goes back to the generation in the sidecar.   *)
(***************************************************************************)
EXTENDS Integers, FiniteSets, Functions

CONSTANTS
  Contents,       \* configuration contents, the same as their digests
  Operations,     \* identifiers of the apply gates administrators may sign
  MaySign,        \* bound: the actions of an operation a gate is signed for, per identifier
  Clis,           \* concurrent command processes
  MaxClock, MaxChanges, MaxInspections, \* bounds: the clock; other writes and host
                                        \* restarts together; inspection files
  Skew, Ahead,    \* how far an inspection may be ahead when assessed, and is at most
  InspectionLife, ProposalLife, GateLife

ASSUME BoundsAssumption ==
  \A n \in {MaxClock, MaxChanges, MaxInspections, Skew, Ahead,
             InspectionLife, ProposalLife, GateLife} : n \in Nat
(* An operation's action: the host looks only, for dry_run, verify and     *)
(* observe.                                                                *)
Actions == {"apply", "rollback", "look"}

ASSUME OperationsAssumption ==
  IsFiniteSet(Operations) /\ MaySign \in [Operations -> SUBSET Actions]

VARIABLES
  clock,       \* seconds
  target,      \* content of the target, its generation in the host and as kept in the
               \* host's sidecar, and the generation the host's receipts report
  expected,    \* digest and generation of the target's rollout receipt, or NoReceipt
  before,      \* the content the rollout's operation replaced
  inspections, \* the inspection files there are
  assessments, \* drift_assessments: observed_at -> row
  proposals,   \* reconciliation_proposals: created_at -> row
  gates,       \* the apply gate the controller authorized for each operation
  settled,     \* the executor's stored outcome for each operation
  effects,     \* history: what reconciliations did to the target
  cli,         \* the command processes
  changes      \* other writes and host restarts so far

ledger == <<assessments, proposals>>
world == <<target, settled, effects, changes>>
vars == <<clock, expected, before, inspections, gates, cli, ledger, world>>

None == "none"
NoReceipt == [content |-> None, generation |-> -1]
Times == 0..(MaxClock + Ahead)
Generations == 1..(1 + MaxChanges + Cardinality(Operations))
DriftStates == {"in_sync", "drifted", "unknown"}
PermittedClasses == {"safe_metadata", "capability_runtime"}
Classes == PermittedClasses \cup {"unclassified"}  \* which stands for the five others

Target == [content: Contents, generation: Generations, kept: Generations,
           reported: Generations \cup {-1}]
Observation == [content: Contents \cup {None}, generation: Generations \cup {-1}]
Inspection == [at: Times, seen: Observation]
Gate == [action: Actions, desired: Contents, generation: Generations, until: Nat]
Receipt ==  \* "failed" stands for every state but converged
  [operation: Operations, state: {"converged", "failed"}]
NoGate == [action |-> None, desired |-> None, generation |-> -1, until |-> -1]
NoAnswer == [operation |-> None, state |-> None]
Idle == [at |-> "idle", now |-> 0, read |-> -1, proposal |-> -1, answer |-> NoAnswer]

---------------------------------------------------------------------------
(* AdapterHost::inspection: the content that is there, and the generation  *)
(* of the newest receipt in the host's memory.  Either may be missing.     *)
Inspect(ahead, readable) ==
  /\ Cardinality(inspections) < MaxInspections
  /\ inspections' = inspections \cup
       {[at |-> clock + ahead,
         seen |-> [content |-> IF readable THEN target.content ELSE None,
                   generation |-> target.reported]]}
  /\ UNCHANGED <<clock, expected, before, gates, cli, ledger, world>>

(* validate_adapter_inspection, against the clock of the command.          *)
Fresh(i) == i.at <= clock + Skew /\ clock <= i.at + InspectionLife

(* Broken variant: evidence that is missing counts as drift.               *)
AssessIncomplete(i) ==
  [state |-> IF expected # NoReceipt /\ i.seen = expected THEN "in_sync" ELSE "drifted",
   seen |-> i.seen]

(* assess_inspection for one target.                                       *)
Assess(i) ==
  LET incomplete == None = i.seen.content \/ i.seen.generation = -1 IN
  [state |-> IF expected = NoReceipt \/ incomplete THEN "unknown"
             ELSE IF i.seen = expected THEN "in_sync" ELSE "drifted",
   seen |-> IF expected = NoReceipt THEN NoReceipt ELSE i.seen]

(* Broken variant: a second row with the same identifier replaces the      *)
(* first one.                                                              *)
AssessDriftOver(i) ==
  /\ i \in inspections /\ Fresh(i)
  /\ assessments' = [t \in DOMAIN assessments \cup {i.at} |->
                       IF t = i.at THEN Assess(i) ELSE assessments[t]]
  /\ UNCHANGED <<clock, expected, before, inspections, gates, cli, proposals, world>>

(* assess_drift: the row is inserted unless its identifier is taken: by    *)
(* the same row the command does nothing more, by another one it fails.    *)
AssessDrift(i) ==
  /\ i \in inspections /\ Fresh(i)
  /\ i.at \notin DOMAIN assessments
  /\ assessments' = [t \in DOMAIN assessments \cup {i.at} |->
                       IF t = i.at THEN Assess(i) ELSE assessments[t]]
  /\ UNCHANGED <<clock, expected, before, inspections, gates, cli, proposals, world>>

(* latest_assessment: its identifier.                                      *)
LatestAssessment == CHOOSE t \in DOMAIN assessments : \A u \in DOMAIN assessments : u <= t

---------------------------------------------------------------------------
(* Broken variant: the state of the assessment is not looked at.           *)
ValidForAnyState(p, at, now) ==
  /\ DOMAIN assessments # {} /\ LatestAssessment = p.assessment
  /\ now <= p.assessment + InspectionLife
  /\ p.generation = assessments[p.assessment].seen.generation
  /\ at <= now /\ now <= at + ProposalLife

(* validate_proposal against the latest assessment.  A row is never        *)
(* changed, so its identifier stands for its digest.                       *)
Valid(p, at, now) ==
  /\ DOMAIN assessments # {} /\ LatestAssessment = p.assessment
  /\ assessments[p.assessment].state = "drifted"
  /\ now <= p.assessment + InspectionLife
  /\ p.generation = assessments[p.assessment].seen.generation
  /\ at <= now /\ now <= at + ProposalLife

Proposal(t) == [assessment |-> t, generation |-> assessments[t].seen.generation, receipt |-> NoAnswer]

(* propose-reconcile: latest_assessment is read and validated.             *)
Propose(c, class) ==
  /\ cli[c].at = "idle" /\ class \in PermittedClasses
  /\ DOMAIN assessments # {}
  /\ Valid(Proposal(LatestAssessment), clock, clock)
  /\ cli' = [cli EXCEPT ![c] = [Idle EXCEPT !.at = "proposing", !.now = clock,
                                            !.read = LatestAssessment]]
  /\ UNCHANGED <<clock, expected, before, inspections, gates, ledger, world>>

(* The proposal is inserted; the primary key refuses a second one within   *)
(* the same second.                                                        *)
InsertProposal(c) ==
  /\ cli[c].at = "proposing"
  /\ proposals' = IF cli[c].now \in DOMAIN proposals THEN proposals
                  ELSE [t \in DOMAIN proposals \cup {cli[c].now} |->
                          IF t = cli[c].now THEN Proposal(cli[c].read) ELSE proposals[t]]
  /\ cli' = [cli EXCEPT ![c] = Idle]
  /\ UNCHANGED <<clock, expected, before, inspections, gates, assessments, world>>

---------------------------------------------------------------------------
(* Broken variants: the content, or the generation, is not compared.       *)
BoundInGeneration(g, p, now) == now <= g.until /\ g.generation = p.generation
BoundInContent(g, p, now) == now <= g.until /\ g.desired = expected.content

(* validate_reconciliation_gate: the gate's own window and its bindings.   *)
(* desired_digest is the expected digest of the assessment.  Domain,       *)
(* audience, target and related operation are bound too and the same for   *)
(* every gate here.  The action of the gate's operation is not bound:      *)
(* validate_apply_gate looks at the request's action only.                 *)
Bound(g, p, now) ==
  /\ now <= g.until
  /\ g.desired = expected.content
  /\ g.generation = p.generation

(* The gates an administrator may have signed by now: any action, for any  *)
(* content, at any generation.  A command with a gate that is not Bound    *)
(* changes nothing, so a gate is seen when it is first used, and the       *)
(* controller authorizes one gate under one identifier.                    *)
Signed(op) ==
  {g \in [action: MaySign[op], desired: Contents, generation: 1..target.generation,
           until: clock..(clock + GateLife)] : gates[op] \in {NoGate, g}}

(* reconcile-target: the proposal and the gate are validated.              *)
Reconcile(c, at, op, g) ==
  /\ cli[c].at = "idle" /\ at \in DOMAIN proposals /\ g \in Signed(op)
  /\ Valid(proposals[at], at, clock) /\ Bound(g, proposals[at], clock)
  /\ gates' = [gates EXCEPT ![op] = g]
  /\ cli' = [cli EXCEPT ![c] = [Idle EXCEPT !.at = "executing", !.now = clock, !.proposal = at,
                                            !.answer = [operation |-> op, state |-> None]]]
  /\ UNCHANGED <<clock, expected, before, inspections, ledger, world>>

Answer(c, state) ==
  cli' = [cli EXCEPT ![c] = IF state = None THEN Idle
                            ELSE [@ EXCEPT !.at = "recording", !.answer.state = state]]

(* AdapterHost::execute dispatches on the operation's action.  An apply    *)
(* puts the desired content there; a rollback of the related operation,    *)
(* which is the rollout's, puts back what that one replaced.               *)
Content(g) == IF g.action = "apply" THEN g.desired ELSE before

(* dry_run, verify or observe, and the verification: any generation does.  *)
Looks(g, state) ==
  /\ g.action = "look" /\ (state = "converged" => target.content = g.desired)
  /\ target' = [target EXCEPT !.reported = target.generation]

(* Refused, failed before the file is replaced, or put back again.         *)
Stays(g, state) ==
  /\ state = "failed"
  /\ \E r \in {target.reported, IF g.generation = target.generation
                                 THEN target.generation ELSE target.reported} :
       target' = [target EXCEPT !.reported = r]

(* The change ends the generation: the sidecar keeps the next one.         *)
Ends(g, state) ==
  LET next == target.generation + 1 IN
  /\ g.action # "look" /\ g.generation = target.generation
  /\ state = "converged" => Content(g) = g.desired
  /\ target' = [content |-> Content(g), generation |-> next, kept |-> next, reported |-> next]

(* The file is replaced and the operation stops, or fails and does not put *)
(* the file back: nothing is kept.  A rollback that cannot read its result *)
(* leaves the host in the next generation.                                 *)
Leaves(g, state) ==
  /\ g.action # "look" /\ g.generation = target.generation /\ state = "failed"
  /\ \E generation \in {g.generation, IF g.action = "rollback" THEN g.generation + 1
                                                              ELSE g.generation},
        r \in {target.reported, g.generation} :
       target' = [target EXCEPT !.content = Content(g), !.generation = generation, !.reported = r]

(* The executor carries the operation out and settles it.  One that is     *)
(* interrupted is settled by a later submission, which never repeats it.   *)
Carry(c) ==
  LET op == cli[c].answer.operation
      g == gates[op]
      Effect(ended) == [operation |-> op, proposal |-> cli[c].proposal, from |-> target.generation,
                        content |-> Content(g), ended |-> ended] IN
  /\ settled[op] = None /\ clock <= g.until
  /\ \E state \in {"converged", "failed"} :
       /\ settled' = [settled EXCEPT ![op] = state]
       /\ \/ (Looks(g, state) \/ Stays(g, state)) /\ UNCHANGED effects
          \/ Ends(g, state) /\ effects' = effects \cup {Effect(TRUE)}
          \/ Leaves(g, state) /\ effects' = effects \cup {Effect(FALSE)}
  /\ UNCHANGED changes

(* execute_apply: the first submission is carried out, unless the gate has *)
(* lapsed or the connection fails before; a duplicate gets the stored      *)
(* outcome.  The answer may instead be a failure, or be lost.              *)
Execute(c) ==
  /\ cli[c].at = "executing"
  /\ LET op == cli[c].answer.operation IN
     \/ Carry(c) /\ (Answer(c, settled'[op]) \/ Answer(c, "failed") \/ Answer(c, None))
     \/ /\ settled[op] # None /\ clock <= gates[op].until
        /\ Answer(c, settled[op]) /\ UNCHANGED world
     \/ (Answer(c, "failed") \/ Answer(c, None)) /\ UNCHANGED world
  /\ UNCHANGED <<clock, expected, before, inspections, gates, ledger>>

(* record_reconciliation_receipt validates again, with the time of the     *)
(* command's start and the assessment that is the latest now ...           *)
Revalidate(c) ==
  /\ cli[c].at = "recording"
  /\ LET at == cli[c].proposal IN
     cli' = [cli EXCEPT ![c] = IF Valid(proposals[at], at, cli[c].now)
                               THEN [@ EXCEPT !.at = "updating"] ELSE Idle]
  /\ UNCHANGED <<clock, expected, before, inspections, gates, ledger, world>>

(* ... and stores the receipt if there is none.                            *)
StoreReceipt(c) ==
  /\ cli[c].at = "updating"
  /\ proposals' = [proposals EXCEPT ![cli[c].proposal].receipt =
                     IF @ = NoAnswer THEN cli[c].answer ELSE @]
  /\ cli' = [cli EXCEPT ![c] = Idle]
  /\ UNCHANGED <<clock, expected, before, inspections, gates, assessments, world>>

---------------------------------------------------------------------------
Change == changes < MaxChanges /\ changes' = changes + 1

(* Another apply or reversal of the target, through its host.              *)
OtherApply(content) ==
  /\ Change
  /\ LET next == target.generation + 1 IN
     target' = [content |-> content, generation |-> next, kept |-> next, reported |-> next]
  /\ UNCHANGED <<clock, expected, before, inspections, gates, settled, effects, cli, ledger>>

(* Another program replaces the file, which no generation tells.           *)
ForeignWrite(content) ==
  /\ Change
  /\ target' = [target EXCEPT !.content = content]
  /\ UNCHANGED <<clock, expected, before, inspections, gates, settled, effects, cli, ledger>>

(* A host that starts again has no receipts to report, and takes the       *)
(* generation from its sidecar.                                            *)
HostRestart ==
  /\ Change
  /\ target' = [target EXCEPT !.reported = -1, !.generation = target.kept]
  /\ UNCHANGED <<clock, expected, before, inspections, gates, settled, effects, cli, ledger>>

(* A command process stops between two statements.                         *)
Crash(c) ==
  /\ cli[c].at # "idle" /\ cli' = [cli EXCEPT ![c] = Idle]
  /\ UNCHANGED <<clock, expected, before, inspections, gates, ledger, world>>

Tick ==
  /\ clock < MaxClock /\ clock' = clock + 1
  /\ UNCHANGED <<expected, before, inspections, gates, cli, ledger, world>>

(* The rollout is finished; its target may have been changed since, by     *)
(* another program.                                                        *)
Init ==
  /\ clock = 0 /\ changes = 0 /\ inspections = {} /\ effects = {}
  /\ before \in Contents
  /\ expected \in [content: Contents, generation: {1}] \cup {NoReceipt}
  /\ \E content \in Contents :
       target = [content |-> content, generation |-> 1, kept |-> 1, reported |-> 1]
  /\ assessments = [t \in {} |-> 0] /\ proposals = [t \in {} |-> 0]
  /\ gates = [op \in Operations |-> NoGate] /\ settled = [op \in Operations |-> None]
  /\ cli = [c \in Clis |-> Idle]

(* The commands.                                                           *)
Commands(c) ==
  \/ \E class \in Classes : Propose(c, class)
  \/ InsertProposal(c)
  \/ \E at \in DOMAIN proposals, op \in Operations : \E g \in Signed(op) : Reconcile(c, at, op, g)
  \/ Execute(c) \/ Revalidate(c) \/ StoreReceipt(c)
  \/ Crash(c)

Next ==
  \/ \E ahead \in 0..Ahead, readable \in BOOLEAN : Inspect(ahead, readable)
  \/ \E i \in inspections : AssessDrift(i)
  \/ \E c \in Clis : Commands(c)
  \/ \E content \in Contents : OtherApply(content) \/ ForeignWrite(content)
  \/ HostRestart
  \/ Tick

Spec == Init /\ [][Next]_vars

---------------------------------------------------------------------------
(* Every variable keeps its type.                                          *)
TypeOK ==
  /\ clock \in 0..MaxClock /\ changes \in 0..MaxChanges
  /\ target \in Target /\ before \in Contents
  /\ expected \in [content: Contents, generation: Generations] \cup {NoReceipt}
  /\ inspections \subseteq Inspection
  /\ DOMAIN assessments \subseteq Times /\ DOMAIN proposals \subseteq Times
  /\ \A t \in DOMAIN assessments :
       assessments[t] \in [state: DriftStates, seen: Observation]
  /\ \A t \in DOMAIN proposals :
       /\ proposals[t] \in [assessment: DOMAIN assessments, generation: Generations,
                            receipt: Receipt \cup {NoAnswer}]
  /\ gates \in [Operations -> Gate \cup {NoGate}]
  /\ settled \in [Operations -> {None, "converged", "failed"}]
  /\ effects \subseteq [operation: Operations, proposal: DOMAIN proposals, from: Generations,
                         content: Contents, ended: BOOLEAN]
  /\ \A c \in Clis :
       /\ cli[c].at \in {"idle", "proposing", "executing", "recording", "updating"}
       /\ cli[c].at = "proposing" => cli[c].read \in DOMAIN assessments
       /\ cli[c].at \in {"recording", "updating"} => cli[c].answer \in Receipt

(* A reconciliation acts only on drift that was seen: it changes the       *)
(* target from exactly the generation whose complete, recorded evidence    *)
(* differed from the verified receipt; missing or incomplete evidence, a   *)
(* file that cannot be read and a restarted host never lead to a change,   *)
(* finished or not.  If the gate's operation is an apply, what it puts     *)
(* there is that receipt's content; a rollback, which the ledger does not  *)
(* refuse, puts back what the rollout had replaced.                        *)
EffectsAnswerDrift ==
  \A e \in effects :
    LET seen == assessments[proposals[e.proposal].assessment].seen IN
    /\ expected # NoReceipt /\ None # seen.content /\ seen # expected
    /\ seen.generation = e.from
    /\ gates[e.operation].action = "apply" => e.content = expected.content

(* Reconciliation is one-shot: however many proposals, gates, retries and  *)
(* lost answers follow from one assessment, one change at most is carried  *)
(* through, and no operation changes the target twice.  A change that was  *)
(* left unfinished leaves the generation: another gate may then act on the *)
(* same assessment again.                                                  *)
OneEffectPerAssessment ==
  \A e, f \in effects :
    \/ e.operation = f.operation
    \/ e.ended /\ f.ended /\ proposals[e.proposal].assessment = proposals[f.proposal].assessment
    => e = f

(* A proposal whose receipt says converged was carried through, from the   *)
(* generation it names, to the content of the verified receipt: also when  *)
(* the answer came from a duplicate, when newer evidence came in between,  *)
(* and when the operation was a rollback.  The exception is an operation   *)
(* that only looks: it changes nothing, and its answer is converged when   *)
(* the content is there already.                                           *)
ReceiptsAreTrue ==
  \A t \in DOMAIN proposals :
    LET r == proposals[t].receipt IN
    r.state = "converged" =>
      \/ gates[r.operation].action = "look"
      \/ \E e \in effects :
           /\ e.operation = r.operation /\ e.ended
           /\ e.from = proposals[t].generation /\ e.content = expected.content

(* The ledger is a history: evidence that was recorded, and with it what a *)
(* proposal's digest binds, never changes or disappears, so late evidence  *)
(* never becomes the latest; a proposal changes by its receipt only, once. *)
LedgerIsHistory ==
  [][/\ \A t \in DOMAIN assessments :
          t \in DOMAIN assessments' /\ assessments'[t] = assessments[t]
     /\ \A t \in DOMAIN proposals :
          /\ t \in DOMAIN proposals'
          /\ proposals'[t] # proposals[t] =>
               /\ proposals[t].receipt = NoAnswer
               /\ proposals'[t] = [proposals[t] EXCEPT !.receipt = proposals'[t].receipt]
    ]_vars

(* docs/DRIFT_AND_RECONCILIATION_RUNBOOK.md:29: after execution, collect a *)
(* new inspection to prove convergence.  An inspection that shows what a   *)
(* reconciliation left behind is not assessed as drift.                    *)
InspectionsProveConvergence ==
  \A t \in DOMAIN assessments, e \in effects :
    e.ended /\ assessments[t].seen = [content |-> expected.content, generation |-> e.from + 1] =>
      assessments[t].state # "drifted"
=============================================================================
