# A formal model of iicp-management

This directory specifies the local management authority of `iicp-management`
(the Rust crate in `src/src`) in TLA+: modules that model its components, TLC
configurations that check them on small instances, and theorems that TLAPS
checks for every value of the constants. Line numbers refer to `src/src/` unless
another path is given.

## The system

`iicp-management` lets an administrator change managed resources through signed,
bounded, locally executed operations. It is one crate with a library and three
binaries.

| Component | State | Operations | What makes it correct |
|---|---|---|---|
| Adapter host and runtime-config adapter (`adapters.rs`) | the managed file, an owner-only sidecar (generation, apply history with the replaced bytes, reversal history), stage files, the process's copy of the sidecar and cache of receipts | `execute` (apply, rollback, dry_run, verify, observe), `verify_authorized`, `open` | a converged receipt is durable; a durable operation is not repeated; of the operations signed for one generation one is recorded; an undone call leaves memory and sidecar agreeing |
| Controller (`controller.rs`, `bin/iicp-management-controller.rs`) | SQLite: generation, nonces, decisions, decision events, apply authorizations, execution journal; a socket | authorize plan, apply and recovery requests; resume; record outcomes; serve | one decision per request, nonces single-use, generation moves with accepted requests, authorized operation is the executed one |
| Authorized execution (`execution.rs`) | the execution journal | `execute_authorized` | at most one effect per operation across crashes; receipts truthful, stable, and stored before they are answered; every started execution can be closed |
| Recovery (`recovery.rs`) | none of its own (sidecar) | `execute_recovery` | a reversal undoes the apply it names and nothing later; a reported reversal is durable |
| Apply gate (`apply_gate.rs`) | none | `validate_apply_gate` | what the gate carries is bound to one operation, except that operation's own action |
| Rollout coordinator (`rollout.rs`, CLI) | SQLite ledger: runs, targets | create, run-batch, retry-target, pause, resume, accept-partial | a later batch waits for the earlier ones; a converged run has converged; retries are explicit; an acceptance is of what was signed |
| Drift and reconciliation (`reconciliation.rs`, `rollout.rs`) | assessments, proposals | assess-drift, propose-reconcile, reconcile-target | only drift that complete, fresh evidence shows is acted on, and one change is carried through for each piece of evidence; the ledger is a history |
| Policy evaluator and planner (`lib.rs`) | none | `evaluate_policy`, `plan_with_control`, `authorize_plan` | what is allowed is certain: the order of operands, limits and failures never turn missing, stale or malformed evidence into an allow on a guess |
| Policy lifecycle (`policy_lifecycle.rs`) | revisions, sets, bindings, activations, in memory | store, prepare, activate, effective policy | nothing named is missing, revisions are immutable, an activation is of what was there |
| Routing enforcement (`routing_enforcement.rs`) | a projection of the active policy, held by a client | project, attach, submit, rank | a request is sent under what is active, to candidates that satisfy every policy involved |
| Candidate inspection (`resolution.rs`) | none | `inspect_resolution` | an expired or unresolved candidate is not eligible |
| Administrator trial (`trial.rs`, CLI) | a session file, evidence files | start, event, finish, summarize | the evidence counts every recorded event; a finalized session is not extended |
| Runtime observation, bootstrap, profile, diagnostics (`runtime_observation.rs`, `bootstrap.rs`, `profile.rs`, `diagnostics.rs`) | files with a window of validity | project, assess, doctor, bundle, verify | what passed is in date for as long as the bundle verifies |
| Templates, progressive authority, sandbox, completion, conformance | none that survives a call | pure composition, rendering, demonstration | - |

How they interact: the CLI sends one JSON line over a Unix socket; the server
handles one connection after the other, dispatches on the shape of the request,
and answers one line. An apply is authorized (one SQLite transaction) and later
executed: the journal row goes `started` -> `adapter_reported` -> `verified` ->
`complete`, interleaved with the adapter's file steps. A rollout is a set of
authorized applies at several executors, driven by CLI processes that share a
ledger and may run at the same time. After a rollout, inspections of its targets
come back as files; a target that drifted is proposed for reconciliation and
taken back to its verified content by one more authorized apply. Apart from
these, an application that embeds the crate keeps a repository of policies in
memory, projects the active ones into the routing policy of the client library,
and asks again before each submission. Diagnostics collect evidence of all the
others.

What is hard: two stores that are written one after the other (journal and
sidecar, target row and run row) with a crash possible between any two writes;
undo paths that may fail themselves; duplicates after restarts; other writers of
the managed file; signatures that lapse between two submissions; several command
processes that read, decide and write in separate SQL statements; evidence that
is late, out of order, or in date when it is read and not when it is used;
verdicts with more than two values; restrictions that contradict one another
where an empty list means "anything". `PROJECT.json` lists every such place under
`hazards`.

## The modules

| Module | What it is |
|---|---|
| `AdapterHost` | the adapter host and adapter under any caller |
| `ExecutionProofs`, `RolloutProofs`, `ControllerProofs`, `ReconciliationProofs`, `PolicyEvaluationProofs`, `RoutingProofs`, `AdministratorTrialProofs`, `DiagnosticsProofs` | the theorems about the module of the same name; `ExecutionProofs` is about `AdapterHost` and `Execution` on top of it, `RoutingProofs` about `RoutingEnforcement` over `PolicyLifecycle` |
| `LocalApply` | the abstract promise: authorized once, begun once, settled once; only an apply touches its target, at most once, and its receipt is true |
| `Execution` | controller authorization, journal, execution and recovery on top of `AdapterHost`; implements `LocalApply` |
| `StagedRollout` | the abstract promise of a rollout: targets opened once and in order, executors asked only then and answering for good, convergence reported only when it is true |
| `Rollout` | the rollout ledger and the command processes that share it; implements `StagedRollout` |
| `DecisionRegister` | the abstract authority: acceptances one at a time, each under the next generation, no identifier or nonce twice |
| `Controller` | the servers that decide requests on one database, and its log; implements `DecisionRegister` |
| `Reconciliation` | inspections, assessments, proposals and reconciliations of one target of a finished rollout |
| `PolicyEvaluation` | the typed evaluator, the decision of a binding and the eligibility of a candidate, while the world gets worse |
| `PolicyLifecycle` | the repository of revisions, sets, bindings and activations |
| `RoutingEnforcement` | projections of the active policy and the clients that use them, on top of `PolicyLifecycle` |
| `AdministratorTrial` | the session and the evidence of a trial and the commands that write them |
| `Diagnostics` | runtime health, assessments and diagnostic bundles, and when each is good |
| `MC...` | the instances TLC checks, one for each of the modules with a run |

### AdapterHost

`file` is the managed configuration, `disk` the sidecar, `memory` the adapter's
fields, `completed` the host's map of receipts, `stages` the process ids whose
stage file exists, `call` the call in progress with the point it has reached. As
in the code, what a call does depends on the action of the operation alone. A
call is `Refuse`, `Replay` or a sequence of steps: for an apply `Stage`,
`Replace` (the rename), `RecordApply` (read-back, generation and history in
memory), `Persist` (the sidecar) and `Deliver`; for a rollback `Stage`,
`Restore`, `RecordReversal`, `Persist`, `Deliver`. `DryRun` and `Look` (verify
and observe, which are the same call) answer in one step and write nothing; any
other action is refused. Each has the failures the code has at that place:
`StageFails`, `ReplaceFails`, `ReadBackMismatch` and `ReadBackUnrestored`,
`ReversalUnobserved`, `PersistFails`. `HostCrash` and `HostRestart` (`open`) lose
memory and read the sidecar again. `ForeignWrite` is any other process that
writes the file. `effects` counts replacements and is a history variable.

Contents are model values: valid configurations, one JSON value that is not a
configuration, and an unreadable file. A digest, and hence the binding of an
operation, is the value itself.

A generation does not name a content: a crash between the rename and the sidecar
leaves new content under the old generation, and another operation signed for
that generation may follow. `OneRecordPerGeneration` is what holds: of the
operations signed for one generation at most one is ever recorded, as the one
that ended it.

The errors of `AdapterError` are of two kinds, those `lifecycle()` treats as an
unknown outcome (`io`) and the others (`rejected`). `Timeout` and
`OutcomeUnknown` are raised by failure injection alone; they share the kind of
`io`.

### Execution

`authorized` is the table `apply_authorizations`, `recoveries` its rows that came
from recovery gates, `journal` the table `execution_journal`, `work` the request
the server is busy with, `lapsed` the deadlines that have passed. A row's receipt
is its reason code, which names its state. The server is sequential, so `work`
holds one request, but each journal write and each file step is a step of its own
and `Crash`, `StorageError`, `ChangeFile` and `Lapse` may come between any two.
`StartExecution`, `ObserveStarted`, `ResumeReported`, `CloseVerified` and
`ReturnStored` are the five continuations of `execute_authorized` by journal
phase. A signature is valid until its deadline passes, which may happen at any
time; the operation's own expiry is checked by the host with the clock value of
the request (`live`).

`validate_apply_gate` wants the action of the REQUEST to be "apply"
(`apply_gate.rs:92`); the operation inside the gate may have any action, and
`AdapterHost::execute` goes by that one. So `AuthorizeApply` and `Resumes` take
any operation: reversals, dry runs and verifications are journalled and answered
like applies. The properties say what that means. A verified receipt of an
operation that only looks stands for no change (`VerifiedIsDurable`, and `kind`
in `LocalApply`). A reversal an apply gate carries need not follow its original
(`ReversalFollowsItsOriginal` is about those under recovery gates, which
`validate_recovery_gate` binds), and may be answered as rejected after it had
its effect (`RejectedHadNoEffect` counts applies).

A recovery gate embeds the operator's signed copy of the original execution's
receipt; the model takes it to be the receipt the journal stores, since no other
receipt is ever answered (`AnsweredReceiptsAgree`).

### Rollout

`run` and `targets` are the rows of the ledger, `cli` the command processes,
`settled` the receipt each executor keeps, `signed` the disposition an
administrator has signed. Every SQL statement is one action: run-batch is
`StartBatch` and `SelectTargets` (the two reads of `status`), then per target
`MarkTarget`, `MarkRun`, `Call`, `Record`, and `recalculate` as `ReadRun`,
`Decide`, `Write`. retry-target is `StartRetry`, `RetryTarget`, `RetryRun` and
the same from `Call` on. The run's `version` only serves to invalidate
acceptances: every statement that advances it empties `signed`.

The executors are seen through what `Execution` shows of them: one receipt per
operation, the same for duplicates, or a refusal, or no answer. The call that
settled an operation may itself end in a failure, when the executor could not
answer what it had stored. That a receipt is for its target's operation
(`rollout.rs:427`) is left out: the executor answers for the gate it was sent.

`StagedRollout` is what is left without commands, versions and stale reads: which
targets were opened, what executors answered, what is reported and whether it
was accepted. A report may be taken back, as a stale write of a command that
decided earlier does to the run; that it says "converged" only when it is true
may not.

### Controller

`generation`, `nonces`, `decisions`, `authorizations` and `log` are the tables of
the database, `sequence` its autoincrement counter, `lock` its write lock.
`server` says what each server process is doing: `evaluate_authorized` is
`Receive` (the checks before the database), `Begin` (the immediate transaction),
`Check` (nonce, generation, and the primary key the writes meet), `Commit` and
`Prune`; `record_rejection` is `ReadGeneration`, `LogRejection` and `Trim`. The
reads of a transaction see one state, because nobody else can write, so they are
one step; its writes become visible at the commit. `Fails` is a statement that
fails at any of these points, or that waits for the lock longer than the busy
timeout; `Stop` ends a server. `serve` (`bin/iicp-management-controller.rs:207`)
takes the socket over without asking, which is how a second server comes to
share the database.

What the checks before the database look at (signatures, bounds, the window of
validity, the age of the revocation checkpoint) depends on the request and the
clock: a request is `lapsed` or not, and that may change at any time, either way,
as one that is not valid yet, or that came with a checkpoint too old, may be
accepted later. `binding` stands for the digests of the operation and of its
authority context. A failing answer also carries the generation of the moment,
read separately; it is left out.

`Execution` has the same table of authorizations with one server and without
nonces and generations: there an identifier is claimed or not, which is the part
of this module that executing needs (`AuthorizationIsDecided`: one authorization
for an identifier).

### Reconciliation

`target` is the managed file with its host: its content, the generation in the
host's memory and in its sidecar (`kept`), and the one its receipts report.
`before` is the content the rollout's operation replaced, `expected` the digest
and generation of the rollout's receipt, `inspections` the files the host gave
out, `assessments` and `proposals` the tables, keyed by the second that makes
their identifier, `gates` the apply gates the controller authorized, `settled`
the executor's stored outcome, `cli` the command processes. No row of one target
is read for another, so one target stands for all.

assess-drift is one step, `AssessDrift`: everything before its insert is read
from files. propose-reconcile is `Propose` (the latest assessment is read) and
`InsertProposal`; reconcile-target is `Reconcile` (proposal and gate are
validated), `Execute` (the IPC call, whose answer may be lost), `Revalidate` and
`StoreReceipt`. Inspections are assessed late, twice, in any order, by a clock
up to `Ahead` behind the host's. A command reads the clock before the ledger;
both readings are one step, since a tick between them is a process that is
scheduled later. A gate is an input of the administrator: any action, any
content, any generation that existed (`MaySign` bounds the actions in a run).
`Bound` is what `validate_reconciliation_gate` compares, and the action of the
operation is not among it. It is drawn when it is first used, because a gate
nobody uses changes nothing. Every state of a receipt other than converged is
"failed", which the code treats alike here.

The executor is the one `Execution` describes: an authorized operation is
carried out once, from the generation it names, and duplicates get the first
receipt, or a failure, or nothing. `Carry` has the outcomes `AdapterHost` has:
the target `Stays` as it is, or the host only `Looks`; a change `Ends` the
generation; or it `Leaves` it, when the file was replaced and the operation
stopped or failed before the sidecar was written. An apply puts the desired
content there, a rollback what the rollout had replaced (`Content`).

### PolicyEvaluation

The evaluator is pure, so the module's state is its input: a policy, the facts,
the limits, the other source of the binding, and the steps make one of them
worse. An expression is a record by its operator; evaluation returns the verdict
(`true`, `false`, `unknown`, `stale`, `invalid`, `limit`) and the fuel left, and
short-circuits as `eval_all` and `eval_any` do: `AfterOperand` is the body of
their loops, `Neutral` what it passes over and `Remembered` what it keeps while
it goes on. Numbers are small or large against the one bound of `lte`; a fact
whose name contains `evidence_age` is stale when large. `Generated` is
`eval_generated`: the nesting is a number in the expression, the size of the
collection and the number of operations are facts, and one that is missing or
malformed counts as zero (`Amount`, for `unwrap_or_default`). Evidence gets older
(`Age`), goes missing (`Vanish`) or, for an age, is no longer a number
(`Corrupt`). References, cycles, node and depth limits are those of
`prepare_policy` and `validate_value_shape`.

The recursion of `eval_expr` and `resolve_value` is that of a function of one
natural number, the levels that are left, with values that are functions of the
expression and of the fuel or the stack: a form the provers can reason about,
where a RECURSIVE operator is not. `eval_expr` compares its depth with the limit,
so its number of levels is the limit and one. `resolve_value` does not count
levels. It is started with the depth, the references and one, which stops
nothing: every level it goes down is one of the stack, that has at most as many
names as references are allowed, or one of the result, that is refused when it is
higher than the depth. The expressions there are and the size of their JSON are
constants (`Expressions`, `Size`), so that nothing has to be computed by recursion
about them.

`Kleene` is the reference: the same expression in three-valued logic, where
everything that is neither true nor false may turn out either way, a generated
size that is not given included. `Certain` is a document that is true in it.
`AllowIsCertain` is about documents without an adapter and without a time of
their evidence (`Plain`) in contexts that give the generated sizes
(`SizesGiven`). `NothingWorseWidens` has two cases. While the evidence is there,
in date or not, an age a number or not, nothing that gets worse turns a decision
into an allow. Evidence that goes missing may do so (see the disagreements); for
that case the property says that what a plain policy then allows was already
`Certain` on the evidence there was: what went missing only stood in the way. The
variables are inputs of fixed types, so there is no type invariant.

### PolicyLifecycle and RoutingEnforcement

A digest is the content it is of; a refused operation is no step. The order and
rank of a source decide where it is listed and never what is decided or
projected, so references and members are sets. An activation is made out
(`Prepare`) and presented (`Activate`) at different times.

`held` is a projection not yet given to a client; `Attach` moves it into the
client, as the constructor takes it by value. A submission is `Submit`
(verification by projecting again, and the intersection with the request), then
`Contact` or `GiveUp`. The client library is external: it admits the candidates
a policy admits, and before it contacts one it asks the `EnforcementRanker`,
which refuses if the evidence does not cover all of them (`Ranked`). `submit`
borrows the repository for as long as the call lasts, so nothing is stored or
activated meanwhile: `Next` allows `Administer` only when no client is sending.
Time passes, though.

### AdministratorTrial

`session` and `outputs` are the files, `cli` what a command has read and is
about to write; each file is replaced by a rename, so the steps of a command are
its renames, and `Stop` ends it before any of them. `recorded` is a history
variable: the events the administrator was told are recorded. Event and outcome
files are written by hand, so their times are in any order.

### Diagnostics

Evidence is a record of when it was made, until when it is good, and what it
says. A command that is given a health snapshot reads the clock twice:
`Project`, then `Assess` or `Diagnose`. An observation that is stale when
projected has no window and an unknown state. The window of an assessment is
five minutes in the code and `AssessmentLife` here; those of the other evidence
are in their files. `Bundle` has the window the code computes and the result of
every check. Two bundles never meet, so a behaviour makes one.

## The runs

| Run | Instance | Question |
|---|---|---|
| `adapter_host` | ten operations of three identifiers (two competing applies, a follow-up, two reversals, a conflicting duplicate, an invalid one, a dry run, a verification, an unknown action), two process ids, three faults | does the adapter keep its promises under any caller? |
| `execution` | two applies, a reversal of the first that either kind of gate may carry and one that only an apply gate can, a dry run; two faults, nothing lapses | does the executor keep `LocalApply`'s promise, with truthful, durable, stable receipts? |
| `execution_liveness` | two applies, two faults, one authorization and one operation deadline that may pass | is every begun execution closed? |
| `rollout` | three targets in three batches (required, optional, required), either failure policy, two command processes, one retry, pause, resume or crash | do batches wait, is a converged run truthful, and does the ledger keep `StagedRollout`'s promise? |
| `controller` | two servers; five requests over two identifiers, two nonces and two generations; three submissions, one fault, a log of one event | are acceptances serial, answers true and the log the newest part of the events? |
| `reconciliation` | one target with two contents, a gate for an apply and one for any action, two command processes; two inspections, one other write or restart, two seconds | does a change answer drift, is one carried through for each assessment, and does the ledger tell the truth? |
| `policy_evaluation` | some 300 policies over a fact, an age and the generated sizes, every value of them and of the context, tighter limits, a second source, two steps for the worse | is an allow certain, and does nothing worse allow more? |
| `routing` | two revisions, one set, two bindings, two activations, one client; restrictions that contradict one another, windows that end | is what is sent let through by what is active, and does whom it reaches satisfy all? |
| `administrator_trial` | one administrator; four event files, four outcome files, two paths | does the evidence count every event? |
| `diagnostics` | evidence that is used up or good for one or two seconds, by a clock up to one second ahead; three seconds | is what passed still in date when a bundle verifies? |
| `adapter_host_reversal` | as `adapter_host`, one fault | violated: see findings |
| `reconciliation_convergence` | as `reconciliation`, with a host's clock up to a second ahead | violated: see findings |

The bounds. `MaxFaults` bounds errors, foreign writes and crashes together: two
of them are a crash and the failure of what recovers from it, and the adapter
alone gets three, an undo that fails and a crash after it. Two process ids let a
stage file be left behind by a process with the current id and by one with
another. Two applies suffice for a conflict over a generation, the third
identifier is for the reversals; the dry run has an identifier of the applies, so
that it competes with one for the authorization. In `execution` nothing lapses: a
deadline that passes only takes steps away from a safety property, and the proofs
are for every `MayLapse`; `execution_liveness`, where it matters, has both kinds.
Three batches give a batch that has one before and one after it; the optional
target in the middle is what makes the two failure policies differ. `MaxCommands`
bounds pauses, resumes, retries and stopped commands together, not `run-batch`,
which may run at any time; the rollout run was also completed with two (6.9
million states). The requests of `controller` are chosen so that each pair
competes for something: two for generation 0, three for generation 1, two for
each nonce and three for the identifier that the primary key protects; a log of
one event makes every trimming delete something. The servers are symmetric.

In `reconciliation` inspections and gates live in their own second and a
proposal one second longer, so that a proposal is met in date and late; two
inspections are an older and a newer one, and two gates compete for one proposal
or serve two. No clock is ahead in that run (`Skew` and `Ahead` are 0), or it
would not end in time with effects that are left unfinished (4.8 million states
as it is); inspections from the future are in `reconciliation_convergence` and
in the proofs, which are for every value of these. Contents, gates and commands are
symmetric. The policies of `policy_evaluation` have every operator, `all` and
`any` of up to two operands and one level of nesting, where the order of
operands and the short circuits already differ, and rules that are unknown,
chained and cyclic; they are evaluated with the default limits and with limits
that just do not suffice. In `routing` the two bindings share the counter of
generations; one names a revision of its own, the other a second one and the
first through a set, so that "eu" and "us" meet in one projection and, by the
client's and the request's policies, in the two intersections. The trial's
events repeat an identifier, come in one another's past and after the outcome.
In `diagnostics` the clock passes the end of every kind of evidence.

`CHECK_DEADLOCK FALSE` is set where the system stops because a bound is used up
and nothing is left to do: the submissions of `Controller`, the commands of
`Rollout`, the clock and the other bounds of `Reconciliation`,
`PolicyEvaluation`, `RoutingEnforcement`, `AdministratorTrial` and `Diagnostics`.

### Fairness

Only `execution_liveness` uses it. `WF(Proceed)`: the server's loop takes the
next step of the request it handles. `WF(Restart)`: an operator starts a stopped
executor. `SF(Resubmit(op))`: a client without a receipt submits again and the
server, which takes connections in order, gets to it; strong, because the
server is not idle all the time. Nothing is assumed of faults but that there are
finitely many.

### Findings

Two statements of the repository's documents that the code does not keep, each
with a run that shows it; `PROJECT.json` has the quotations.

1. `IdleMemoryIsDisk`: a rollback whose read-back fails leaves the generation
   advanced in memory only (`adapters.rs:749`).
2. `InspectionsProveConvergence`: an inspection collected after a successful
   reconciliation is compared with the generation of the original rollout
   receipt, so the restored target is drifted for good (`reconciliation.rs:145`).

Disagreements and surprises met while modelling, without a run of their own:

- `validate_apply_gate` binds the action of the request and not that of the
  operation (`apply_gate.rs:92`, `adapters.rs:306`): a gate may carry a reversal,
  which is not tied to the generation of its original as a recovery gate's is,
  and may then discard later changes; or a dry run or a verification, which is
  journalled and answered as a verified execution. `validate_reconciliation_gate`
  does not look at the action either (`rollout.rs:708`), although
  `docs/DRIFT_AND_RECONCILIATION_RUNBOOK.md:30` says that the gate must restore
  the proposal's content and a mismatch fails before execution: a rollback gate
  puts back what the rollout had replaced, and one that only looks gives a
  converged receipt without a change;
- a reconciliation that stops or fails between the rename and the sidecar changes
  the file and leaves the generation (`adapters.rs:670-718`), so a second gate
  for the same assessment changes it again, while
  `docs/ADR-006-drift-detection-default-reconciliation-bounded.md` calls
  reconciliation one-shot;
- a generated size that is missing or malformed counts as zero and passes its
  limit (`lib.rs:786-809`), while `README.md:59` says that unknown evidence fails
  closed;
- a completed duplicate is refused when its authorization has expired
  (`controller.rs:613`); a storage error after the effect is answered as failed
  (`execution.rs:171`); a reused identifier with a fresh nonce is answered as
  deferred (`controller.rs:834`);
- a retry changes its target one statement before the version, so an acceptance
  signed for the disposition before it is accepted (`rollout.rs:531`); an
  interrupted retry of an earlier batch's target leaves it running
  (`rollout.rs:390`); a command that stops before `recalculate` leaves a run no
  command moves on (`rollout.rs:446`);
- the repository's `README.md:58` says explicit deny precedes allow; a policy
  that also asks an adapter is decided by the answer first (`lib.rs:914`);
- `any` of a stale and a true operand denies, of a true and a stale one allows
  (`lib.rs:689`): what is allowed is certain either way, what is not depends on
  the order. When the stale age goes missing the first of them allows too, and an
  operand that is unknown early leaves its fuel to the others: a fact that goes
  missing can widen a decision, while `README.md:59` says that unknown or stale
  evidence fails closed;
- a document with `evidence_valid_at` beside `allow` and `deny` is decided by the
  time of the evidence alone, unless its `deny` is true (`lib.rs:924`, `:932`): its
  `allow` is not evaluated, and a `deny` that compares an age and turns from true
  to stale, or runs out of fuel, turns a deny into an allow, while `README.md:59`
  says that stale evidence fails closed. The proof of `NothingWorseWidens` found
  it; `TimeStandsAlone` leaves such documents out. Likewise an age compared with
  `eq` or `in` is never stale, so that older evidence may allow more
  (`lib.rs:726`); `AgesAreBounded` leaves that out;
- two trial commands at the same time lose an event that was acknowledged, and
  a finish that stopped before the session is finalized can be finished again to
  another path, which gives two pieces of evidence for one trial
  (`bin/iicp-management.rs:1126`);
- the window of a bundle is that of its assessment, not of the claims in it
  (`diagnostics.rs:395`); an assessment made from a runtime observation is good
  for its own five minutes, however soon the observation ends
  (`bootstrap.rs:147`); and that assessment and adapter are there is all their
  checks say (`bootstrap.rs:330`).

## What is proved

The theorems hold for every value of the constants: any operations, contents,
process ids and deadlines, manifests, servers and command processes, and any
number of faults. They state every safety property that the passing runs check.
They rest on the assumptions the modules name: `ContentsAssumption` (the invalid
and the unreadable content are not configurations, and there is a configuration),
`OperationsAssumption` (operations have the fields of an `OperationEnvelope`, and
there is one), `BoundAssumption` (the fault bound is a natural number, a process
id exists) and `LapseAssumption`; in `Controller` `RequestsAssumption` (requests
have the fields of a `ManagementRequest`, and there is one) and
`BoundsAssumption` (the bounds are natural numbers, there are finitely many
servers and none is named as the free lock); in `Rollout` `ManifestAssumption` (a
manifest has finitely many targets in batches without a gap, and its required
targets are among them); in `Reconciliation` `BoundsAssumption` and
`OperationsAssumption` (times are bounded and operations are finitely many, as
rows and gates are); in `Diagnostics` `TimesAssumption` (the clock and the
allowances are natural numbers, and evidence may end at any time, before it was
made too); in `PolicyLifecycle` `RepositoryAssumption` (bounds, lifetimes and
windows are natural numbers) and in `RoutingEnforcement` `RoutingAssumption`
(local policies are routing policies over the regions, flags and the four ranks
of identity, and rules ask for such flags and ranks); in `PolicyEvaluation`
`ExpressionsAssumption` (expressions are closed under taking operands and hold
the policies, their rules, and what `Prepare` makes of them, and the generated
sizes are not ages), `LimitsAssumption` (limits are natural numbers, the default
ones among them) and `AgesAssumption`. A lifetime of zero and a window that ends
before it starts are allowed. Nothing is assumed of how operations relate to each
other: two of them may share an identifier and compete for a generation.

`ExecutionProofs`, its first part, the adapter under any caller (`HostSpec`):

- `HostInvAlways`: the inductive invariant `HostInv`. None of the properties is
  inductive by itself. That a converged receipt is durable depends on what
  memory holds when `Persist` copies it, so the invariant says how far memory is
  ahead of the sidecar at every step of a call (`MemoryAheadByCall`): by nothing
  before the read-back, by exactly the record of the call after it. That in turn
  needs the call in progress to be of an operation the sidecar does not have yet
  (`UnrecordedCall`), or `PersistFails` would undo an older record with the new
  one. `StampsWithin` bounds recorded generations by the sidecar's and puts each
  record at the generation after the one its operation was signed for.
- From it: `HostTypes`, `ConvergedDurable`, `IdleMemory`, `Generations`, and the
  action property `NeverRepeated`.

`ExecutionProofs`, its second part, the executor (`Spec` of `Execution`):

- `HostSteps`: a step of the executor is a step of the adapter or leaves its
  state alone, so `HostInv` holds here too.
- `ExecutionInvAlways`: the inductive invariant `ExecutionInv`, in three parts.
  `StoresAgree` relates the authorizations, the journal, the sidecar and the
  effects: a row belongs to the one operation authorized under its identifier, a
  recorded adapter receipt is true (`TrueOf`), an apply in the sidecar replaced
  the file once. `WorkAgrees` relates the request being handled to its row and
  to its adapter call; it carries what was observed before a step to the step
  that stores it. `RepliesAgree` says what was answered is stored. Journal and
  sidecar are written at different steps, so each part is preserved only with
  the other two: a receipt enters the journal as verified because the answer of
  the call was true, and stays true because the sidecar only grows.
- From it: `TypeCorrect`, `AtMostOnceAlways`, `VerifiedIsDurableAlways`,
  `RejectedHadNoEffectAlways`, `AnsweredReceiptsAgreeAlways`,
  `ReversedIsDurableAlways`, `ReversalFollowsItsOriginalAlways`, and the action
  property `JournalMovesForwardAlways`.
- `ExecutionKeepsPromise`: `Execution` implements `LocalApply`. Authorizing an
  operation is `Authorize`, journalling "started" is `Begin`, the rename is
  `Touch`, the first storing of a receipt is `Settle`; every other step, crashes
  included, leaves the abstract state alone.

`ControllerProofs`, the controller (`Spec` of `Controller`), for any number of
servers and requests:

- `ControllerInvAlways`: the inductive invariant `ControllerInv`. Serial
  acceptances are not inductive: a commit writes the generation that was computed
  earlier, so `ServersKnow` says that what a server read still holds while it is
  about to commit. That is preserved because no other server commits meanwhile,
  for which `TypeOK` says that the lock is held by exactly the server inside a
  transaction. `ServersKnow` also carries what was committed to the answer that
  follows the trimming, and that a rejected request keeps a reason other than
  `AUTHORIZED`. `EventsAreNumbered` puts a new event after all others.
- From it: `TypeCorrect`, `AcceptancesAreSerialAlways`,
  `AuthorizationIsDecidedAlways`, `AnswersAreTrueAlways`,
  `LogFollowsGenerationsAlways`.
- `LogKeepsTheNewestAlways`, from `LogInv`: the log is the events with the
  numbers from some `low` on, each once, so that it has as many as there are
  numbers (`SuffixSize`), and `low` moved only when what remains is the bound or
  more. That the log exceeds the bound by no more than the servers that have
  still to trim needs them counted (`Pending`): a trim takes one server out of
  `Pending` and brings the log down to the bound, whoever appended meanwhile.
- `ControllerDecidesSerially`: `Controller` implements `DecisionRegister`; the
  acceptances are the join of `decisions` and `nonces` over the identifier, and
  `Commit` is the one step that is not a stutter.

`RoutingProofs`, the repository and its clients (`Spec` of `RoutingEnforcement`),
for any revisions, sets, bindings, clients, candidates and evidence:

- `RulesAreObeyed` and `IntersectionNarrows`: what a policy made of rules admits,
  when it does not deny all, satisfies each of the rules; what an intersection
  admits, when it does not deny, both sides admit. An empty list of regions means
  any region, so neither holds without the flag that denies.
- `RoutingInvAlways`: the inductive invariant `RoutingInv`. `RepositoryInv` adds
  to `ActivationsStayTrue` that references are closed, or a revision stored later
  could change what an active binding means, and that no prepared activation is
  above the bound. `ClientInv` says that a projection is the policy of the
  revisions its digests are of, a baseline that projection met with the client's
  policy, a submission the baseline met with the request's. `SendingInv` says
  that the projection of a client that is sending still verifies at the time of
  its submission; it is preserved because the repository is borrowed meanwhile.
- From it: `TypeCorrect`, `ActivationsStayTrueAlways`,
  `ContactsObeyEverySourceAlways` and `SendsUnderTheActivePolicyAlways`.

`RolloutProofs`, the ledger and the commands that share it (`Spec` of `Rollout`),
for any manifest and any number of command processes:

- `RolloutInvAlways`: the inductive invariant `RolloutInv`. Neither property is
  inductive: a command selects its targets from the rows of one moment and marks
  them at a later one, and a disposition computed before a pause, a retry or
  another command is written after it. `CommandsKnow` says what holds of that
  whenever it is written: the batch a command read is `Reached`, everything that
  holds it back has converged at its executor, and so is the batch of every
  target it has still to mark; an answer it has still to record was given; a
  `converged` it has still to write is of executors that all converged. This is
  stable because executors never take a converged receipt back (`Monotone`), and
  it does not rest on the version of the run, which not every command compares.
  `RowsAreTrue` relates the rows to the executors.
- From it: `TypeCorrect`, `LaterBatchesWaitAlways`, `ConvergedIsTruthfulAlways`,
  and the action property `RetriesAreExplicitAlways`.
- `RolloutKeepsStages`: `Rollout` implements `StagedRollout`. A target is open from
  the moment its row is not pending: `MarkTarget` is `OpenTarget`, the first
  answer of an executor is `Settle`, what writes the run's state is `Report`,
  `AcceptPartial` is `Accept`; every other step, retries and stopped commands
  included, leaves the abstract state alone. It needs one more invariant,
  `MarkedAreOpen`: a command that is about to call an executor or to write its
  answer has marked its target, and nothing makes a row pending again.

`ReconciliationProofs`, drift and its correction (`Spec` of `Reconciliation`), for
any contents, operations, command processes and other writers:

- `ReconciliationInvAlways`: the inductive invariant `ReconciliationInv`.
  `OneEffectPerAssessment` is about effects and assessments, which never meet in
  one step: an effect has the generation of its gate, the gate that of a
  proposal, the proposal that of what an assessment saw. `LedgerInv` keeps this
  chain, and `EffectsInv` says that an effect that was carried through ended the
  generation it was bound to, in memory and in the sidecar, so that no restart
  brings it back and a second gate for it is refused by the target; an effect
  that was left unfinished ends nothing, and is bound by the same chain.
  Proposals outlive the command that read the assessment, answers outlive the
  effect: `CommandsKnow` says that what a command holds is of this chain until it
  is written or lost.
- `GenerationsAreMade` counts one generation at most for each change by others
  and each operation that was settled; without it the type of the target is not
  inductive.
- From it: `TypeCorrect`, `EffectsAnswerDriftAlways`,
  `OneEffectPerAssessmentAlways`, `ReceiptsAreTrueAlways`, and the action
  property `LedgerIsHistoryAlways`.

`PolicyEvaluationProofs`, the evaluator (`Spec` of `PolicyEvaluation`), for
expressions nested as deeply as they like, any rules, facts and limits:

- The library's induction theorems cannot be used here, so induction is by the
  least counterexample: `NeverFirst` (a set of numbers that holds each number
  whose predecessors it holds is all of them) and, from it, `NatRecursion` (a
  recursive function exists, and satisfies its equation). `EvalItemsRun`,
  `EvalExprLevels`, `KleeneAtLevels` and `ResolveLevels` are the equations of the
  module's recursive functions, and all that the other lemmas use of them.
- `ItemsAreCertain`: an invariant of the loops of `eval_all` and `eval_any`. After
  i operands, as long as no operand ended the loop, the result is what Kleene's
  logic says of these i when it is true or false. `VerdictIsKleene`: a verdict
  that is true or false is Kleene's value, by the levels of the expression.
- `AllowIsCertainAlways`, and `AllowHoldsAlways`, which says it without Kleene's
  logic: each of the `Completions` makes every expression true or false as its
  operands are, and each comparison that the evidence decides as the evidence
  says; what is allowed is true in all of them (`KleeneHoldsInCompletions`).
- `EvalKeeps`: what is true, false or unknown for worse facts and tighter limits
  is the same for the better ones and used the same fuel; it may only have been
  better where the worse are stale, invalid or at a limit (`BinaryKeeps`,
  `ItemsKeep`). That the fuel is the same is what makes it inductive: the next
  operand starts with it. `ResolveWithin` and `PreparedWithin`: limits that
  are tighter give the same document or none.
- `NothingWorseWidensAlways`, from `EvaluateAllows` (when a decision is an allow),
  `WorseNeverAllows` and `StepWorsens` (a step makes the inputs worse in the
  sense of `Worsens`, or takes evidence away, `Dwindles`), under the hypotheses
  `AgesAreBounded` and `TimeStandsAlone`. Both are about documents, the code
  enforces neither, and both are needed (see the disagreements); the policies of
  the run satisfy them. For evidence that goes missing `LostDecidesTheSame`:
  what Kleene's logic decides without it, it decides the same with it.

`AdministratorTrialProofs`, the files of a trial (`Spec` of
`AdministratorTrial`), for any event files, outcome files and paths:

- `EvidenceCountsEveryEventAlways`, under the hypothesis `OneAdministrator`: one
  command runs at a time. The commands take no lock on the session file, and two
  `event` commands that read the same session lose an event; the hypothesis is
  how a trial is run, by one person at one prompt, and the run has it too. Its
  invariant `TrialInv` says that the session is the recorded events, that
  evidence counts an initial part of them, and what a command that has read the
  session is going to write (`CommandsKnow`).
- `CountsGrow`: what evidence counts stays an initial part when an event is
  appended.

`DiagnosticsProofs`, the bundle (`Spec` of `Diagnostics`), for evidence with any
windows:

- `PassedChecksAreFreshAlways`, from `DiagnosticsInv`: `RuntimeIsProjected` says
  what a runtime projected at an earlier time still says of its snapshot,
  `BundleIsBounded` that the window of a bundle ends with the first of what its
  passed checks rest on. `UntilIsFirst` is that the code's minimum over the
  evidence that is there is such a first end.

## What is only model-checked

`InterruptedExecutionsSettle`, which is liveness: liveness under fairness and
`ENABLED` are beyond the prover. The induction theorems of its library take an
operator as argument, which is beyond it too; where a proof needs the last
batch, the latest assessment, the last event or an induction over levels or
operands, it takes the least element of a set of natural numbers, which the
library has as a fact about well-founded relations. No module declares a
RECURSIVE operator.

That the instances of the runs satisfy the assumptions of the theorems is
evaluated by TLC; the hypotheses of `NothingWorseWidensAlways` are an `ASSUME` of
`MCPolicyEvaluation`.

## What is not modelled, and the plan

To state and prove next: what `Reconciliation` promises as an abstract
specification, as `LocalApply`, `DecisionRegister` and `StagedRollout` do for the
executor, the controller and the rollout.

Not modelled: the planner (`plan_with_control`, `authorize_plan`,
`derive_effective_state`, `verify_receipt`), a function from documents to
documents without a state; progressive authority, one decision on the mode and
the evidence; templates; bootstrap proposals and workflows, which render a valid
assessment and validate it again; `summarize_trials`; the lists a management
profile intersects; completion and conformance, which have no behaviour of their
own. The in-memory synthetic adapter and the sandbox are test doubles of what
`AdapterHost` models. The host's `cancel` is called by no binary. That a receipt
recorded for a rollout target is of its operation (`rollout.rs:427`) is left out.
The controller's `record_outcome` is called by no request of a server, and its
inspection only reads.
