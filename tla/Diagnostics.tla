----------------------------- MODULE Diagnostics -----------------------------
(***************************************************************************)
(* Diagnostic bundles and what goes into them: the projection of a node's  *)
(* runtime health (src/src/runtime_observation.rs), the assessment of an   *)
(* environment and the doctor (src/src/bootstrap.rs), the bundle in its    *)
(* two versions (src/src/diagnostics.rs), and the commands that make them, *)
(* which read the clock once for the projection and again for what is made *)
(* of it.                                                                  *)
(*                                                                         *)
(* Everything that goes in is a file somebody wrote at some time: a health *)
(* snapshot, an assessment, an adapter inspection, a profile, a rollout's  *)
(* status, a controller's database.  Of each the model keeps the window it *)
(* is good for and what a check looks at.  Time is in seconds; a snapshot  *)
(* whose freshness is used up has a window that ends before it begins.     *)
(***************************************************************************)
EXTENDS Integers, FiniteSetsExt, Functions

CONSTANTS
  MaxClock, Ahead,   \* bounds: the clock; how far a foreign clock is ahead of it
  Skew,              \* what the check of an inspection allows of that
  AssessmentLife,    \* how long an assessment made by the tool is good for
  Lives              \* how long other evidence may be good for; -1: not at all

ASSUME TimesAssumption ==
  MaxClock \in Nat /\ Ahead \in Nat /\ Skew \in Nat /\ AssessmentLife \in Nat /\ Lives \subseteq Int

VARIABLES
  clock,
  assessment,        \* the newest assessment the tool made
  cli,               \* a command between its two readings of the clock
  bundle             \* the bundle file, if there is one, with the evidence it was made of

vars == <<clock, assessment, cli, bundle>>

Healths == {"ready", "degraded", "not_ready", "unknown"}
Absent == [at |-> -1, until |-> -1, says |-> "absent"]
NoRuntime == [snapshot |-> Absent, stale |-> FALSE, effective |-> "absent"]
Idle == [command |-> "idle", runtime |-> NoRuntime]

(* Evidence somebody collected by now, and what it says.                   *)
Evidence(says) ==
  {[at |-> t, until |-> t + life, says |-> s] :
     t \in 0 .. (clock + Ahead), life \in Lives, s \in says}

---------------------------------------------------------------------------
(* project_runtime_health, its refusal, and whether its result is stale:   *)
(* then the effective state is unknown whatever the node reports.  What a  *)
(* snapshot says is what its liveness and readiness come to.               *)
Projectable(snapshot, now) == snapshot.at <= now
Stale(snapshot, now) == now > snapshot.until
Projected(snapshot, now) ==
  [snapshot |-> snapshot, stale |-> Stale(snapshot, now),
   effective |-> IF Stale(snapshot, now) THEN "unknown" ELSE snapshot.says]

(* validate_runtime_observation, when the observation is used.             *)
ValidRuntime(r, now) ==
  r.snapshot.at <= now /\ (~r.stale => now <= r.snapshot.until)

(* validate_assessment: its own window and that of every claim, of which   *)
(* `claimed` is the first to end.                                          *)
ValidAssessment(a, now) == a.at <= now /\ now <= a.until /\ now <= a.claimed

(* validate_adapter_inspection, validate_profile.                          *)
ValidInspection(i, now) == i.at <= now + Skew /\ i.at <= i.until /\ now <= i.until
ValidProfile(p, now) == p.at <= now /\ now <= p.until

---------------------------------------------------------------------------
(* doctor, create_diagnostic_bundle, runtime_check: the state of each      *)
(* check, from what is there.  Inspections are only looked at for whether  *)
(* they are there.                                                         *)
Present(source, state) == IF source = Absent THEN "not_available" ELSE state
ProfileCheck(p) == Present(p, IF p.says = "compatible" THEN "pass" ELSE "fail")
RolloutCheck(r) ==
  CASE r = "absent" -> "not_available"
    [] r = "converged" -> "pass"
    [] r \in {"partially_converged", "failed"} -> "fail"
    [] OTHER -> "warn"
RuntimeCheck(r) ==
  IF r = NoRuntime THEN "left_out"
  ELSE IF r.stale THEN "warn"
  ELSE CASE r.effective = "ready" -> "pass"
         [] r.effective = "not_ready" -> "fail"
         [] OTHER -> "warn"

(* overall.                                                                *)
Overall(checks) ==
  IF "fail" \in checks THEN "fail"
  ELSE IF checks \cap {"warn", "not_available"} # {} THEN "warn" ELSE "pass"

(* Broken variant: the window of the runtime does not count.               *)
UntilWithoutRuntime(sources) ==
  Min({s.until : s \in {sources.assessment, sources.adapter, sources.profile} \ {Absent}})

(* A bundle is good for as long as what is in it; of an assessment its own *)
(* window counts, not that of its claims, and a runtime observation that   *)
(* was stale already does not count.                                       *)
Until(sources) ==
  LET runtime == IF sources.runtime.stale THEN Absent ELSE sources.runtime.snapshot IN
  Min({s.until : s \in {sources.assessment, sources.adapter, sources.profile, runtime} \ {Absent}})

(* create_diagnostic_bundle, create_diagnostic_bundle_v2, their refusals.  *)
Diagnosable(sources, now) ==
  /\ ValidAssessment(sources.assessment, now)
  /\ sources.adapter # Absent => ValidInspection(sources.adapter, now)
  /\ sources.profile # Absent => ValidProfile(sources.profile, now)
  /\ sources.runtime # NoRuntime => ValidRuntime(sources.runtime, now)

Timed == {"assessment", "adapter", "profile", "runtime"}

Checks(sources) ==
  [assessment |-> "pass", controller |-> IF sources.controller THEN "pass" ELSE "not_available",
   adapter |-> Present(sources.adapter, "pass"), profile |-> ProfileCheck(sources.profile),
   rollout |-> RolloutCheck(sources.rollout), runtime |-> RuntimeCheck(sources.runtime)]

(* create_diagnostic_bundle, create_diagnostic_bundle_v2, their result.    *)
Bundle(sources, now) ==
  [created |-> now, until |-> Until(sources), sources |-> Restrict(sources, Timed), checks |-> Checks(sources),
   overall |-> Overall(Range(Checks(sources)))]

(* validate_diagnostic_bundle, for a bundle that was not changed.          *)
Verified(b, now) == b.created <= now /\ now <= b.until

---------------------------------------------------------------------------
(* The first reading of the clock, of bootstrap and diagnostics commands   *)
(* that are given a health snapshot.                                       *)
Project(command, snapshot) ==
  /\ cli = Idle /\ Projectable(snapshot, clock)
  /\ cli' = [command |-> command, runtime |-> Projected(snapshot, clock)]
  /\ UNCHANGED <<clock, assessment, bundle>>

(* bootstrap from-runtime-config, prepare: the claims about the            *)
(* configuration and the runtime are made now, whatever the snapshot is.   *)
Assess ==
  /\ \/ cli = Idle
     \/ cli.command = "bootstrap" /\ ValidRuntime(cli.runtime, clock)
  /\ LET until == clock + AssessmentLife IN
     assessment' = [at |-> clock, until |-> until, claimed |-> until]
  /\ cli' = Idle
  /\ UNCHANGED <<clock, bundle>>

(* diagnostics create, with a runtime observation or without one, of the   *)
(* tool's assessment or of one written by hand.                            *)
Diagnose(a, controller, adapter, profile, rollout) ==
  /\ cli.command \in {"idle", "diagnostics"}
  /\ LET sources == [assessment |-> a, controller |-> controller, adapter |-> adapter,
                     profile |-> profile, rollout |-> rollout, runtime |-> cli.runtime] IN
     /\ Diagnosable(sources, clock)
     /\ bundle' = {Bundle(sources, clock)}
  /\ cli' = Idle
  /\ UNCHANGED <<clock, assessment>>

(* A command is refused by what it reads, or stopped.                      *)
GiveUp == cli # Idle /\ cli' = Idle /\ UNCHANGED <<clock, assessment, bundle>>

Tick == clock < MaxClock /\ clock' = clock + 1 /\ UNCHANGED <<assessment, cli, bundle>>

Init ==
  /\ clock = 0 /\ cli = Idle
  /\ assessment = [at |-> 0, until |-> -1, claimed |-> -1]
  /\ bundle = {}

(* Assessments written by hand, with the claim that ends first.            *)
Assessments ==
  {[at |-> a.at, until |-> a.until, claimed |-> c.until] :
     a \in Evidence({"assessment"}), c \in Evidence({"claim"})}

Commands ==
  \/ \E command \in {"bootstrap", "diagnostics"}, snapshot \in Evidence(Healths) : Project(command, snapshot)
  \/ Assess
  \/ \E a \in {assessment} \cup Assessments, controller \in BOOLEAN,
        rollout \in {"absent", "running", "converged", "failed"},
        adapter \in Evidence({"inspection"}) \cup {Absent},
        profile \in Evidence({"compatible", "incompatible"}) \cup {Absent} :
       Diagnose(a, controller, adapter, profile, rollout)
  \/ GiveUp

(* Bundles never meet: a behaviour makes one.                              *)
Next == (bundle = {} /\ Commands) \/ Tick

Spec == Init /\ [][Next]_vars

---------------------------------------------------------------------------
(* A bundle that still verifies is as fresh as it claims: whatever made a  *)
(* check pass (an overall pass needs all of them) is good now, and not     *)
(* only when the bundle was made or, for the runtime, when it was          *)
(* projected, and a node that passes reported that it is ready.            *)
PassedChecksAreFresh ==
  \A b \in bundle : Verified(b, clock) =>
    /\ b.overall = "pass" =>
         \A k \in DOMAIN b.checks : b.checks[k] \in {"pass", "left_out"}
    /\ \A k \in {"assessment", "adapter", "profile"} :
         b.checks[k] = "pass" => clock <= b.sources[k].until
    /\ b.checks["profile"] = "pass" => b.sources.profile.at <= clock
    /\ b.checks["runtime"] = "pass" =>
         LET snapshot == b.sources.runtime.snapshot IN
         snapshot.says = "ready" /\ snapshot.at <= clock /\ clock <= snapshot.until
=============================================================================
