--------------------------- MODULE DiagnosticsProofs ---------------------------
(***************************************************************************)
(* What a bundle says passed is good for as long as the bundle verifies,   *)
(* for evidence with any windows and a bundle made at any time after the   *)
(* runtime was projected.                                                  *)
(***************************************************************************)
EXTENDS Diagnostics, TLAPS

---------------------------------------------------------------------------
(* A set of at most four windows has one that is the first to end.         *)
LEMMA LeastOfFour ==
  ASSUME NEW w \in Int, NEW x \in Int, NEW y \in Int, NEW z \in Int,
         NEW S \in SUBSET {w, x, y, z}, S # {}
  PROVE  Min(S) \in S /\ \A n \in S : Min(S) <= n
  <1>1. ASSUME \A m \in S : \E n \in S : ~ (m <= n) PROVE FALSE
    <2>1. PICK a \in S : TRUE
      OBVIOUS
    <2>2. PICK b \in S : ~ (a <= b)
      BY <1>1
    <2>3. PICK c \in S : ~ (b <= c)
      BY <1>1
    <2>4. PICK d \in S : ~ (c <= d)
      BY <1>1
    <2>5. PICK e \in S : ~ (d <= e)
      BY <1>1
    <2>6. /\ a \in {w, x, y, z} /\ b \in {w, x, y, z} /\ c \in {w, x, y, z}
          /\ d \in {w, x, y, z} /\ e \in {w, x, y, z}
      OBVIOUS
    <2>7. a > b /\ b > c /\ c > d /\ d > e
      BY <2>2, <2>3, <2>4, <2>5, <2>6
    <2> QED  BY <2>6, <2>7
  <1> QED  BY <1>1 DEF Min

(* The windows that Until looks at.                                        *)
Counted(sources) ==
  {sources.assessment, sources.adapter, sources.profile,
   IF sources.runtime.stale THEN Absent ELSE sources.runtime.snapshot}

LEMMA UntilIsFirst ==
  ASSUME NEW sources, \A s \in Counted(sources) : s.until \in Int,
         sources.assessment # Absent
  PROVE  /\ Until(sources) \in Int
         /\ \A s \in Counted(sources) \ {Absent} : Until(sources) <= s.until
  <1> DEFINE runtime == IF sources.runtime.stale THEN Absent ELSE sources.runtime.snapshot
             S == {s.until : s \in Counted(sources) \ {Absent}}
  <1>1. PICK w, x, y, z : /\ w = sources.assessment.until /\ x = sources.adapter.until
                          /\ y = sources.profile.until /\ z = runtime.until
    OBVIOUS
  <1>2. w \in Int /\ x \in Int /\ y \in Int /\ z \in Int
    BY <1>1 DEF Counted
  <1>3. S \in SUBSET {w, x, y, z} /\ S # {}
    BY <1>1 DEF Counted
  <1>4. Until(sources) = Min(S)
    BY DEF Until, Counted
  <1>5. Min(S) \in S /\ \A n \in S : Min(S) <= n
    <2> HIDE DEF S
    <2> QED  BY <1>2, <1>3, LeastOfFour
  <1>6. S \subseteq Int
    OBVIOUS
  <1>7. \A s \in Counted(sources) \ {Absent} : s.until \in S
    OBVIOUS
  <1> HIDE DEF S
  <1> QED  BY <1>4, <1>5, <1>6, <1>7

---------------------------------------------------------------------------
(* The inductive invariant.                                                *)
Window(s) == s.at \in Int /\ s.until \in Int

(* A projection was made of a snapshot from then or before, and says what  *)
(* the snapshot says unless it was stale.                                  *)
RuntimeIsProjected(r, now) ==
  r = NoRuntime \/
    /\ Window(r.snapshot) /\ r.snapshot.at <= now /\ r.snapshot # Absent
    /\ ~r.stale => r.effective = r.snapshot.says

(* What a bundle shows without a clock.                                    *)
BundleIsBounded(b) ==
  /\ b.created \in Int /\ b.until \in Int
  /\ b.overall = "pass" => \A k \in DOMAIN b.checks : b.checks[k] \in {"pass", "left_out"}
  /\ \A k \in {"assessment", "adapter", "profile"} :
       b.checks[k] = "pass" =>
         /\ Window(b.sources[k]) /\ b.until <= b.sources[k].until
  /\ b.checks["profile"] = "pass" => b.sources.profile.at <= b.created
  /\ b.checks["runtime"] = "pass" =>
       LET snapshot == b.sources.runtime.snapshot IN
       /\ Window(snapshot) /\ snapshot.says = "ready"
       /\ snapshot.at <= b.created /\ b.until <= snapshot.until

DiagnosticsInv ==
  /\ clock \in Nat /\ Window(assessment)
  /\ RuntimeIsProjected(cli.runtime, clock)
  /\ \A b \in bundle : BundleIsBounded(b)

LEMMA EvidenceHasWindow ==
  ASSUME clock \in Nat, NEW says, NEW s \in Evidence(says)
  PROVE  Window(s) /\ s.says \in says
  <1>1. PICK t \in 0 .. (clock + Ahead), life \in Lives, what \in says :
          s = [at |-> t, until |-> t + life, says |-> what]
    BY DEF Evidence
  <1>2. t \in Int /\ life \in Int
    BY <1>1, TimesAssumption
  <1> QED  BY <1>1, <1>2 DEF Window

LEMMA AbsentHasWindow ==
  Window(Absent)
  BY DEF Window, Absent

---------------------------------------------------------------------------
(* A bundle is made of sources that are valid then.                        *)
LEMMA BundleIsMade ==
  ASSUME clock \in Nat, NEW a, NEW controller \in BOOLEAN, NEW adapter, NEW profile,
         NEW rollout \in {"absent", "running", "converged", "failed"}, NEW runtime, NEW sources,
         Window(a), Window(adapter), Window(profile), RuntimeIsProjected(runtime, clock),
         sources = [assessment |-> a, controller |-> controller, adapter |-> adapter,
                    profile |-> profile, rollout |-> rollout, runtime |-> runtime],
         Diagnosable(sources, clock)
  PROVE  BundleIsBounded(Bundle(sources, clock))
  <1>1. a # Absent
    BY DEF Diagnosable, ValidAssessment, Absent
  <1>2. \A s \in Counted(sources) : s.until \in Int
    BY AbsentHasWindow DEF Counted, RuntimeIsProjected, NoRuntime, Window
  <1>3. /\ Until(sources) \in Int
        /\ \A s \in Counted(sources) \ {Absent} : Until(sources) <= s.until
    BY <1>1, <1>2, UntilIsFirst
  <1>4. PICK checks : checks = Checks(sources)
    OBVIOUS
  <1>5. PICK b : b = Bundle(sources, clock)
    OBVIOUS
  <1>6. /\ b.created = clock /\ b.until = Until(sources) /\ b.checks = checks
        /\ b.sources = Restrict(sources, Timed) /\ b.overall = Overall(Range(checks))
    BY <1>4, <1>5 DEF Bundle
  <1>7. /\ b.sources["assessment"] = a /\ b.sources["adapter"] = adapter
        /\ b.sources["profile"] = profile /\ b.sources["runtime"] = runtime
    BY <1>6 DEF Restrict, Timed
  <1>8. checks \in [{"assessment", "controller", "adapter", "profile", "rollout", "runtime"} ->
                     {"pass", "warn", "fail", "not_available", "left_out"}]
    BY <1>4 DEF Checks, Present, ProfileCheck, RolloutCheck, RuntimeCheck
  <1>9. b.overall = "pass" => \A k \in DOMAIN b.checks : b.checks[k] \in {"pass", "left_out"}
    BY <1>6, <1>8 DEF Overall, Range
  <1>10. /\ checks["adapter"] = "pass" => adapter # Absent
         /\ checks["profile"] = "pass" => profile # Absent
         /\ checks["runtime"] = "pass" =>
              runtime # NoRuntime /\ ~runtime.stale /\ runtime.effective = "ready"
    BY <1>4 DEF Checks, Present, ProfileCheck, RuntimeCheck
  <1>11. \A k \in {"assessment", "adapter", "profile"} :
           b.checks[k] = "pass" => Window(b.sources[k]) /\ b.until <= b.sources[k].until
    BY <1>1, <1>3, <1>6, <1>7, <1>10 DEF Counted
  <1>12. b.checks["profile"] = "pass" => b.sources.profile.at <= b.created
    BY <1>6, <1>7, <1>10 DEF Diagnosable, ValidProfile
  <1>13. ASSUME b.checks["runtime"] = "pass"
         PROVE  LET snapshot == b.sources.runtime.snapshot IN
                /\ Window(snapshot) /\ snapshot.says = "ready"
                /\ snapshot.at <= b.created /\ b.until <= snapshot.until
    <2>1. runtime # NoRuntime /\ ~runtime.stale /\ runtime.effective = "ready"
      BY <1>6, <1>10, <1>13
    <2>2. /\ Window(runtime.snapshot) /\ runtime.snapshot.says = "ready"
          /\ runtime.snapshot.at <= clock /\ runtime.snapshot # Absent
      BY <2>1 DEF RuntimeIsProjected
    <2>3. Until(sources) <= runtime.snapshot.until
      BY <1>3, <2>1, <2>2 DEF Counted
    <2> QED  BY <1>6, <1>7, <2>2, <2>3
  <1>14. b.created \in Int /\ b.until \in Int
    BY <1>3, <1>6
  <1> QED  BY <1>5, <1>9, <1>11, <1>12, <1>13, <1>14 DEF BundleIsBounded

LEMMA DiagnoseKeeps ==
  ASSUME DiagnosticsInv, NEW a \in {assessment} \cup Assessments, NEW controller \in BOOLEAN,
         NEW rollout \in {"absent", "running", "converged", "failed"},
         NEW adapter \in Evidence({"inspection"}) \cup {Absent},
         NEW profile \in Evidence({"compatible", "incompatible"}) \cup {Absent},
         Diagnose(a, controller, adapter, profile, rollout)
  PROVE  DiagnosticsInv'
  <1>1. Window(a) /\ Window(adapter) /\ Window(profile) /\ clock \in Nat
    BY EvidenceHasWindow, AbsentHasWindow DEF DiagnosticsInv, Assessments, Window
  <1>2. PICK sources, runtime :
          /\ runtime = cli.runtime
          /\ sources = [assessment |-> a, controller |-> controller, adapter |-> adapter,
                        profile |-> profile, rollout |-> rollout, runtime |-> runtime]
    OBVIOUS
  <1>3. /\ Diagnosable(sources, clock) /\ bundle' = {Bundle(sources, clock)}
        /\ cli' = Idle /\ UNCHANGED <<clock, assessment>>
    BY <1>2 DEF Diagnose
  <1>4. PICK b : b = Bundle(sources, clock)
    OBVIOUS
  <1>5. BundleIsBounded(b)
    BY <1>1, <1>2, <1>3, <1>4, BundleIsMade DEF DiagnosticsInv
  <1> QED
    BY <1>3, <1>4, <1>5 DEF DiagnosticsInv, RuntimeIsProjected, Idle, Window

LEMMA ProjectKeeps ==
  ASSUME DiagnosticsInv, NEW command \in {"bootstrap", "diagnostics"},
         NEW snapshot \in Evidence(Healths), Project(command, snapshot)
  PROVE  DiagnosticsInv'
  <1>1. Window(snapshot) /\ snapshot.says \in Healths
    BY EvidenceHasWindow DEF DiagnosticsInv
  <1>2. snapshot # Absent
    BY <1>1 DEF Healths, Absent
  <1>3. RuntimeIsProjected(Projected(snapshot, clock), clock)
    BY <1>1, <1>2 DEF RuntimeIsProjected, Projected, Project, Projectable
  <1> QED
    BY <1>3 DEF Project, DiagnosticsInv, RuntimeIsProjected, Window

LEMMA Initially ==
  Init => DiagnosticsInv
  BY DEF Init, DiagnosticsInv, Idle, RuntimeIsProjected, Window

LEMMA StepKeeps ==
  DiagnosticsInv /\ [Next]_vars => DiagnosticsInv'
  <1> SUFFICES ASSUME DiagnosticsInv, [Next]_vars PROVE DiagnosticsInv'
    OBVIOUS
  <1>1. ASSUME NEW command \in {"bootstrap", "diagnostics"}, NEW snapshot \in Evidence(Healths),
               Project(command, snapshot)
        PROVE  DiagnosticsInv'
    BY <1>1, ProjectKeeps
  <1>2. CASE Assess
    BY <1>2, TimesAssumption DEF Assess, DiagnosticsInv, Idle, RuntimeIsProjected, Window
  <1>3. ASSUME NEW a \in {assessment} \cup Assessments, NEW controller \in BOOLEAN,
               NEW rollout \in {"absent", "running", "converged", "failed"},
               NEW adapter \in Evidence({"inspection"}) \cup {Absent},
               NEW profile \in Evidence({"compatible", "incompatible"}) \cup {Absent},
               Diagnose(a, controller, adapter, profile, rollout)
        PROVE  DiagnosticsInv'
    BY <1>3, DiagnoseKeeps
  <1>4. CASE GiveUp
    BY <1>4 DEF GiveUp, DiagnosticsInv, Idle, RuntimeIsProjected, Window
  <1>5. CASE Tick
    BY <1>5 DEF Tick, DiagnosticsInv, RuntimeIsProjected, Window
  <1>6. CASE UNCHANGED vars
    BY <1>6 DEF vars, DiagnosticsInv, RuntimeIsProjected, Window
  <1> QED  BY <1>1, <1>2, <1>3, <1>4, <1>5, <1>6 DEF Next, Commands

(* diagnostics create: as long as a bundle verifies, every check it says   *)
(* passed rests on evidence that is still good, and a runtime that passes  *)
(* on a snapshot that said ready.                                          *)
THEOREM PassedChecksAreFreshAlways == Spec => []PassedChecksAreFresh
  <1>1. DiagnosticsInv => PassedChecksAreFresh
    <2> SUFFICES ASSUME DiagnosticsInv, NEW b \in bundle, Verified(b, clock)
                 PROVE  /\ b.overall = "pass" =>
                             \A k \in DOMAIN b.checks : b.checks[k] \in {"pass", "left_out"}
                        /\ \A k \in {"assessment", "adapter", "profile"} :
                             b.checks[k] = "pass" => clock <= b.sources[k].until
                        /\ b.checks["profile"] = "pass" => b.sources.profile.at <= clock
                        /\ b.checks["runtime"] = "pass" =>
                             LET snapshot == b.sources.runtime.snapshot IN
                             snapshot.says = "ready" /\ snapshot.at <= clock /\ clock <= snapshot.until
      BY DEF PassedChecksAreFresh
    <2>1. BundleIsBounded(b) /\ clock \in Nat /\ b.created <= clock /\ clock <= b.until
      BY DEF DiagnosticsInv, Verified
    <2>2. b.created \in Int /\ b.until \in Int
      BY <2>1 DEF BundleIsBounded
    <2>3. \A k \in {"assessment", "adapter", "profile"} :
            b.checks[k] = "pass" => clock <= b.sources[k].until
      BY <2>1, <2>2 DEF BundleIsBounded, Window
    <2>4. b.checks["profile"] = "pass" => b.sources.profile.at <= clock
      BY <2>1, <2>2 DEF BundleIsBounded, Window
    <2>5. b.checks["runtime"] = "pass" =>
            LET snapshot == b.sources.runtime.snapshot IN
            snapshot.says = "ready" /\ snapshot.at <= clock /\ clock <= snapshot.until
      BY <2>1, <2>2 DEF BundleIsBounded, Window
    <2> QED  BY <2>1, <2>3, <2>4, <2>5 DEF BundleIsBounded
  <1> QED  BY <1>1, Initially, StepKeeps, PTL DEF Spec
=============================================================================
