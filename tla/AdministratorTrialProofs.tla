----------------------- MODULE AdministratorTrialProofs -----------------------
(***************************************************************************)
(* The evidence of one administrator's trial counts every event, for any   *)
(* event files, outcome files and paths, and wherever a command stops.     *)
(* The commands take no lock on the session file, so that this is shown    *)
(* under the hypothesis that one command runs at a time.                   *)
(***************************************************************************)
EXTENDS AdministratorTrial, SequenceTheorems, TLAPS

---------------------------------------------------------------------------
(* What Counts says of a history does not change as the history grows.     *)
LEMMA SubSeqOfAppend ==
  ASSUME NEW S, NEW s \in Seq(S), NEW e \in S, NEW n \in 0 .. Len(s)
  PROVE  SubSeq(Append(s, e), 1, n) = SubSeq(s, 1, n)
  <1>1. Append(s, e) \in Seq(S) /\ Len(Append(s, e)) = Len(s) + 1
    BY AppendProperties
  <1>2. \A i \in 1 .. n : s[i] \in S /\ Append(s, e)[i] = s[i]
    <2>1. n \in Nat /\ Len(s) \in Nat
      OBVIOUS
    <2> QED  BY <2>1, AppendProperties, ElementOfSeq
  <1>3. \A i \in 1 .. n : Append(s, e)[i] \in S
    BY <1>2
  <1>4. n \in Int /\ n \in Nat
    OBVIOUS
  <1>5. /\ SubSeq(s, 1, n) \in Seq(S) /\ SubSeq(Append(s, e), 1, n) \in Seq(S)
        /\ Len(SubSeq(s, 1, n)) = n /\ Len(SubSeq(Append(s, e), 1, n)) = n
        /\ \A i \in 1 .. n : SubSeq(s, 1, n)[i] = s[i]
        /\ \A i \in 1 .. n : SubSeq(Append(s, e), 1, n)[i] = Append(s, e)[i]
    BY <1>2, <1>3, <1>4, SubSeqProperties
  <1> QED  BY <1>2, <1>5, SeqEqual

LEMMA CountsGrow ==
  ASSUME recorded \in Seq(EventFiles), NEW e \in EventFiles, recorded' = Append(recorded, e)
  PROVE  /\ Len(recorded') = Len(recorded) + 1
         /\ \A n \in 0 .. Len(recorded) : Counts(n)' = Counts(n)
  <1>1. Len(recorded') = Len(recorded) + 1
    BY AppendProperties
  <1>2. ASSUME NEW n \in 0 .. Len(recorded) PROVE Counts(n)' = Counts(n)
    <2>1. SubSeq(recorded', 1, n) = SubSeq(recorded, 1, n)
      BY SubSeqOfAppend
    <2> QED  BY <2>1 DEF Counts
  <1> QED  BY <1>1, <1>2

LEMMA CountsOfAll ==
  ASSUME recorded \in Seq(EventFiles)
  PROVE  /\ Len(recorded) \in Nat
         /\ Counts(Len(recorded)) = [kind \in Kinds |-> Count(kind, recorded)]
         /\ Counts(Len(recorded))["assistance"] = Count("assistance", recorded)
  <1>1. SubSeq(recorded, 1, Len(recorded)) = recorded /\ Len(recorded) \in Nat
    BY SubSeqFull
  <1> QED  BY <1>1 DEF Counts, Kinds

---------------------------------------------------------------------------
(* The inductive invariant.                                                *)
Session == [started: Int, events: Seq(EventFiles), finalized: BOOLEAN]
Started == session # NoSession

(* The evidence v counts the first n events that were acknowledged.        *)
CountsFirst(v, n) ==
  v.counts = Counts(n) /\ (v.unassisted => Counts(n)["assistance"] = 0)

SessionIsHistory ==
  /\ clock \in Nat /\ recorded \in Seq(EventFiles) /\ session \in Session
  /\ session.events = recorded
  /\ Started => session.started \in Nat
  /\ ~Started => DOMAIN outputs = {}
OutputsCount == \A path \in DOMAIN outputs : \E n \in 0 .. Len(recorded) : CountsFirst(outputs[path], n)
AllAreCounted == \E path \in DOMAIN outputs : outputs[path].counts = Counts(Len(recorded))
FinalizedIsCounted == Started /\ session.finalized => AllAreCounted

(* The session with one more event.                                        *)
Extended(e) == [session EXCEPT !.events = Append(recorded, e)]

(* A command has read the session that is there, and no other writes it.   *)
CommandKnows(k) ==
  \/ k = Idle
  \/ /\ k.at = "starting" /\ ~Started
     /\ k.session \in Session /\ k.session.started \in Nat
     /\ k.session.events = <<>> /\ ~k.session.finalized
  \/ /\ k.at = "extending" /\ Started /\ ~session.finalized
     /\ \E e \in EventFiles : k.session = Extended(e)
  \/ /\ k.at = "finishing" /\ Started /\ k.session = session
     /\ CountsFirst(k.evidence, Len(recorded))
  \/ /\ k.at = "finalizing" /\ Started /\ k.session = session /\ AllAreCounted
CommandsKnow == \A c \in Clis : CommandKnows(cli[c])

TrialInv ==
  /\ SessionIsHistory /\ OutputsCount /\ FinalizedIsCounted
  /\ cli = [c \in Clis |-> cli[c]] /\ CommandsKnow

(* The hypothesis: there is one command at a time.                         *)
OneAdministrator == \A c, d \in Clis : c = d

LEMMA OneMoves ==
  ASSUME OneAdministrator, NEW c \in Clis, NEW k, cli = [d \in Clis |-> cli[d]],
         cli' = [cli EXCEPT ![c] = k], CommandKnows(k)'
  PROVE  cli' = [d \in Clis |-> cli'[d]] /\ CommandsKnow'
  <1>1. cli' = [d \in Clis |-> cli'[d]] /\ \A d \in Clis : cli'[d] = k
    BY DEF OneAdministrator
  <1> QED  BY <1>1 DEF CommandsKnow, CommandKnows

LEMMA IdleKnows ==
  CommandKnows(Idle)'
  BY DEF CommandKnows

(* A command that reads, or stops.                                         *)
LEMMA ReadKeeps ==
  ASSUME OneAdministrator, TrialInv, NEW c \in Clis, NEW k, cli' = [cli EXCEPT ![c] = k],
         UNCHANGED <<clock, session, outputs, recorded>>, CommandKnows(k)
  PROVE  TrialInv'
  <1>1. SessionIsHistory' /\ OutputsCount' /\ FinalizedIsCounted'
    BY DEF TrialInv, SessionIsHistory, OutputsCount, FinalizedIsCounted, AllAreCounted, CountsFirst,
           Counts, Started
  <1>2. CommandKnows(k)'
    BY DEF CommandKnows, AllAreCounted, CountsFirst, Counts, Started, Extended
  <1> QED  BY <1>1, <1>2, OneMoves DEF TrialInv

---------------------------------------------------------------------------
LEMMA StartKeeps ==
  ASSUME OneAdministrator, TrialInv, NEW c \in Clis, Start(c)
  PROVE  TrialInv'
  <1>1. PICK k : k = [at |-> "starting",
                      session |-> [started |-> clock, events |-> <<>>, finalized |-> FALSE]]
    OBVIOUS
  <1>2. CommandKnows(k)
    BY <1>1 DEF Start, Started, CommandKnows, Session, TrialInv, SessionIsHistory
  <1> QED  BY <1>1, <1>2, ReadKeeps DEF Start

LEMMA RecordEventKeeps ==
  ASSUME OneAdministrator, TrialInv, NEW c \in Clis, NEW e \in EventFiles, RecordEvent(c, e)
  PROVE  TrialInv'
  <1>1. PICK k : k = [at |-> "extending", session |-> [session EXCEPT !.events = Append(@, e)]]
    OBVIOUS
  <1>2. CommandKnows(k)
    <2>1. session.events = recorded /\ Started /\ ~session.finalized
      BY DEF RecordEvent, Started, TrialInv, SessionIsHistory
    <2>2. k.at = "extending" /\ k.session = Extended(e)
      BY <1>1, <2>1 DEF Extended
    <2> QED  BY <2>1, <2>2 DEF CommandKnows
  <1> QED  BY <1>1, <1>2, ReadKeeps DEF RecordEvent

LEMMA FinishKeeps ==
  ASSUME OneAdministrator, TrialInv, NEW c \in Clis, NEW o \in OutcomeFiles, NEW path \in Outputs,
         Finish(c, o, path)
  PROVE  TrialInv'
  <1>1. PICK k : k = [at |-> "finishing", session |-> session,
                      evidence |-> Evidence(session, o), path |-> path]
    OBVIOUS
  <1>2. CountsFirst(Evidence(session, o), Len(recorded))
    BY CountsOfAll DEF Evidence, CountsFirst, TrialInv, SessionIsHistory
  <1>3. CommandKnows(k)
    BY <1>1, <1>2 DEF Finish, Started, CommandKnows
  <1> QED  BY <1>1, <1>3, ReadKeeps DEF Finish

LEMMA StopKeeps ==
  ASSUME OneAdministrator, TrialInv, NEW c \in Clis, Stop(c)
  PROVE  TrialInv'
  <1>1. CommandKnows(Idle)
    BY DEF CommandKnows
  <1> QED  BY <1>1, ReadKeeps DEF Stop

LEMMA TickKeeps ==
  ASSUME TrialInv, Tick \/ UNCHANGED vars
  PROVE  TrialInv'
  <1>1. UNCHANGED <<session, outputs, cli, recorded>> /\ clock' \in Nat
    BY DEF Tick, vars, TrialInv, SessionIsHistory
  <1>2. SessionIsHistory' /\ OutputsCount' /\ FinalizedIsCounted' /\ cli' = [c \in Clis |-> cli'[c]]
    BY <1>1 DEF TrialInv, SessionIsHistory, OutputsCount, FinalizedIsCounted, AllAreCounted,
                CountsFirst, Counts, Started
  <1>3. CommandsKnow'
    <2> SUFFICES ASSUME NEW c \in Clis, NEW k, k = cli[c] PROVE CommandKnows(k)'
      BY <1>1 DEF CommandsKnow, CommandKnows
    <2>1. CommandKnows(k)
      BY DEF TrialInv, CommandsKnow
    <2> QED  BY <1>1, <2>1 DEF CommandKnows, AllAreCounted, CountsFirst, Counts, Started, Extended
  <1> QED  BY <1>2, <1>3 DEF TrialInv

---------------------------------------------------------------------------
(* The session of a start, over a history that is empty.                   *)
LEMMA WriteSessionKeeps ==
  ASSUME OneAdministrator, TrialInv, NEW c \in Clis, WriteSession(c)
  PROVE  TrialInv'
  <1>1. PICK s : s = cli[c].session
    OBVIOUS
  <1>2. /\ s \in Session /\ s.started \in Nat /\ s.events = <<>> /\ ~s.finalized
        /\ session' = s /\ recorded' = <<>> /\ UNCHANGED <<clock, outputs>>
        /\ ~Started /\ cli' = [cli EXCEPT ![c] = Idle]
    BY <1>1 DEF TrialInv, CommandsKnow, CommandKnows, WriteSession, Idle
  <1>3. DOMAIN outputs' = {} /\ clock' \in Nat /\ recorded' \in Seq(EventFiles)
    BY <1>2, EmptySeq DEF TrialInv, SessionIsHistory
  <1>4. SessionIsHistory'
    BY <1>2, <1>3 DEF SessionIsHistory, Started
  <1>5. OutputsCount' /\ FinalizedIsCounted'
    BY <1>2, <1>3 DEF OutputsCount, FinalizedIsCounted
  <1> QED  BY <1>2, <1>4, <1>5, IdleKnows, OneMoves DEF TrialInv

(* The event that is acknowledged is the one the file gets.                *)
LEMMA WriteEventKeeps ==
  ASSUME OneAdministrator, TrialInv, NEW c \in Clis, WriteEvent(c)
  PROVE  TrialInv'
  <1>1. PICK k : k = cli[c]
    OBVIOUS
  <1>2. /\ k.at = "extending" /\ CommandKnows(k) /\ SessionIsHistory
        /\ session' = k.session /\ recorded' = Append(recorded, session'.events[Len(session'.events)])
        /\ cli' = [cli EXCEPT ![c] = Idle] /\ UNCHANGED <<clock, outputs>>
    BY <1>1 DEF TrialInv, CommandsKnow, WriteEvent
  <1>3. k.at = "extending" /\ CommandKnows(k)
    BY <1>2
  <1>4. /\ Started /\ ~session.finalized
        /\ \E e \in EventFiles : k.session = Extended(e)
    BY <1>3 DEF CommandKnows, Idle
  <1>5. PICK e \in EventFiles : session' = [session EXCEPT !.events = Append(recorded, e)]
    BY <1>2, <1>4 DEF Extended
  <1>6. session'.events = Append(recorded, e) /\ recorded \in Seq(EventFiles)
    BY <1>2, <1>5 DEF SessionIsHistory, Session
  <1>7. recorded' = Append(recorded, e) /\ recorded' \in Seq(EventFiles) /\ recorded' # <<>>
    BY <1>2, <1>6, AppendProperties
  <1>8. /\ session' \in Session /\ session'.started = session.started /\ ~session'.finalized
        /\ session'.events = recorded' /\ session'.started \in Nat
    <2>1. session'.events \in Seq(EventFiles) /\ session'.events = recorded'
      BY <1>6, <1>7
    <2>2. session \in Session /\ session.started \in Nat
      BY <1>2, <1>4 DEF SessionIsHistory
    <2>3. PICK events : events = Append(recorded, e)
      OBVIOUS
    <2>4. session' = [session EXCEPT !.events = events]
      BY <1>5, <2>3
    <2> QED  BY <1>4, <2>1, <2>2, <2>4 DEF Session
  <1>9. Started' /\ SessionIsHistory'
    <2>1. session' # NoSession
      BY <1>8 DEF NoSession
    <2> QED  BY <1>2, <1>7, <1>8, <2>1 DEF SessionIsHistory, Started
  <1>10. OutputsCount' /\ FinalizedIsCounted'
    <2>1. ASSUME NEW path \in DOMAIN outputs
          PROVE  \E n \in 0 .. Len(recorded') : CountsFirst(outputs[path], n)'
      <3>1. PICK n \in 0 .. Len(recorded) : CountsFirst(outputs[path], n)
        BY DEF TrialInv, OutputsCount
      <3>2. Len(recorded') = Len(recorded) + 1 /\ Counts(n)' = Counts(n) /\ Len(recorded) \in Nat
        BY <1>6, <1>7, CountsGrow, CountsOfAll
      <3>3. n \in 0 .. Len(recorded')
        BY <3>2
      <3> QED  BY <1>2, <3>1, <3>2, <3>3 DEF CountsFirst
    <2> QED  BY <1>2, <1>8, <2>1 DEF OutputsCount, FinalizedIsCounted
  <1> QED  BY <1>2, <1>9, <1>10, IdleKnows, OneMoves DEF TrialInv

(* The evidence counts the events up to now.                               *)
LEMMA WriteEvidenceKeeps ==
  ASSUME OneAdministrator, TrialInv, NEW c \in Clis, WriteEvidence(c)
  PROVE  TrialInv'
  <1>1. PICK k, v, at : k = cli[c] /\ v = k.evidence /\ at = k.path
    OBVIOUS
  <1>2. /\ CommandKnows(k) /\ k.at = "finishing" /\ SessionIsHistory
        /\ UNCHANGED <<clock, session, recorded>>
        /\ outputs' = [path \in DOMAIN outputs \cup {at} |-> IF path = at THEN v ELSE outputs[path]]
    BY <1>1 DEF TrialInv, CommandsKnow, WriteEvidence
  <1>3. Started /\ k.session = session /\ CountsFirst(v, Len(recorded)) /\ Len(recorded) \in Nat
    BY <1>1, <1>2, CountsOfAll DEF CommandKnows, Idle, SessionIsHistory
  <1>4. /\ at \in DOMAIN outputs' /\ outputs'[at] = v
        /\ \A path \in DOMAIN outputs' : path = at \/ (path \in DOMAIN outputs /\ outputs'[path] = outputs[path])
    BY <1>2
  <1>5. AllAreCounted'
    BY <1>2, <1>3, <1>4 DEF AllAreCounted, CountsFirst, Counts
  <1>6. OutputsCount'
    <2> SUFFICES ASSUME NEW path \in DOMAIN outputs', NEW w, w = outputs'[path]
                 PROVE  \E n \in 0 .. Len(recorded) : CountsFirst(w, n)
      <3>1. Len(recorded') = Len(recorded) /\ \A n : Counts(n)' = Counts(n)
        BY <1>2 DEF Counts
      <3> QED  BY <3>1 DEF OutputsCount, CountsFirst
    <2>1. CASE path = at
      BY <1>3, <1>4, <2>1
    <2>2. CASE path \in DOMAIN outputs /\ outputs'[path] = outputs[path]
      BY <2>2 DEF TrialInv, OutputsCount
    <2> QED  BY <1>4, <2>1, <2>2
  <1>7. SessionIsHistory' /\ FinalizedIsCounted'
    BY <1>2, <1>3, <1>5 DEF SessionIsHistory, Started, FinalizedIsCounted
  <1>8. PICK j : j = [at |-> "finalizing", session |-> session]
    OBVIOUS
  <1>9. cli' = [cli EXCEPT ![c] = j] /\ CommandKnows(j)'
    BY <1>1, <1>2, <1>3, <1>5, <1>8 DEF WriteEvidence, CommandKnows, Started
  <1> QED  BY <1>6, <1>7, <1>9, OneMoves DEF TrialInv

LEMMA FinalizeKeeps ==
  ASSUME OneAdministrator, TrialInv, NEW c \in Clis, Finalize(c)
  PROVE  TrialInv'
  <1>1. PICK k : k = cli[c]
    OBVIOUS
  <1>2. /\ CommandKnows(k) /\ k.at = "finalizing" /\ SessionIsHistory
        /\ UNCHANGED <<clock, outputs, recorded>> /\ cli' = [cli EXCEPT ![c] = Idle]
        /\ session' = [k.session EXCEPT !.finalized = TRUE]
    BY <1>1 DEF TrialInv, CommandsKnow, Finalize
  <1>3. Started /\ k.session = session /\ AllAreCounted
    BY <1>2 DEF CommandKnows, Idle
  <1>4. /\ session' \in Session /\ session'.events = session.events
        /\ session'.started = session.started /\ session'.started \in Nat
    BY <1>2, <1>3 DEF SessionIsHistory, Session
  <1>5. session' # NoSession
    BY <1>4 DEF NoSession
  <1>6. SessionIsHistory' /\ OutputsCount' /\ FinalizedIsCounted'
    BY <1>2, <1>3, <1>4, <1>5
    DEF TrialInv, SessionIsHistory, OutputsCount, FinalizedIsCounted, AllAreCounted, CountsFirst,
        Counts, Started
  <1> QED  BY <1>2, <1>6, IdleKnows, OneMoves DEF TrialInv

---------------------------------------------------------------------------
LEMMA Initially ==
  Init => TrialInv
  BY EmptySeq
  DEF Init, TrialInv, SessionIsHistory, OutputsCount, FinalizedIsCounted, CommandsKnow, CommandKnows,
      NoSession, Session, Started

LEMMA StepKeeps ==
  ASSUME OneAdministrator
  PROVE  TrialInv /\ [Next]_vars => TrialInv'
  <1> SUFFICES ASSUME TrialInv, [Next]_vars PROVE TrialInv'
    OBVIOUS
  <1>1. CASE Tick \/ UNCHANGED vars
    BY <1>1, TickKeeps
  <1>2. ASSUME NEW c \in Clis, Trial(c) PROVE TrialInv'
    BY <1>2, StartKeeps, WriteSessionKeeps, RecordEventKeeps, WriteEventKeeps, FinishKeeps,
       WriteEvidenceKeeps, FinalizeKeeps, StopKeeps
    DEF Trial
  <1> QED  BY <1>1, <1>2 DEF Next

(* The session file holds every acknowledged event, a finalized session    *)
(* has evidence that counts them all, and evidence from an interrupted     *)
(* finish counts an initial part: when one administrator runs the trial,   *)
(* whichever of the writes of a command are the last.                      *)
THEOREM EvidenceCountsEveryEventAlways ==
  ASSUME OneAdministrator
  PROVE  Spec => []EvidenceCountsEveryEvent
  <1>1. TrialInv => EvidenceCountsEveryEvent
    BY DEF TrialInv, SessionIsHistory, OutputsCount, FinalizedIsCounted, AllAreCounted, CountsFirst,
           Started, EvidenceCountsEveryEvent
  <1>2. TrialInv /\ [Next]_vars => TrialInv'
    BY StepKeeps
  <1> QED  BY <1>1, <1>2, Initially, PTL DEF Spec
=============================================================================
