-------------------------- MODULE AdministratorTrial --------------------------
(***************************************************************************)
(* The evidence of an administrator trial (src/src/trial.rs) and the       *)
(* commands `trial start`, `trial event` and `trial finish`, which keep it *)
(* in two files: the session, replaced as a whole by every command, and    *)
(* the evidence, written once.                                             *)
(*                                                                         *)
(* A file is replaced by a rename, so a step here is everything up to the  *)
(* next rename; the session a command has read is what it writes again.  A *)
(* command stops, or fails to write, between any two steps.  Event and     *)
(* outcome files are written by hand, with times in any order.  Codes,     *)
(* roles and the environment only validate and are left out.               *)
(***************************************************************************)
EXTENDS Integers, Sequences, FiniteSets

CONSTANTS
  Clis,          \* command processes
  EventFiles,    \* [id, at, kind] of each event file
  OutcomeFiles,  \* [at, outcome, digest] of each outcome file
  Outputs,       \* paths the evidence may be written to
  MaxClock       \* a bound on the clock, which only `start` reads

VARIABLES
  clock,
  session,       \* the session file
  outputs,       \* the evidence at each path that exists
  cli,           \* what each command has read and still has to write
  recorded       \* history: the events acknowledged to the administrator

vars == <<clock, session, outputs, cli, recorded>>

NoSession == [started |-> -1, events |-> <<>>, finalized |-> FALSE]
Kinds == {"interaction", "explicit_input", "manual_secret_transfer", "assistance"}
Idle == [at |-> "idle"]

---------------------------------------------------------------------------
(* validate_session: the events are in order of time, none comes twice.    *)
ValidSession(s) ==
  \A i \in DOMAIN s.events :
    /\ s.started <= s.events[i].at
    /\ \A j \in 1 .. i - 1 : s.events[j].at <= s.events[i].at /\ s.events[j].id # s.events[i].id

Count(kind, events) == Cardinality({i \in DOMAIN events : events[i].kind = kind})

(* finish_trial, its refusals.                                             *)
Finishable(s, o) ==
  /\ ValidSession(s) /\ ~s.finalized
  /\ s.started <= o.at
  /\ s.events # <<>> => s.events[Len(s.events)].at <= o.at
  /\ o.outcome = "success" => o.digest

(* finish_trial, its result, which validate_evidence accepts.              *)
Evidence(s, o) ==
  [duration |-> o.at - s.started, completed |-> o.at, outcome |-> o.outcome,
   counts |-> [kind \in Kinds |-> Count(kind, s.events)],
   unassisted |-> o.outcome = "success" /\ Count("assistance", s.events) = 0]

---------------------------------------------------------------------------
(* trial start: write_private_json refuses a path that exists ...          *)
Start(c) ==
  /\ cli[c] = Idle /\ session = NoSession
  /\ cli' = [cli EXCEPT ![c] =
               [at |-> "starting", session |-> [started |-> clock, events |-> <<>>, finalized |-> FALSE]]]
  /\ UNCHANGED <<clock, session, outputs, recorded>>

(* ... and renames a new file into place.                                  *)
WriteSession(c) ==
  /\ cli[c].at = "starting"
  /\ session' = cli[c].session /\ recorded' = <<>>
  /\ cli' = [cli EXCEPT ![c] = Idle]
  /\ UNCHANGED <<clock, outputs>>

(* Broken variant: a finalized session is extended.                        *)
RecordEventLate(c, e) ==
  /\ cli[c] = Idle /\ session # NoSession
  /\ LET next == [session EXCEPT !.events = Append(@, e)] IN
     /\ ValidSession(next)
     /\ cli' = [cli EXCEPT ![c] = [at |-> "extending", session |-> next]]
  /\ UNCHANGED <<clock, session, outputs, recorded>>

(* trial event: record_event on the session that was read ...              *)
RecordEvent(c, e) ==
  /\ cli[c] = Idle /\ session # NoSession /\ ~session.finalized
  /\ LET next == [session EXCEPT !.events = Append(@, e)] IN
     /\ ValidSession(next)
     /\ cli' = [cli EXCEPT ![c] = [at |-> "extending", session |-> next]]
  /\ UNCHANGED <<clock, session, outputs, recorded>>

(* ... which replaces the file (replace_private_json).                     *)
WriteEvent(c) ==
  /\ cli[c].at = "extending"
  /\ session' = cli[c].session
  /\ recorded' = Append(recorded, session'.events[Len(session'.events)])
  /\ cli' = [cli EXCEPT ![c] = Idle]
  /\ UNCHANGED <<clock, outputs>>

(* trial finish: the evidence is made, and what is at the path compared    *)
(* with it (write_or_verify_private_json): another content is a conflict   *)
(* and ends the command.                                                   *)
Finish(c, o, path) ==
  /\ cli[c] = Idle /\ session # NoSession /\ Finishable(session, o)
  /\ path \in DOMAIN outputs => outputs[path] = Evidence(session, o)
  /\ cli' = [cli EXCEPT ![c] = [at |-> "finishing", session |-> session,
                                evidence |-> Evidence(session, o), path |-> path]]
  /\ UNCHANGED <<clock, session, outputs, recorded>>

WriteEvidence(c) ==
  /\ cli[c].at = "finishing"
  /\ outputs' = [path \in DOMAIN outputs \cup {cli[c].path} |->
                   IF path = cli[c].path THEN cli[c].evidence ELSE outputs[path]]
  /\ cli' = [cli EXCEPT ![c] = [at |-> "finalizing", session |-> cli[c].session]]
  /\ UNCHANGED <<clock, session, recorded>>

(* The session that was read is written again, as finalized.               *)
Finalize(c) ==
  /\ cli[c].at = "finalizing"
  /\ session' = [cli[c].session EXCEPT !.finalized = TRUE]
  /\ cli' = [cli EXCEPT ![c] = Idle]
  /\ UNCHANGED <<clock, outputs, recorded>>

(* A command stops or fails to write; a temporary file is left or removed. *)
Stop(c) ==
  /\ cli[c] # Idle /\ cli' = [cli EXCEPT ![c] = Idle]
  /\ UNCHANGED <<clock, session, outputs, recorded>>

Tick == clock < MaxClock /\ clock' = clock + 1 /\ UNCHANGED <<session, outputs, cli, recorded>>

Init ==
  /\ clock = 0 /\ session = NoSession /\ recorded = <<>>
  /\ outputs = [path \in {} |-> <<>>] /\ cli = [c \in Clis |-> Idle]

Trial(c) ==
  \/ Start(c) \/ WriteSession(c)
  \/ \E e \in EventFiles : RecordEvent(c, e)
  \/ WriteEvent(c)
  \/ \E o \in OutcomeFiles, path \in Outputs : Finish(c, o, path)
  \/ WriteEvidence(c) \/ Finalize(c) \/ Stop(c)

Next == Tick \/ \E c \in Clis : Trial(c)

Spec == Init /\ [][Next]_vars

---------------------------------------------------------------------------
(* Counts(n): what evidence over the first n recorded events says.         *)
Counts(n) == [kind \in Kinds |-> Count(kind, SubSeq(recorded, 1, n))]

(* Nothing that was recorded is left out of what is claimed: a session     *)
(* that is finalized has evidence that counts every acknowledged event;    *)
(* evidence from an interrupted finish counts an initial part of them, and *)
(* none claims an unassisted success over events that include assistance.  *)
EvidenceCountsEveryEvent ==
  /\ session # NoSession => session.events = recorded
  /\ session # NoSession /\ session.finalized =>
       \E path \in DOMAIN outputs : outputs[path].counts = Counts(Len(recorded))
  /\ \A path \in DOMAIN outputs :
       \E n \in 0 .. Len(recorded) :
         /\ outputs[path].counts = Counts(n)
         /\ outputs[path].unassisted => Counts(n)["assistance"] = 0
=============================================================================
