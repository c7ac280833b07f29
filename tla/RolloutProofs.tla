---------------------------- MODULE RolloutProofs ----------------------------
(***************************************************************************)
(* Later batches wait and convergence is never claimed too early, for any  *)
(* manifest, any number of command processes and any number of pauses,     *)
(* retries and stopped commands.                                           *)
(***************************************************************************)
EXTENDS Rollout, FiniteSetTheorems, WellFoundedInduction, TLAPS

---------------------------------------------------------------------------
(* A manifest is finite and its batches have no gap: there is a last one.  *)
LEMMA LeastNatural ==
  ASSUME NEW S \in SUBSET Nat, S # {}
  PROVE  \E x \in S : \A y \in S : x <= y
  <1>1. PICK x \in S : \A y \in S : <<y, x>> \notin OpToRel(<, Nat)
    BY NatLessThanWellFounded, WFMin
  <1>2. ASSUME NEW y \in S PROVE x <= y
    <2>1. <<y, x>> \in Nat \X Nat /\ <<y, x>>[1] = y /\ <<y, x>>[2] = x
      OBVIOUS
    <2>2. <<y, x>> \notin {pair \in Nat \X Nat : pair[1] < pair[2]}
      BY <1>1 DEF OpToRel
    <2>3. ~ (y < x)
      BY <2>1, <2>2
    <2> QED  BY <2>3
  <1> QED  BY <1>2

LEMMA GreatestNatural ==
  ASSUME NEW S \in SUBSET Nat, S # {}, NEW n \in Nat, \A x \in S : x <= n
  PROVE  \E x \in S : \A y \in S : y <= x
  <1> DEFINE U == {u \in Nat : \A x \in S : x <= u}
  <1>1. PICK u \in U : \A v \in U : u <= v
    BY LeastNatural
  <1>2. CASE u \in S
    BY <1>2
  <1>3. CASE u \notin S
    <2>1. PICK x \in S : TRUE
      OBVIOUS
    <2>2. \A y \in S : y < u /\ y \in Nat
      BY <1>3
    <2>3. u > 0 /\ u - 1 \in Nat
      BY <2>1, <2>2
    <2>4. u - 1 \in U
      BY <2>2, <2>3
    <2> QED  BY <1>1, <2>3, <2>4
  <1> QED  BY <1>2, <1>3

LEMMA LastBatchIsLast ==
  /\ LastBatch \in Nat
  /\ \A t \in Targets : BatchOf[t] \in 0 .. LastBatch
  <1> DEFINE S == {BatchOf[t] : t \in Targets}
             n == Cardinality(Targets)
  <1>1. S \in SUBSET Nat /\ S # {} /\ IsFiniteSet(Targets)
    BY ManifestAssumption
  <1>2. BatchOf \in Surjection(Targets, S)
    BY ManifestAssumption DEF Surjection
  <1>3. IsFiniteSet(S) /\ Cardinality(S) <= n /\ n \in Nat /\ Cardinality(S) \in Nat
    <2>1. IsFiniteSet(S) /\ Cardinality(S) <= n
      BY <1>1, <1>2, FS_Surjection
    <2> QED  BY <1>1, <2>1, FS_CardinalityType
  <1>4. ASSUME NEW t \in Targets PROVE BatchOf[t] <= n
    <2>1. BatchOf[t] \in Nat /\ 0 .. BatchOf[t] \subseteq S
      BY ManifestAssumption
    <2>2. Cardinality(0 .. BatchOf[t]) <= Cardinality(S)
      BY <1>3, <2>1, FS_Subset
    <2>3. Cardinality(0 .. BatchOf[t]) = BatchOf[t] + 1
      BY <2>1, FS_Interval
    <2> QED  BY <1>3, <2>1, <2>2, <2>3
  <1>5. \E b \in S : \A x \in S : x <= b
    <2>1. \A x \in S : x <= n
      BY <1>4
    <2> HIDE DEF S, n
    <2> QED  BY <1>1, <1>3, <2>1, GreatestNatural
  <1>6. \E b \in S : \A t \in Targets : BatchOf[t] <= b
    BY <1>5
  <1>7. LastBatch \in S /\ \A t \in Targets : BatchOf[t] <= LastBatch
    BY <1>6 DEF LastBatch
  <1> QED  BY <1>1, <1>7, ManifestAssumption

---------------------------------------------------------------------------
(* The inductive invariant.  A batch is reached when everything that holds *)
(* it back has converged at its executor, which is never undone: so what a *)
(* command read of the run stays true of its batch, however late it is     *)
(* written.                                                                *)
Reached(b) == \A u \in Targets : BatchOf[u] < b /\ Holds(u) => settled[u] = "converged"
AllSettled == \A t \in Targets : settled[t] = "converged"

RowsAreTrue == \A t \in Targets : targets[t] = "converged" => settled[t] = "converged"

CommandKnows(c) ==
  /\ c.at \in {"selecting", "deciding", "writing"} => Reached(c.batch)
  /\ \A t \in c.todo : Reached(BatchOf[t])
  /\ c.at \in {"marked", "calling", "recording", "retrying", "reopening"} =>
       c.target \in Targets /\ Reached(BatchOf[c.target])
  /\ c.at = "recording" =>
       c.reply # "none" /\ (c.reply = "converged" => settled[c.target] = "converged")
  /\ c.at = "writing" /\ c.write = "converged" => AllSettled
CommandsKnow == \A p \in Clis : CommandKnows(cli[p])

RolloutInv ==
  /\ TypeOK /\ LaterBatchesWait /\ ConvergedIsTruthful
  /\ RowsAreTrue /\ Reached(run.batch) /\ CommandsKnow

LEMMA Idle ==
  /\ Gone \in Cli /\ CommandKnows(Gone)
  BY LastBatchIsLast DEF Gone, Cli, Places, Replies, RunStates, Batches, CommandKnows

(* What a command knows stays true when others take their steps.           *)
LEMMA Monotone ==
  ASSUME UNCHANGED policy,
         \A t \in Targets : settled[t] = "converged" => settled'[t] = "converged"
  PROVE  /\ \A b : Reached(b) => Reached(b)'
         /\ AllSettled => AllSettled'
         /\ \A c : CommandKnows(c) => CommandKnows(c)'
  <1>1. \A b : Reached(b) => Reached(b)'
    BY DEF Reached, Holds
  <1>2. AllSettled => AllSettled'
    BY DEF AllSettled
  <1> QED  BY <1>1, <1>2 DEF CommandKnows

(* What has to be shown of a step of command p.                            *)
LEMMA StepOf ==
  ASSUME RolloutInv, NEW p \in Clis, NEW c \in Cli,
         cli' = [cli EXCEPT ![p] = c], CommandKnows(c)',
         UNCHANGED policy, settled' \in [Targets -> Outcomes \cup {"none"}],
         \A t \in Targets : settled[t] = "converged" => settled'[t] = "converged",
         targets' \in [Targets -> TargetStates], LaterBatchesWait', RowsAreTrue',
         run' \in Run, Reached(run.batch)', ConvergedIsTruthful',
         signed' \in [Targets -> TargetStates], commands' \in 0 .. MaxCommands
  PROVE  RolloutInv'
  <1>1. TypeOK'
    BY DEF RolloutInv, TypeOK
  <1>2. ASSUME NEW q \in Clis PROVE CommandKnows(cli[q])'
    <2>1. CASE q = p
      <3>1. cli'[q] = c
        BY <2>1 DEF RolloutInv, TypeOK
      <3> QED  BY <3>1 DEF CommandKnows
    <2>2. CASE q # p
      <3>1. cli'[q] = cli[q] /\ CommandKnows(cli[q])
        BY <2>2 DEF RolloutInv, TypeOK, CommandsKnow
      <3> QED  BY <3>1, Monotone DEF CommandKnows
    <2> QED  BY <2>1, <2>2
  <1>3. CommandsKnow'
    BY <1>2 DEF CommandsKnow
  <1> QED  BY <1>1, <1>3 DEF RolloutInv

(* ... when it writes nothing but what it knows itself.                    *)
LEMMA QuietStepOf ==
  ASSUME RolloutInv, NEW p \in Clis, NEW c \in Cli,
         cli' = [cli EXCEPT ![p] = c], CommandKnows(c),
         UNCHANGED <<policy, run, targets, settled, signed>>, commands' \in 0 .. MaxCommands
  PROVE  RolloutInv'
  <1>1. CommandKnows(c)' /\ Reached(run.batch)'
    BY Monotone DEF RolloutInv
  <1>2. LaterBatchesWait' /\ RowsAreTrue' /\ ConvergedIsTruthful'
    BY DEF RolloutInv, LaterBatchesWait, Holds, RowsAreTrue, ConvergedIsTruthful
  <1> QED  BY <1>1, <1>2, StepOf DEF RolloutInv, TypeOK

LEMMA ClisAreTyped ==
  ASSUME RolloutInv, NEW p \in Clis
  PROVE  cli[p] \in Cli /\ CommandKnows(cli[p])
  BY DEF RolloutInv, TypeOK, CommandsKnow

---------------------------------------------------------------------------
(* The steps of a command.                                                 *)
LEMMA Leaving ==
  ASSUME RolloutInv, NEW p \in Clis, Leave(p),
         UNCHANGED <<policy, run, targets, settled, signed>>, commands' \in 0 .. MaxCommands
  PROVE  RolloutInv'
  BY Idle, QuietStepOf DEF Leave

LEMMA StartBatchKeeps ==
  ASSUME RolloutInv, NEW p \in Clis, StartBatch(p)
  PROVE  RolloutInv'
  <1> DEFINE c == [cli[p] EXCEPT !.at = "selecting", !.batch = run.batch]
  <1>1. cli[p] \in Cli /\ CommandKnows(cli[p]) /\ run.batch \in Batches /\ Reached(run.batch)
    BY ClisAreTyped DEF RolloutInv, TypeOK, Run
  <1>2. c \in Cli /\ CommandKnows(c)
    BY <1>1 DEF Cli, Places, CommandKnows
  <1>3. cli' = [cli EXCEPT ![p] = c]
    BY DEF StartBatch
  <1> HIDE DEF c
  <1> QED  BY <1>2, <1>3, QuietStepOf DEF StartBatch, RolloutInv, TypeOK

LEMMA SelectTargetsKeeps ==
  ASSUME RolloutInv, NEW p \in Clis, SelectTargets(p)
  PROVE  RolloutInv'
  <1> DEFINE todo == {t \in InBatch(cli[p].batch) : Open(t)}
             c == [Gone EXCEPT !.at = "next", !.todo = todo]
  <1>1. cli[p] \in Cli /\ CommandKnows(cli[p]) /\ cli[p].at = "selecting"
    BY ClisAreTyped DEF SelectTargets
  <1>2. CASE todo = {}
    BY <1>2, Leaving DEF SelectTargets, RolloutInv, TypeOK
  <1>3. CASE todo # {}
    <2>1. todo \subseteq Targets /\ \A t \in todo : Reached(BatchOf[t])
      BY <1>1 DEF InBatch, CommandKnows
    <2>2. c \in Cli /\ CommandKnows(c)
      <3> HIDE DEF todo
      <3> QED  BY <2>1, Idle DEF Gone, Cli, Places, CommandKnows
    <2>3. cli' = [cli EXCEPT ![p] = c]
      BY <1>3 DEF SelectTargets
    <2> HIDE DEF c
    <2> QED  BY <2>2, <2>3, QuietStepOf DEF SelectTargets, RolloutInv, TypeOK
  <1> QED  BY <1>2, <1>3

LEMMA MarkTargetKeeps ==
  ASSUME RolloutInv, NEW p \in Clis, MarkTarget(p)
  PROVE  RolloutInv'
  <1> PICK t \in cli[p].todo :
        IF Open(t)
        THEN /\ targets' = [targets EXCEPT ![t] = "running"]
             /\ cli' = [cli EXCEPT ![p].at = "marked", ![p].target = t, ![p].todo = @ \ {t}]
        ELSE Leave(p) /\ UNCHANGED targets
    BY DEF MarkTarget
  <1>0. PICK c : c = [cli[p] EXCEPT !.at = "marked", !.target = t, !.todo = @ \ {t}]
    OBVIOUS
  <1>1. /\ cli[p] \in Cli /\ CommandKnows(cli[p])
        /\ t \in Targets /\ Reached(BatchOf[t])
    BY ClisAreTyped DEF Cli, CommandKnows
  <1>2. CASE Open(t)
    <2>1. c \in Cli /\ CommandKnows(c)
      BY <1>0, <1>1 DEF Cli, Places, CommandKnows
    <2>2. /\ cli' = [cli EXCEPT ![p] = c] /\ targets' = [targets EXCEPT ![t] = "running"]
          /\ UNCHANGED <<policy, run, settled, signed, commands>>
      BY <1>0, <1>2 DEF MarkTarget
    <2>3. targets' \in [Targets -> TargetStates]
      BY <2>2 DEF RolloutInv, TypeOK, TargetStates
    <2>4. LaterBatchesWait' /\ RowsAreTrue' /\ ConvergedIsTruthful'
      BY <1>1, <2>2 DEF RolloutInv, TypeOK, LaterBatchesWait, Holds, Reached, RowsAreTrue, ConvergedIsTruthful
    <2>5. CommandKnows(c)' /\ Reached(run.batch)'
      BY <2>1, <2>2, Monotone DEF RolloutInv
    <2> QED  BY <2>1, <2>2, <2>3, <2>4, <2>5, StepOf DEF RolloutInv, TypeOK
  <1>3. CASE ~Open(t)
    BY <1>3, Leaving DEF MarkTarget, RolloutInv, TypeOK
  <1> QED  BY <1>2, <1>3

LEMMA MarkRunKeeps ==
  ASSUME RolloutInv, NEW p \in Clis, MarkRun(p)
  PROVE  RolloutInv'
  <1>0. PICK c : c = [cli[p] EXCEPT !.at = "calling"]
    OBVIOUS
  <1>1. c \in Cli /\ CommandKnows(c)
    BY <1>0, ClisAreTyped DEF MarkRun, Cli, Places, CommandKnows
  <1>2. cli' = [cli EXCEPT ![p] = c] /\ UNCHANGED <<policy, targets, settled, signed, commands>>
    BY <1>0 DEF MarkRun, Goto
  <1>3. /\ run' \in Run /\ run'.batch = run.batch
        /\ run'.state = "converged" => run.state = "converged"
    BY DEF MarkRun, RolloutInv, TypeOK, Run, RunStates
  <1>4. CommandKnows(c)' /\ Reached(run.batch)'
    <2>1. Reached(run.batch)
      BY DEF RolloutInv
    <2> QED  BY <1>1, <1>2, <1>3, <2>1, Monotone DEF Reached, Holds
  <1>5. LaterBatchesWait' /\ RowsAreTrue' /\ ConvergedIsTruthful'
    BY <1>2, <1>3 DEF RolloutInv, LaterBatchesWait, Holds, RowsAreTrue, ConvergedIsTruthful
  <1> QED  BY <1>1, <1>2, <1>3, <1>4, <1>5, StepOf DEF RolloutInv, TypeOK

(* An executor settles its operation once: what has converged stays so.    *)
LEMMA CallKeeps ==
  ASSUME RolloutInv, NEW p \in Clis, NEW outcome \in Outcomes, NEW reply \in Replies,
         Call(p, outcome, reply)
  PROVE  RolloutInv'
  <1>0. PICK c, u : c = [cli[p] EXCEPT !.at = "recording", !.reply = reply] /\ u = cli[p].target
    OBVIOUS
  <1>1. /\ cli[p] \in Cli /\ CommandKnows(cli[p]) /\ cli[p].at = "calling" /\ u \in Targets
        /\ cli' = [cli EXCEPT ![p] = c] /\ UNCHANGED <<policy, run, targets, signed, commands>>
    BY <1>0, ClisAreTyped DEF Call, CommandKnows
  <1>2. /\ settled' \in [Targets -> Outcomes \cup {"none"}]
        /\ \A t \in Targets : settled[t] = "converged" => settled'[t] = "converged"
    BY <1>0, <1>1 DEF Call, RolloutInv, TypeOK
  <1>3. reply # "none" /\ (reply = "converged" => settled'[u] = "converged")
    BY <1>0, <1>1 DEF Call, RolloutInv, TypeOK, Outcomes
  <1>4. c \in Cli
    BY <1>0, <1>1 DEF Cli, Places
  <1>5. CommandKnows(c)' /\ Reached(run.batch)'
    <2>1. CommandKnows(cli[p]) /\ Reached(run.batch)
      BY <1>1 DEF RolloutInv
    <2>2. /\ \A b : Reached(b) => Reached(b)'
          /\ Reached(run.batch)'
      BY <1>1, <1>2, <2>1, Monotone DEF Reached, Holds
    <2>3. /\ c.at = "recording" /\ c.todo = cli[p].todo /\ c.target = u /\ c.reply = reply
      BY <1>0, <1>1 DEF Cli
    <2>4. Reached(BatchOf[u])' /\ \A t \in c.todo : Reached(BatchOf[t])'
      BY <1>0, <1>1, <2>2, <2>3 DEF CommandKnows
    <2> QED  BY <1>1, <1>3, <2>2, <2>3, <2>4 DEF CommandKnows
  <1>6. LaterBatchesWait' /\ RowsAreTrue' /\ ConvergedIsTruthful'
    BY <1>1, <1>2 DEF RolloutInv, LaterBatchesWait, Holds, RowsAreTrue, ConvergedIsTruthful
  <1> QED  BY <1>1, <1>2, <1>4, <1>5, <1>6, StepOf DEF RolloutInv, TypeOK

LEMMA RecordedState ==
  \A reply \in Replies \ {"none"} :
    /\ Recorded(reply) \in TargetStates \ {"pending", "running"}
    /\ Recorded(reply) = "converged" => reply = "converged"
  BY DEF Replies, Outcomes, Recorded, TargetStates

LEMMA RecordKeeps ==
  ASSUME RolloutInv, NEW p \in Clis, Record(p)
  PROVE  RolloutInv'
  <1>0. PICK c, u : c = [cli[p] EXCEPT !.at = "recalculating"] /\ u = cli[p].target
    OBVIOUS
  <1>1. /\ cli[p] \in Cli /\ CommandKnows(cli[p]) /\ cli[p].at = "recording" /\ u \in Targets
        /\ cli[p].reply \in Replies \ {"none"}
        /\ cli[p].reply = "converged" => settled[u] = "converged"
        /\ UNCHANGED <<policy, run, settled, signed, commands>>
    BY <1>0, ClisAreTyped DEF Record, CommandKnows, Cli
  <1>2. c \in Cli /\ CommandKnows(c)
    BY <1>0, <1>1 DEF Cli, Places, CommandKnows
  <1>3. CASE Open(u) \/ targets[u] = "deferred"
    <2>1. cli' = [cli EXCEPT ![p] = c] /\ targets' = [targets EXCEPT ![u] = Recorded(cli[p].reply)]
      BY <1>0, <1>3 DEF Record, Goto
    <2>2. targets' \in [Targets -> TargetStates]
      BY <1>1, <2>1, RecordedState DEF RolloutInv, TypeOK
    <2>3. RowsAreTrue'
      BY <1>1, <2>1, RecordedState DEF RolloutInv, TypeOK, RowsAreTrue
    <2>4. LaterBatchesWait' /\ ConvergedIsTruthful'
      <3>1. Reached(BatchOf[u])
        BY <1>0, <1>1 DEF CommandKnows
      <3> QED
        BY <1>1, <2>1, <3>1
           DEF RolloutInv, TypeOK, LaterBatchesWait, Holds, Reached, ConvergedIsTruthful
    <2>5. CommandKnows(c)' /\ Reached(run.batch)'
      BY <1>1, <1>2, Monotone DEF RolloutInv
    <2> QED  BY <1>1, <1>2, <2>1, <2>2, <2>3, <2>4, <2>5, StepOf DEF RolloutInv, TypeOK
  <1>4. CASE ~(Open(u) \/ targets[u] = "deferred")
    <2>1. cli' = [cli EXCEPT ![p] = c] \/ Leave(p)
      BY <1>0, <1>4 DEF Record, Goto
    <2>2. UNCHANGED targets
      BY <1>0, <1>4 DEF Record
    <2> QED  BY <1>1, <1>2, <2>1, <2>2, QuietStepOf, Leaving DEF RolloutInv, TypeOK
  <1> QED  BY <1>3, <1>4

LEMMA ReadRunKeeps ==
  ASSUME RolloutInv, NEW p \in Clis, ReadRun(p)
  PROVE  RolloutInv'
  <1>0. PICK c : c = [cli[p] EXCEPT !.at = "deciding", !.batch = run.batch, !.reply = "none",
                                    !.target = "none"]
    OBVIOUS
  <1>1. cli[p] \in Cli /\ CommandKnows(cli[p]) /\ run.batch \in Batches /\ Reached(run.batch)
    BY ClisAreTyped DEF RolloutInv, TypeOK, Run
  <1>2. c \in Cli /\ CommandKnows(c)
    BY <1>0, <1>1 DEF Cli, Places, Replies, CommandKnows
  <1>3. cli' = [cli EXCEPT ![p] = c]
    BY <1>0 DEF ReadRun
  <1> QED  BY <1>2, <1>3, QuietStepOf DEF ReadRun, RolloutInv, TypeOK

(* A run goes on only from a batch that nothing after it has to wait for.  *)
LEMMA DispositionIsSound ==
  ASSUME RolloutInv, NEW b \in Batches, Reached(b)
  PROVE  /\ Disposition(b).state \in RunStates
         /\ Disposition(b).batch \in Batches /\ Reached(Disposition(b).batch)
         /\ Disposition(b).state = "converged" => AllSettled
  <1>0. LastBatch \in Nat /\ b \in 0 .. LastBatch
    BY LastBatchIsLast DEF Batches
  <1>1. CASE 0 < b /\ b = LastBatch /\ Unconverged(b) # {}
    BY <1>1 DEF Disposition, RunStates
  <1>2. CASE /\ ~(0 < b /\ b = LastBatch /\ Unconverged(b) # {})
             /\ \/ Unconverged(b) \cap Required # {}
                \/ Unconverged(b) # {} /\ policy = "stop_and_hold"
    BY <1>2 DEF Disposition, RunStates
  <1>3. CASE /\ Unconverged(b) \cap Required = {}
             /\ Unconverged(b) = {} \/ policy # "stop_and_hold"
             /\ b < LastBatch
    <2>1. Disposition(b) = [state |-> "running", batch |-> b + 1]
      BY <1>0, <1>3 DEF Disposition
    <2>2. b + 1 \in Batches
      BY <1>0, <1>3 DEF Batches
    <2>3. Reached(b + 1)
      <3> SUFFICES ASSUME NEW u \in Targets, BatchOf[u] < b + 1, Holds(u)
                   PROVE  settled[u] = "converged"
        BY DEF Reached
      <3>1. CASE BatchOf[u] = b
        <4>1. u \notin Unconverged(b)
          BY <1>3 DEF Holds
        <4> QED  BY <3>1, <4>1 DEF Unconverged, InBatch, RolloutInv, RowsAreTrue
      <3>2. CASE BatchOf[u] # b
        BY <1>0, <3>2, LastBatchIsLast DEF Reached
      <3> QED  BY <3>1, <3>2
    <2> QED  BY <2>1, <2>2, <2>3 DEF RunStates
  <1>4. CASE /\ ~(0 < b /\ b = LastBatch /\ Unconverged(b) # {})
             /\ Unconverged(b) \cap Required = {}
             /\ Unconverged(b) = {} \/ policy # "stop_and_hold"
             /\ ~(b < LastBatch)
    <2>1. Disposition(b) = [batch |-> b, state |-> IF \A t \in Targets : targets[t] = "converged"
                                                   THEN "converged" ELSE "partially_converged"]
      BY <1>4 DEF Disposition
    <2> QED  BY <2>1 DEF RunStates, AllSettled, RolloutInv, RowsAreTrue
  <1> QED  BY <1>1, <1>2, <1>3, <1>4

LEMMA DecideKeeps ==
  ASSUME RolloutInv, NEW p \in Clis, Decide(p)
  PROVE  RolloutInv'
  <1>0. PICK b, d, c : /\ b = cli[p].batch /\ d = Disposition(b)
                       /\ c = [cli[p] EXCEPT !.at = "writing", !.write = d.state, !.batch = d.batch]
    OBVIOUS
  <1>1. cli[p] \in Cli /\ CommandKnows(cli[p]) /\ cli[p].at = "deciding" /\ b \in Batches /\ Reached(b)
    BY <1>0, ClisAreTyped DEF Decide, Cli, CommandKnows
  <1>2. c \in Cli /\ CommandKnows(c)
    <2>1. /\ d.state \in RunStates /\ d.batch \in Batches /\ Reached(d.batch)
          /\ d.state = "converged" => AllSettled
      BY <1>0, <1>1, DispositionIsSound
    <2> QED  BY <1>0, <1>1, <2>1 DEF Cli, Places, CommandKnows
  <1>3. PICK e : e = [cli[p] EXCEPT !.at = "recorded"]
    OBVIOUS
  <1>4. e \in Cli /\ CommandKnows(e)
    BY <1>1, <1>3 DEF Cli, Places, CommandKnows
  <1>5. cli' = [cli EXCEPT ![p] = c] \/ cli' = [cli EXCEPT ![p] = e]
    BY <1>0, <1>3 DEF Decide, Goto
  <1> QED  BY <1>2, <1>4, <1>5, QuietStepOf DEF Decide, RolloutInv, TypeOK

LEMMA NewVersionTypes ==
  ASSUME RolloutInv, NewVersion
  PROVE  signed' \in [Targets -> TargetStates]
  BY DEF RolloutInv, TypeOK, NewVersion, Unsigned, TargetStates

(* What was decided from stale reads is written: it is true all the same.  *)
LEMMA WriteKeeps ==
  ASSUME RolloutInv, NEW p \in Clis, Write(p)
  PROVE  RolloutInv'
  <1>0. PICK c : c = [cli[p] EXCEPT !.at = "recorded"]
    OBVIOUS
  <1>1. /\ cli[p] \in Cli /\ CommandKnows(cli[p]) /\ cli[p].at = "writing"
        /\ cli[p].batch \in Batches /\ cli[p].write \in RunStates
        /\ Reached(cli[p].batch) /\ (cli[p].write = "converged" => AllSettled)
    BY ClisAreTyped DEF Write, Cli, CommandKnows
  <1>2. c \in Cli /\ CommandKnows(c)
    BY <1>0, <1>1 DEF Cli, Places, CommandKnows
  <1>3. cli' = [cli EXCEPT ![p] = c] /\ UNCHANGED <<policy, targets, settled, commands>>
    BY <1>0 DEF Write, Goto
  <1>4. run' \in Run /\ run'.batch = cli[p].batch /\ run'.state = cli[p].write
    BY <1>1 DEF Write, RolloutInv, TypeOK, Run
  <1>5. CommandKnows(c)' /\ Reached(run.batch)' /\ ConvergedIsTruthful'
    <2>1. CommandKnows(c)'
      BY <1>2, <1>3, Monotone
    <2>2. Reached(run.batch)'
      BY <1>1, <1>3, <1>4 DEF Reached, Holds
    <2>3. ConvergedIsTruthful'
      BY <1>1, <1>3, <1>4 DEF AllSettled, ConvergedIsTruthful
    <2> QED  BY <2>1, <2>2, <2>3
  <1>6. LaterBatchesWait' /\ RowsAreTrue'
    BY <1>3 DEF RolloutInv, LaterBatchesWait, Holds, RowsAreTrue
  <1>7. signed' \in [Targets -> TargetStates]
    BY NewVersionTypes DEF Write
  <1> QED  BY <1>2, <1>3, <1>4, <1>5, <1>6, <1>7, StepOf DEF RolloutInv, TypeOK

LEMMA ContinueKeeps ==
  ASSUME RolloutInv, NEW p \in Clis, Continue(p)
  PROVE  RolloutInv'
  <1>0. PICK c : c = [Gone EXCEPT !.at = "next", !.todo = cli[p].todo]
    OBVIOUS
  <1>1. c \in Cli /\ CommandKnows(c)
    BY <1>0, Idle, ClisAreTyped DEF Gone, Cli, Places, CommandKnows
  <1>2. cli' = [cli EXCEPT ![p] = c] \/ Leave(p)
    BY <1>0 DEF Continue
  <1> QED  BY <1>1, <1>2, QuietStepOf, Leaving DEF Continue, RolloutInv, TypeOK

LEMMA CommandCounts ==
  ASSUME RolloutInv, Command
  PROVE  commands' \in 0 .. MaxCommands
  BY CommandsAssumption DEF RolloutInv, TypeOK, Command

LEMMA StartRetryKeeps ==
  ASSUME RolloutInv, NEW p \in Clis, NEW t \in Targets, StartRetry(p, t)
  PROVE  RolloutInv'
  <1>0. PICK c : c = [cli[p] EXCEPT !.at = "retrying", !.retry = TRUE, !.target = t]
    OBVIOUS
  <1>1. Reached(BatchOf[t])
    BY DEF StartRetry, RolloutInv, LaterBatchesWait, Reached
  <1>2. c \in Cli /\ CommandKnows(c)
    BY <1>0, <1>1, ClisAreTyped DEF Cli, Places, CommandKnows
  <1>3. cli' = [cli EXCEPT ![p] = c]
    BY <1>0 DEF StartRetry
  <1> QED  BY <1>2, <1>3, QuietStepOf, CommandCounts DEF StartRetry

LEMMA RetryTargetKeeps ==
  ASSUME RolloutInv, NEW p \in Clis, RetryTarget(p)
  PROVE  RolloutInv'
  <1>0. PICK c, u : c = [cli[p] EXCEPT !.at = "reopening"] /\ u = cli[p].target
    OBVIOUS
  <1>1. /\ cli[p] \in Cli /\ CommandKnows(cli[p]) /\ cli[p].at = "retrying"
        /\ u \in Targets /\ Reached(BatchOf[u])
    BY <1>0, ClisAreTyped DEF RetryTarget, CommandKnows
  <1>2. c \in Cli /\ CommandKnows(c)
    BY <1>0, <1>1 DEF Cli, Places, CommandKnows
  <1>3. /\ cli' = [cli EXCEPT ![p] = c] /\ targets' = [targets EXCEPT ![u] = "running"]
        /\ UNCHANGED <<policy, run, settled, signed, commands>>
    BY <1>0 DEF RetryTarget, Goto
  <1>4. targets' \in [Targets -> TargetStates]
    BY <1>3 DEF RolloutInv, TypeOK, TargetStates
  <1>5. LaterBatchesWait' /\ RowsAreTrue' /\ ConvergedIsTruthful'
    BY <1>1, <1>3 DEF RolloutInv, TypeOK, LaterBatchesWait, Holds, Reached, RowsAreTrue, ConvergedIsTruthful
  <1>6. CommandKnows(c)' /\ Reached(run.batch)'
    BY <1>2, <1>3, Monotone DEF RolloutInv
  <1> QED  BY <1>2, <1>3, <1>4, <1>5, <1>6, StepOf DEF RolloutInv, TypeOK

LEMMA RetryRunKeeps ==
  ASSUME RolloutInv, NEW p \in Clis, RetryRun(p)
  PROVE  RolloutInv'
  <1>0. PICK c : c = [cli[p] EXCEPT !.at = "calling"]
    OBVIOUS
  <1>1. c \in Cli /\ CommandKnows(c) /\ Gone \in Cli /\ CommandKnows(Gone)
    BY <1>0, Idle, ClisAreTyped DEF RetryRun, Cli, Places, CommandKnows
  <1>2. /\ cli' = [cli EXCEPT ![p] = c] \/ cli' = [cli EXCEPT ![p] = Gone]
        /\ UNCHANGED <<policy, targets, settled, commands>>
    BY <1>0 DEF RetryRun, Goto, Leave
  <1>3. run' \in Run /\ run'.batch = run.batch /\ run'.state = "running"
    BY DEF RetryRun, RolloutInv, TypeOK, Run, RunStates
  <1>4. CommandKnows(c)' /\ \A e : e = Gone => CommandKnows(e)'
    BY <1>1, <1>2, Monotone
  <1>5. Reached(run.batch)' /\ LaterBatchesWait' /\ RowsAreTrue' /\ ConvergedIsTruthful'
    BY <1>2, <1>3
       DEF RolloutInv, Reached, LaterBatchesWait, Holds, RowsAreTrue, ConvergedIsTruthful
  <1>6. signed' \in [Targets -> TargetStates]
    BY NewVersionTypes DEF RetryRun
  <1> QED  BY <1>1, <1>2, <1>3, <1>4, <1>5, <1>6, StepOf DEF RolloutInv, TypeOK

LEMMA CrashKeeps ==
  ASSUME RolloutInv, NEW p \in Clis, Crash(p)
  PROVE  RolloutInv'
  BY Leaving, CommandCounts DEF Crash

---------------------------------------------------------------------------
(* The steps of administrators: of the run they change its state only.     *)
LEMMA AdministratorKeeps ==
  ASSUME RolloutInv, Pause \/ Resume \/ Sign \/ AcceptPartial
  PROVE  RolloutInv'
  <1>1. /\ UNCHANGED <<policy, targets, settled, cli>>
        /\ run' \in Run /\ run'.batch = run.batch
        /\ run'.state = "converged" => run.state = "converged"
    BY DEF Pause, Resume, Transition, Sign, AcceptPartial, RolloutInv, TypeOK, Run, RunStates
  <1>2. signed' \in [Targets -> TargetStates] /\ commands' \in 0 .. MaxCommands
    BY NewVersionTypes, CommandCounts
       DEF Pause, Resume, Transition, Sign, AcceptPartial, RolloutInv, TypeOK
  <1>3. CommandsKnow'
    BY <1>1, Monotone DEF RolloutInv, CommandsKnow, CommandKnows
  <1> QED
    BY <1>1, <1>2, <1>3
       DEF RolloutInv, TypeOK, Reached, LaterBatchesWait, Holds, RowsAreTrue, ConvergedIsTruthful

LEMMA UnchangedKeeps ==
  ASSUME RolloutInv, UNCHANGED vars
  PROVE  RolloutInv'
  <1>1. CommandsKnow'
    BY Monotone DEF vars, RolloutInv, CommandsKnow, CommandKnows
  <1> QED
    BY <1>1 DEF vars, RolloutInv, TypeOK, Reached, LaterBatchesWait, Holds, RowsAreTrue, ConvergedIsTruthful

---------------------------------------------------------------------------
LEMMA RolloutInvInit == Init => RolloutInv
  <1> SUFFICES ASSUME Init PROVE RolloutInv
    OBVIOUS
  <1>1. TypeOK
    BY Idle, LastBatchIsLast, CommandsAssumption
       DEF Init, TypeOK, Run, FreshRun, RunStates, TargetStates, Batches, Unsigned
  <1>2. Reached(run.batch)
    BY ManifestAssumption DEF Init, FreshRun, Reached
  <1>3. CommandsKnow
    BY Idle DEF Init, CommandsKnow
  <1> QED
    BY <1>1, <1>2, <1>3
       DEF Init, FreshRun, RolloutInv, LaterBatchesWait, ConvergedIsTruthful, RowsAreTrue

LEMMA RolloutInvStep == RolloutInv /\ [Next]_vars => RolloutInv'
  <1> SUFFICES ASSUME RolloutInv, [Next]_vars PROVE RolloutInv'
    OBVIOUS
  <1>1. ASSUME NEW p \in Clis, Step(p) PROVE RolloutInv'
    BY <1>1, SelectTargetsKeeps, MarkTargetKeeps, MarkRunKeeps, CallKeeps, RecordKeeps, ReadRunKeeps,
       DecideKeeps, WriteKeeps, ContinueKeeps, RetryTargetKeeps, RetryRunKeeps DEF Step
  <1>2. ASSUME NEW p \in Clis, StartBatch(p) \/ Crash(p) \/ \E t \in Targets : StartRetry(p, t)
        PROVE  RolloutInv'
    BY <1>2, StartBatchKeeps, CrashKeeps, StartRetryKeeps
  <1>3. CASE Pause \/ Resume \/ Sign \/ AcceptPartial
    BY <1>3, AdministratorKeeps
  <1>4. CASE UNCHANGED vars
    BY <1>4, UnchangedKeeps
  <1> QED  BY <1>1, <1>2, <1>3, <1>4 DEF Next

(* The inductive invariant of the ledger and the commands that share it.   *)
THEOREM RolloutInvAlways == Spec => []RolloutInv
  <1> QED  BY RolloutInvInit, RolloutInvStep, PTL DEF Spec

(* Types are kept: in particular a run never points beyond its last batch, *)
(* whatever stale disposition is written.                                  *)
THEOREM TypeCorrect == Spec => []TypeOK
  <1>1. RolloutInv => TypeOK
    BY DEF RolloutInv
  <1> QED  BY <1>1, RolloutInvAlways, PTL

(* No target is started before everything that holds back its batch has    *)
(* converged at its executor (runnable_targets, recalculate,               *)
(* prepare_retry).                                                         *)
THEOREM LaterBatchesWaitAlways == Spec => []LaterBatchesWait
  <1>1. RolloutInv => LaterBatchesWait
    BY DEF RolloutInv
  <1> QED  BY <1>1, RolloutInvAlways, PTL

(* A run that is reported as converged has converged at every executor     *)
(* (recalculate).                                                          *)
THEOREM ConvergedIsTruthfulAlways == Spec => []ConvergedIsTruthful
  <1>1. RolloutInv => ConvergedIsTruthful
    BY DEF RolloutInv
  <1> QED  BY <1>1, RolloutInvAlways, PTL

(* Only prepare_retry takes a deferred target back to running.             *)
THEOREM RetriesAreExplicitAlways == Spec => RetriesAreExplicit
  <1> DEFINE Explicit(t) ==
               targets[t] = "deferred" /\ targets'[t] = "running" =>
                 \E p \in Clis : cli[p].at = "retrying" /\ cli[p].target = t
  <1>1. RolloutInv /\ [Next]_vars => [\A t \in Targets : Explicit(t)]_vars
    <2> SUFFICES ASSUME RolloutInv, Next, NEW t \in Targets,
                        targets[t] = "deferred", targets'[t] = "running"
                 PROVE  \E p \in Clis : cli[p].at = "retrying" /\ cli[p].target = t
      OBVIOUS
    <2>1. targets' # targets /\ targets \in [Targets -> TargetStates]
      BY DEF RolloutInv, TypeOK
    <2>2. ASSUME NEW p \in Clis, MarkTarget(p) PROVE FALSE
      BY <2>1, <2>2 DEF MarkTarget, Open
    <2>3. ASSUME NEW p \in Clis, Record(p) PROVE FALSE
      <3>1. cli[p].reply \in Replies \ {"none"}
        BY <2>3, ClisAreTyped DEF Record, Cli, CommandKnows
      <3> QED  BY <2>1, <2>3, <3>1, RecordedState DEF Record
    <2>4. ASSUME NEW p \in Clis, RetryTarget(p)
          PROVE  cli[p].at = "retrying" /\ cli[p].target = t
      BY <2>1, <2>4 DEF RetryTarget
    <2>5. \E p \in Clis : MarkTarget(p) \/ Record(p) \/ RetryTarget(p)
      BY <2>1 DEF Next, Step, StartBatch, SelectTargets, MarkRun, Call, ReadRun, Decide, Write, Continue,
           StartRetry, RetryRun, Crash, Pause, Resume, Transition, Sign, AcceptPartial
    <2> QED  BY <2>2, <2>3, <2>4, <2>5
  <1>2. [][\A t \in Targets : Explicit(t)]_vars => RetriesAreExplicit
    BY PTL DEF RetriesAreExplicit
  <1> QED  BY <1>1, <1>2, RolloutInvAlways, PTL DEF Spec

---------------------------------------------------------------------------
(* The ledger implements a staged rollout (StagedRollout).  A command that *)
(* is about to call an executor, or to write what it answered, has marked  *)
(* its target, and nothing takes the mark back.                            *)
Opened == {t \in Targets : targets[t] # "pending"}
Marked == {"marked", "calling", "recording", "retrying", "reopening"}
MarkedAreOpen == \A p \in Clis : cli[p].at \in Marked => cli[p].target \in Opened

LEMMA MarkedTarget ==
  ASSUME RolloutInv, MarkedAreOpen, NEW p \in Clis, cli[p].at \in Marked
  PROVE  cli[p].target \in Targets /\ targets[cli[p].target] # "pending"
  BY ClisAreTyped DEF MarkedAreOpen, Marked, Opened

LEMMA RecordOpens ==
  ASSUME RolloutInv, MarkedAreOpen, NEW p \in Clis, Record(p)
  PROVE  UNCHANGED <<policy, run, settled>> /\ Opened' = Opened
  <1>1. /\ cli[p].target \in Targets /\ targets[cli[p].target] # "pending"
        /\ cli[p].reply \in Replies \ {"none"}
    BY MarkedTarget, ClisAreTyped DEF Record, Marked, CommandKnows, Cli
  <1> QED  BY <1>1, RecordedState DEF Record, Opened, RolloutInv, TypeOK

LEMMA RetryOpens ==
  ASSUME RolloutInv, MarkedAreOpen, NEW p \in Clis, RetryTarget(p)
  PROVE  UNCHANGED <<policy, run, settled>> /\ Opened' = Opened
  <1>1. cli[p].target \in Targets /\ targets[cli[p].target] # "pending"
    BY MarkedTarget DEF RetryTarget, Marked
  <1> QED  BY <1>1 DEF RetryTarget, Opened, RolloutInv, TypeOK

(* Marking opens one target at most, whose batch is reached.               *)
LEMMA MarkOpens ==
  ASSUME RolloutInv, NEW p \in Clis, MarkTarget(p)
  PROVE  /\ UNCHANGED <<policy, run, settled>>
         /\ \/ Opened' = Opened
            \/ \E t \in Targets \ Opened : Reached(BatchOf[t]) /\ Opened' = Opened \cup {t}
  <1>1. /\ cli[p].todo \subseteq Targets
        /\ \A t \in cli[p].todo : Reached(BatchOf[t])
    BY ClisAreTyped DEF Cli, CommandKnows
  <1>2. PICK t \in cli[p].todo :
          IF Open(t) THEN targets' = [targets EXCEPT ![t] = "running"] ELSE UNCHANGED targets
    BY DEF MarkTarget
  <1>3. UNCHANGED <<policy, run, settled>>
    BY DEF MarkTarget
  <1>4. CASE Open(t)
    <2>1. t \in Targets /\ targets' = [targets EXCEPT ![t] = "running"] /\ targets \in [Targets -> TargetStates]
      BY <1>1, <1>2, <1>4 DEF RolloutInv, TypeOK
    <2>2. Opened' = Opened \cup {t}
      BY <2>1 DEF Opened
    <2> QED  BY <1>1, <1>3, <2>1, <2>2
  <1>5. CASE ~Open(t)
    BY <1>2, <1>3, <1>5 DEF Opened
  <1> QED  BY <1>4, <1>5

LEMMA OpenedStay ==
  ASSUME RolloutInv, MarkedAreOpen, [Next]_vars
  PROVE  Opened \subseteq Opened'
  <1>1. ASSUME NEW p \in Clis, MarkTarget(p) \/ Record(p) \/ RetryTarget(p) PROVE Opened \subseteq Opened'
    BY <1>1, MarkOpens, RecordOpens, RetryOpens
  <1>2. CASE UNCHANGED targets
    BY <1>2 DEF Opened
  <1>3. UNCHANGED targets \/ \E p \in Clis : MarkTarget(p) \/ Record(p) \/ RetryTarget(p)
    BY DEF Next, Step, StartBatch, SelectTargets, MarkRun, Call, ReadRun, Decide, Write, Continue,
       StartRetry, RetryRun, Crash, Pause, Resume, Transition, Sign, AcceptPartial, vars
  <1> QED  BY <1>1, <1>2, <1>3

(* A command gets to a marked place from another one with the same target, *)
(* by marking it, or by finding it deferred.                               *)
LEMMA MarkedStep ==
  ASSUME RolloutInv, MarkedAreOpen, [Next]_vars
  PROVE  MarkedAreOpen'
  <1>1. Opened \subseteq Opened'
    BY OpenedStay
  <1>2. cli \in [Clis -> Cli] /\ targets \in [Targets -> TargetStates]
    BY DEF RolloutInv, TypeOK
  <1>3. ASSUME NEW p \in Clis, \A q \in Clis \ {p} : cli'[q] = cli[q],
               cli'[p].at \in Marked => cli'[p].target \in Opened'
        PROVE  MarkedAreOpen'
    <2>1. ASSUME NEW q \in Clis, q # p, cli'[q].at \in Marked PROVE cli'[q].target \in Opened'
      BY <1>1, <1>3, <2>1 DEF MarkedAreOpen
    <2> QED  BY <1>3, <2>1 DEF MarkedAreOpen
  <1>4. CASE UNCHANGED cli
    BY <1>1, <1>4 DEF MarkedAreOpen
  <1>5. ASSUME NEW p \in Clis, MarkTarget(p) PROVE MarkedAreOpen'
    <2>1. cli[p].todo \subseteq Targets
      BY ClisAreTyped DEF Cli
    <2>2. PICK t \in cli[p].todo :
            IF Open(t) THEN /\ targets' = [targets EXCEPT ![t] = "running"]
                            /\ cli' = [cli EXCEPT ![p].at = "marked", ![p].target = t, ![p].todo = @ \ {t}]
            ELSE Leave(p) /\ UNCHANGED targets
      BY <1>5 DEF MarkTarget
    <2>3. CASE Open(t)
      <3>1. t \in Opened'
        BY <1>2, <2>1, <2>2, <2>3 DEF Opened
      <3>2. cli'[p].target = t /\ \A q \in Clis \ {p} : cli'[q] = cli[q]
        BY <1>2, <2>2, <2>3 DEF Cli
      <3> QED  BY <1>3, <3>1, <3>2
    <2>4. CASE ~Open(t)
      <3>1. cli'[p] = Gone /\ \A q \in Clis \ {p} : cli'[q] = cli[q]
        BY <1>2, <2>2, <2>4 DEF Leave
      <3> QED  BY <1>3, <3>1 DEF Gone, Marked
    <2> QED  BY <2>3, <2>4
  <1>6. ASSUME NEW p \in Clis, NEW t \in Targets, StartRetry(p, t) PROVE MarkedAreOpen'
    <2>1. t \in Opened
      BY <1>6 DEF StartRetry, Opened
    <2>2. cli'[p].target = t /\ \A q \in Clis \ {p} : cli'[q] = cli[q]
      BY <1>2, <1>6 DEF StartRetry, Cli
    <2> QED  BY <1>1, <1>3, <2>1, <2>2
  <1>7. ASSUME NEW p \in Clis,
               \/ MarkRun(p) \/ Record(p) \/ RetryTarget(p) \/ RetryRun(p)
               \/ \E outcome \in Outcomes, reply \in Replies : Call(p, outcome, reply)
        PROVE  MarkedAreOpen'
    <2>1. cli[p].at \in Marked
      BY <1>7 DEF MarkRun, Record, RetryTarget, RetryRun, Call, Marked
    <2>2. \/ cli'[p].target = cli[p].target
          \/ cli'[p].at \notin Marked
      BY <1>2, <1>7 DEF MarkRun, Record, RetryTarget, RetryRun, Call, Goto, Leave, Gone, Marked, Cli
    <2>3. \A q \in Clis \ {p} : cli'[q] = cli[q]
      BY <1>2, <1>7 DEF MarkRun, Record, RetryTarget, RetryRun, Call, Goto, Leave
    <2>4. cli[p].target \in Opened'
      BY <1>1, <2>1 DEF MarkedAreOpen
    <2> QED  BY <1>3, <2>2, <2>3, <2>4
  <1>8. ASSUME NEW p \in Clis,
               \/ StartBatch(p) \/ SelectTargets(p) \/ ReadRun(p) \/ Decide(p) \/ Write(p)
               \/ Continue(p) \/ Crash(p)
        PROVE  MarkedAreOpen'
    <2> DEFINE Waiting(todo) == [Gone EXCEPT !.at = "next", !.todo = todo]
    <2>0. \A todo : Waiting(todo).at = "next" /\ Gone.at = "idle"
      BY DEF Gone
    <2>1. cli'[p].at \notin Marked
      <3>1. CASE Crash(p)
        BY <1>2, <3>1 DEF Crash, Leave, Gone, Marked
      <3>2. CASE StartBatch(p) \/ ReadRun(p)
        BY <1>2, <3>2 DEF StartBatch, ReadRun, Marked, Cli
      <3>3. CASE SelectTargets(p)
        <4>1. PICK c : cli' = [cli EXCEPT ![p] = c] /\ (c = Gone \/ \E todo : c = Waiting(todo))
          BY <3>3 DEF SelectTargets, Leave
        <4>2. c.at \in {"idle", "next"}
          <5> HIDE DEF Waiting
          <5> QED  BY <2>0, <4>1
        <4> QED  BY <1>2, <4>1, <4>2 DEF Marked
      <3>4. CASE Decide(p)
        BY <1>2, <3>4 DEF Decide, Goto, Marked, Cli
      <3>5. CASE Write(p)
        BY <1>2, <3>5 DEF Write, Goto, Marked, Cli
      <3>6. CASE Continue(p)
        <4>1. PICK c : cli' = [cli EXCEPT ![p] = c] /\ (c = Gone \/ \E todo : c = Waiting(todo))
          BY <3>6 DEF Continue, Leave
        <4>2. c.at \in {"idle", "next"}
          <5> HIDE DEF Waiting
          <5> QED  BY <2>0, <4>1
        <4> QED  BY <1>2, <4>1, <4>2 DEF Marked
      <3> QED  BY <1>8, <3>1, <3>2, <3>3, <3>4, <3>5, <3>6
    <2>2. \A q \in Clis \ {p} : cli'[q] = cli[q]
      BY <1>2, <1>8 DEF StartBatch, SelectTargets, ReadRun, Decide, Write, Continue, Crash, Goto, Leave
    <2> QED  BY <1>3, <2>1, <2>2
  <1> QED
    BY <1>4, <1>5, <1>6, <1>7, <1>8 DEF Next, Step, Pause, Resume, Transition, Sign, AcceptPartial, vars

(* Every other step is one of the staged rollout, or none: what the run    *)
(* says may change at any time, but a command says "converged" only when   *)
(* it knows.                                                               *)
LEMMA ReportStages ==
  ASSUME RolloutInv, RolloutInv', UNCHANGED <<policy, targets, settled, run.accepted>>
  PROVE  \E state \in RunStates : Staged!Report(state)
  <1>1. run'.state \in RunStates
    BY DEF RolloutInv, TypeOK, Run
  <1>2. run'.state = "converged" => \A t \in Targets : settled[t] = "converged"
    BY DEF RolloutInv, ConvergedIsTruthful
  <1> QED  BY <1>1, <1>2 DEF Staged!Report

LEMMA CallStages ==
  ASSUME RolloutInv, MarkedAreOpen, NEW p \in Clis, NEW outcome \in Outcomes, NEW reply \in Replies,
         Call(p, outcome, reply)
  PROVE  \/ \E t \in Targets : Staged!Settle(t, outcome)
         \/ UNCHANGED <<policy, targets, settled, run>>
  <1> DEFINE t == cli[p].target
  <1>1. t \in Targets /\ targets[t] # "pending" /\ UNCHANGED <<policy, targets, run>>
    BY MarkedTarget DEF Call, Marked
  <1>2. settled \in [Targets -> Outcomes \cup {"none"}]
    BY DEF RolloutInv, TypeOK
  <1>3. CASE settled[t] = "none" /\ settled' = [settled EXCEPT ![t] = outcome]
    BY <1>1, <1>3 DEF Staged!Settle
  <1>4. CASE settled[t] = outcome /\ settled' = [settled EXCEPT ![t] = outcome]
    BY <1>1, <1>2, <1>4
  <1>5. CASE UNCHANGED settled
    BY <1>1, <1>5
  <1> QED  BY <1>3, <1>4, <1>5 DEF Call

LEMMA MarkStages ==
  ASSUME RolloutInv, NEW t \in Targets \ Opened, Reached(BatchOf[t]),
         Opened' = Opened \cup {t}, UNCHANGED <<policy, run, settled>>
  PROVE  Staged!OpenTarget(t)
  BY DEF Staged!OpenTarget, Staged!HoldsBack, Reached, Holds, Opened

LEMMA StepStages ==
  ASSUME RolloutInv, RolloutInv', MarkedAreOpen, [Next]_vars
  PROVE  [Staged!StagedNext]_(Staged!stagedVars)
  <1> DEFINE Same == UNCHANGED <<policy, Opened, settled, run>>
  <1>1. CASE Same
    BY <1>1 DEF Staged!stagedVars, Opened
  <1>2. ASSUME NEW p \in Clis, MarkTarget(p) PROVE Same \/ \E t \in Targets : Staged!OpenTarget(t)
    BY <1>2, MarkOpens, MarkStages
  <1>3. ASSUME NEW p \in Clis, NEW outcome \in Outcomes, NEW reply \in Replies, Call(p, outcome, reply)
        PROVE  Same \/ \E t \in Targets : Staged!Settle(t, outcome)
    BY <1>3, CallStages DEF Opened
  <1>4. ASSUME NEW p \in Clis, Record(p) \/ RetryTarget(p) PROVE Same
    BY <1>4, RecordOpens, RetryOpens
  <1>5. ASSUME \/ \E p \in Clis : MarkRun(p) \/ Write(p) \/ RetryRun(p)
               \/ Pause \/ Resume
        PROVE  \E state \in RunStates : Staged!Report(state)
    <2>1. UNCHANGED <<policy, targets, settled, run.accepted>>
      BY <1>5 DEF MarkRun, Write, RetryRun, Pause, Resume, Transition, RolloutInv, TypeOK, Run
    <2> QED  BY <2>1, ReportStages
  <1>6. ASSUME AcceptPartial PROVE Staged!Accept
    BY <1>6 DEF AcceptPartial, Staged!Accept, RolloutInv, TypeOK, Run
  <1>7. ASSUME \/ \E p \in Clis : \/ StartBatch(p) \/ SelectTargets(p) \/ ReadRun(p) \/ Decide(p)
                                 \/ Continue(p) \/ Crash(p) \/ \E t \in Targets : StartRetry(p, t)
               \/ Sign \/ UNCHANGED vars
        PROVE  Same
    BY <1>7 DEF StartBatch, SelectTargets, ReadRun, Decide, Continue, Crash, StartRetry, Sign, vars, Opened
  <1>8. Same \/ Staged!StagedNext
    <2>1. \/ \E p \in Clis : MarkTarget(p)
          \/ \E p \in Clis, outcome \in Outcomes, reply \in Replies : Call(p, outcome, reply)
          \/ \E p \in Clis : Record(p) \/ RetryTarget(p)
          \/ \E p \in Clis : MarkRun(p) \/ Write(p) \/ RetryRun(p)
          \/ Pause \/ Resume \/ AcceptPartial \/ Sign \/ UNCHANGED vars
          \/ \E p \in Clis : \/ StartBatch(p) \/ SelectTargets(p) \/ ReadRun(p) \/ Decide(p)
                             \/ Continue(p) \/ Crash(p) \/ \E t \in Targets : StartRetry(p, t)
      BY DEF Next, Step
    <2> HIDE DEF Same
    <2> QED  BY <1>2, <1>3, <1>4, <1>5, <1>6, <1>7, <2>1 DEF Staged!StagedNext
  <1> QED  BY <1>1, <1>8

LEMMA StagesInit == Init => MarkedAreOpen /\ Staged!StagedInit
  BY DEF Init, MarkedAreOpen, Marked, Gone, FreshRun, Staged!StagedInit

(* Whatever the commands of several processes read, write and leave        *)
(* undone, the ledger and the executors are a staged rollout               *)
(* (src/src/rollout.rs).                                                   *)
THEOREM RolloutKeepsStages == Spec => KeepsStages
  <1>1. RolloutInv /\ MarkedAreOpen /\ [Next]_vars => MarkedAreOpen'
    BY MarkedStep
  <1>2. Spec => []MarkedAreOpen
    BY <1>1, StagesInit, RolloutInvAlways, PTL DEF Spec
  <1>3. RolloutInv /\ RolloutInv' /\ MarkedAreOpen /\ [Next]_vars => [Staged!StagedNext]_(Staged!stagedVars)
    BY StepStages
  <1> QED  BY <1>2, <1>3, StagesInit, RolloutInvAlways, PTL DEF Spec, KeepsStages, Staged!StagedSpec
=============================================================================
