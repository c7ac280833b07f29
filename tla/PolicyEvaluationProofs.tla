------------------------ MODULE PolicyEvaluationProofs ------------------------
(***************************************************************************)
(* The evaluator allows only what is certain, for any expressions, facts   *)
(* and limits, and what gets worse never makes it allow more.              *)
(***************************************************************************)
EXTENDS PolicyEvaluation, WellFoundedInduction, FiniteSetTheorems, TLAPS

---------------------------------------------------------------------------
(* Recursion and induction over the natural numbers.                       *)
LEMMA LeastNatural ==
  ASSUME NEW S \in SUBSET Nat, S # {}
  PROVE  \E x \in S : \A y \in S : x <= y
  <1>1. PICK x \in S : \A y \in S : <<y, x>> \notin OpToRel(<, Nat)
    BY NatLessThanWellFounded, WFMin
  <1>2. ASSUME NEW y \in S PROVE x <= y
    <2>1. <<y, x>> \in Nat \X Nat /\ <<y, x>>[1] = y /\ <<y, x>>[2] = x
      OBVIOUS
    <2>2. <<y, x>> \notin {pair \in Nat \X Nat : pair[1] < pair[2]}
      BY <1>1 DEF OpToRel
    <2>3. ~ (y < x)
      BY <2>1, <2>2
    <2> QED  BY <2>3
  <1> QED  BY <1>2

(* What is never first to fail holds of all numbers.                       *)
LEMMA NeverFirst ==
  ASSUME NEW good \in SUBSET Nat,
         \A n \in Nat : (\A m \in Nat : m < n => m \in good) => n \in good
  PROVE  good = Nat
  <1> SUFFICES ASSUME Nat \ good # {} PROVE FALSE
    OBVIOUS
  <1>1. PICK n \in Nat \ good : \A m \in Nat \ good : n <= m
    BY LeastNatural
  <1>2. \A m \in Nat : m < n => m \in good
    BY <1>1
  <1> QED  BY <1>1, <1>2

(* A function can be defined by its first value and a step.                *)
Iterates(V, first, step) ==
  \E f \in [Nat -> V] : f[0] = first /\ \A n \in Nat : f[n + 1] = step[n][f[n]]

LEMMA NatRecursion ==
  ASSUME NEW V, NEW first \in V, NEW step \in [Nat -> [V -> V]]
  PROVE  Iterates(V, first, step)
  <1> DEFINE Upto(n) == {g \in [0 .. n -> V] : g[0] = first /\ \A i \in Nat : i < n => g[i + 1] = step[i][g[i]]}
             good == {n \in Nat : Upto(n) # {}}
  <1>1. good = Nat
    <2>1. ASSUME NEW n \in Nat, \A m \in Nat : m < n => m \in good PROVE n \in good
      <3>1. CASE n = 0
        <4>1. [i \in 0 .. n |-> first] \in Upto(n)
          BY <3>1
        <4> QED  BY <4>1
      <3>2. CASE n # 0
        <4>1. n - 1 \in Nat /\ n - 1 < n
          BY <3>2
        <4>2. PICK g : g \in Upto(n - 1)
          BY <2>1, <4>1
        <4> DEFINE h == [i \in 0 .. n |-> IF i < n THEN g[i] ELSE step[n - 1][g[n - 1]]]
        <4>3. \A i \in 0 .. n - 1 : g[i] \in V /\ h[i] = g[i]
          BY <4>2
        <4>4. h[n] = step[n - 1][g[n - 1]] /\ step[n - 1][g[n - 1]] \in V
          <5>1. n - 1 \in 0 .. n - 1 /\ n \in 0 .. n
            BY <4>1
          <5>2. g[n - 1] \in V
            BY <4>3, <5>1
          <5>3. step[n - 1] \in [V -> V]
            BY <4>1
          <5>4. h[n] = step[n - 1][g[n - 1]]
            BY <5>1
          <5> QED  BY <5>2, <5>3, <5>4
        <4>5. h \in [0 .. n -> V]
          <5>1. \A i \in 0 .. n : i \in 0 .. n - 1 \/ i = n
            OBVIOUS
          <5>2. \A i \in 0 .. n : h[i] \in V
            BY <4>3, <4>4, <5>1
          <5> QED  BY <5>2
        <4>6. ASSUME NEW i \in Nat, i < n PROVE h[i + 1] = step[i][h[i]]
          <5>1. CASE i < n - 1
            BY <4>2, <4>3, <5>1
          <5>2. CASE i = n - 1
            BY <4>1, <4>3, <4>4, <5>2
          <5> QED  BY <4>6, <5>1, <5>2
        <4>7. h[0] = first
          BY <4>1, <4>2, <4>3
        <4> HIDE DEF h
        <4>8. h \in Upto(n)
          BY <4>5, <4>6, <4>7
        <4> QED  BY <4>8
      <3> QED  BY <3>1, <3>2
    <2> HIDE DEF good
    <2>2. good \in SUBSET Nat
      BY DEF good
    <2> QED  BY <2>1, <2>2, NeverFirst
  <1>2. ASSUME NEW n \in Nat, NEW g \in Upto(n), NEW h \in Upto(n + 1) PROVE \A i \in 0 .. n : g[i] = h[i]
    <2> DEFINE same == {i \in Nat : i <= n => g[i] = h[i]}
    <2>1. ASSUME NEW i \in Nat, \A j \in Nat : j < i => j \in same PROVE i \in same
      <3>1. CASE i = 0
        BY <3>1
      <3>2. CASE i # 0 /\ i <= n
        <4>1. i - 1 \in Nat /\ i - 1 < n /\ i - 1 < n + 1 /\ (i - 1) + 1 = i /\ i - 1 < i
          BY <3>2
        <4>2. g[i - 1] = h[i - 1]
          BY <2>1, <4>1
        <4>3. g[i] = step[i - 1][g[i - 1]] /\ h[i] = step[i - 1][h[i - 1]]
          BY <4>1
        <4> QED  BY <4>2, <4>3
      <3> QED  BY <3>1, <3>2
    <2>2. same \in SUBSET Nat
      OBVIOUS
    <2>3. same = Nat
      <3> HIDE DEF same
      <3> QED  BY <2>1, <2>2, NeverFirst
    <2> QED  BY <2>3
  <1> DEFINE approx == [n \in Nat |-> CHOOSE g \in Upto(n) : TRUE]
             f == [n \in Nat |-> approx[n][n]]
  <1>3. \A n \in Nat : approx[n] \in Upto(n)
    BY <1>1
  <1>4. f \in [Nat -> V] /\ f[0] = first
    <2>1. \A n \in Nat : n \in 0 .. n
      OBVIOUS
    <2>2. \A n \in Nat : f[n] \in V /\ f[n] = approx[n][n]
      <3>1. \A n \in Nat : approx[n] \in [0 .. n -> V]
        BY <1>3
      <3> HIDE DEF approx
      <3> QED  BY <2>1, <3>1
    <2>3. f[0] = first
      <3>1. approx[0][0] = first
        BY <1>3
      <3> HIDE DEF approx
      <3> QED  BY <2>2, <3>1
    <2>4. f = [n \in Nat |-> f[n]]
      OBVIOUS
    <2> HIDE DEF f
    <2> QED  BY <2>2, <2>3, <2>4
  <1>5. ASSUME NEW n \in Nat PROVE f[n + 1] = step[n][f[n]]
    <2>1. n + 1 \in Nat /\ n < n + 1 /\ n \in 0 .. n
      OBVIOUS
    <2>2. approx[n + 1][n + 1] = step[n][approx[n + 1][n]]
      BY <1>3, <2>1
    <2>3. approx[n][n] = approx[n + 1][n]
      <3> HIDE DEF Upto, approx
      <3> QED  BY <1>2, <1>3, <2>1
    <2> QED  BY <2>1, <2>2, <2>3
  <1> HIDE DEF f
  <1> QED  BY <1>4, <1>5 DEF Iterates

---------------------------------------------------------------------------
---------------------------------------------------------------------------
(* The evaluation, level by level.                                         *)
Evaluators == [Expressions -> [Nat -> Results]]

LEMMA ResultIsResult ==
  ASSUME NEW verdict \in Verdicts, NEW fuel \in Nat
  PROVE  /\ Result(verdict, fuel) \in Results
         /\ Result(verdict, fuel).verdict = verdict
         /\ Result(verdict, fuel).fuel = fuel
  BY DEF Result, Results

LEMMA BinaryIsVerdict ==
  ASSUME NEW e, NEW known
  PROVE  Binary(e, known) \in Verdicts
  BY DEF Binary, Truth, Verdicts

(* What one more operand does, and that it gives a result.                 *)
LEMMA AfterOperandIs ==
  ASSUME NEW op \in Compounds, NEW last \in Loops, NEW r \in Results
  PROVE  LET next == AfterOperand(op)[last][r] IN
         /\ next \in Loops
         /\ next.ended <=> r.verdict \notin {Neutral(op), Remembered(op)}
         /\ next.result = IF r.verdict = Neutral(op) THEN Result(last.result.verdict, r.fuel) ELSE r
  <1> DEFINE result == IF r.verdict = Neutral(op) THEN Result(last.result.verdict, r.fuel) ELSE r
             ended == r.verdict \notin {Neutral(op), Remembered(op)}
  <1>1. result \in Results
    BY ResultIsResult DEF Loops, Results
  <1>2. AfterOperand(op)[last][r] = [ended |-> ended, result |-> result]
    BY DEF AfterOperand
  <1>3. ended \in BOOLEAN
    OBVIOUS
  <1> HIDE DEF result, ended
  <1>4. /\ [ended |-> ended, result |-> result] \in Loops
        /\ [ended |-> ended, result |-> result].ended <=> ended
        /\ [ended |-> ended, result |-> result].result = result
    BY <1>1, <1>3 DEF Loops
  <1> QED  BY <1>2, <1>4 DEF result, ended

(* One pass of the loops of eval_all and eval_any.                         *)
AfterItem(e, below, i, last) ==
  IF last.ended THEN last ELSE AfterOperand(e.op)[last][below[e.items[i]][last.result.fuel]]
Begin(e, fuel) == [result |-> Result(Neutral(e.op), fuel), ended |-> FALSE]

LEMMA OperandsAreExpressions ==
  ASSUME NEW e \in Expressions, e.op \in Compounds
  PROVE  /\ e.items \in Seq(Expressions)
         /\ Len(e.items) \in Nat
         /\ DOMAIN e.items = 1 .. Len(e.items)
         /\ \A i \in 1 .. Len(e.items) : e.items[i] \in Expressions
  BY ExpressionsAssumption

LEMMA AfterItemIsLoop ==
  ASSUME NEW e \in Expressions, e.op \in Compounds, NEW below \in Evaluators,
         NEW i \in 1 .. Len(e.items), NEW last \in Loops
  PROVE  AfterItem(e, below, i, last) \in Loops
  <1>1. below[e.items[i]][last.result.fuel] \in Results
    <2>1. e.items[i] \in Expressions
      BY OperandsAreExpressions
    <2>2. last.result.fuel \in Nat
      BY DEF Loops, Results
    <2> QED  BY <2>1, <2>2 DEF Evaluators
  <1> QED  BY <1>1, AfterOperandIs DEF AfterItem

LEMMA BeginIsLoop ==
  ASSUME NEW e, NEW fuel \in Nat
  PROVE  /\ Begin(e, fuel) \in Loops
         /\ Begin(e, fuel).result = Result(Neutral(e.op), fuel)
         /\ ~ Begin(e, fuel).ended
         /\ Begin(e, fuel).result.verdict = Neutral(e.op)
         /\ Begin(e, fuel).result.fuel = fuel
  <1>1. Neutral(e.op) \in Verdicts
    BY DEF Neutral, Verdicts
  <1> QED  BY <1>1, ResultIsResult DEF Begin, Loops

(* The loops as a sequence of states, one for every operand.               *)
Run(e, below, fuel, after) ==
  /\ after \in [0 .. Len(e.items) -> Loops]
  /\ after[0] = Begin(e, fuel)
  /\ \A i \in 1 .. Len(e.items) : after[i] = AfterItem(e, below, i, after[i - 1])

LEMMA RunExists ==
  ASSUME NEW e \in Expressions, e.op \in Compounds, NEW below \in Evaluators, NEW fuel \in Nat
  PROVE  \E after : Run(e, below, fuel, after)
  <1> DEFINE len == Len(e.items)
             step == [n \in Nat |-> [last \in Loops |->
                        IF n < len THEN AfterItem(e, below, n + 1, last) ELSE last]]
  <1>1. len \in Nat
    BY OperandsAreExpressions
  <1>2. step \in [Nat -> [Loops -> Loops]]
    <2>1. ASSUME NEW n \in Nat, NEW last \in Loops
          PROVE  (IF n < len THEN AfterItem(e, below, n + 1, last) ELSE last) \in Loops
      <3>1. n < len => n + 1 \in 1 .. len
        BY <1>1
      <3> QED  BY <3>1, AfterItemIsLoop
    <2> QED  BY <2>1
  <1>3. \A n \in Nat, last \in Loops : n < len => step[n][last] = AfterItem(e, below, n + 1, last)
    OBVIOUS
  <1> HIDE DEF step
  <1>4. PICK f \in [Nat -> Loops] : f[0] = Begin(e, fuel) /\ \A n \in Nat : f[n + 1] = step[n][f[n]]
    <2>1. Begin(e, fuel) \in Loops
      BY BeginIsLoop
    <2>2. Iterates(Loops, Begin(e, fuel), step)
      BY <1>2, <2>1, NatRecursion
    <2> QED  BY <2>2, Zenon DEF Iterates
  <1> DEFINE after == [i \in 0 .. len |-> f[i]]
  <1>5. after \in [0 .. len -> Loops] /\ after[0] = Begin(e, fuel)
    BY <1>1, <1>4
  <1>6. ASSUME NEW i \in 1 .. len PROVE after[i] = AfterItem(e, below, i, after[i - 1])
    <2>1. i - 1 \in Nat /\ i - 1 < len /\ (i - 1) + 1 = i /\ i \in 0 .. len /\ i - 1 \in 0 .. len
      BY <1>1
    <2>2. f[i] = step[i - 1][f[i - 1]] /\ f[i - 1] \in Loops
      BY <1>4, <2>1
    <2>3. f[i] = AfterItem(e, below, i, f[i - 1])
      BY <1>3, <2>1, <2>2
    <2> QED  BY <2>1, <2>3
  <1> HIDE DEF after
  <1> QED  BY <1>5, <1>6 DEF Run

LEMMA EvalItemsRun ==
  ASSUME NEW e \in Expressions, e.op \in Compounds, NEW below \in Evaluators, NEW fuel \in Nat
  PROVE  \E after : /\ Run(e, below, fuel, after)
                    /\ EvalItems(e, below, fuel) = after[Len(e.items)].result
  <1> DEFINE len == Len(e.items)
             Next2(i, last) == [l \in Loops |-> IF l.ended THEN l
                                 ELSE AfterOperand(e.op)[l][below[e.items[i]][l.result.fuel]]][last]
             Passes(a) == [i \in 0 .. len |-> IF i = 0 THEN Begin(e, fuel) ELSE Next2(i, a[i - 1])]
             after == CHOOSE a : a = Passes(a)
  <1>1. EvalItems(e, below, fuel) = after[len].result
    BY DEF EvalItems, Begin
  <1>2. len \in Nat
    BY OperandsAreExpressions
  <1>3. \A last \in Loops, i \in 1 .. len : Next2(i, last) = AfterItem(e, below, i, last)
    BY DEF AfterItem
  <1>4. PICK run : Run(e, below, fuel, run)
    BY RunExists
  <1>5. run = Passes(run)
    <2>1. ASSUME NEW i \in 0 .. len PROVE run[i] = IF i = 0 THEN Begin(e, fuel) ELSE Next2(i, run[i - 1])
      <3>1. CASE i = 0
        BY <1>4, <3>1 DEF Run
      <3>2. CASE i # 0
        <4>1. i \in 1 .. len /\ i - 1 \in 0 .. len
          BY <1>2, <3>2
        <4>2. run[i - 1] \in Loops /\ run[i] = AfterItem(e, below, i, run[i - 1])
          BY <1>4, <4>1 DEF Run
        <4> HIDE DEF Next2
        <4> QED  BY <1>3, <3>2, <4>1, <4>2
      <3> QED  BY <3>1, <3>2
    <2>2. run \in [0 .. len -> Loops]
      BY <1>4 DEF Run
    <2> HIDE DEF Next2
    <2> QED  BY <2>1, <2>2
  <1>6. after = Passes(after)
    <2> HIDE DEF Passes
    <2> QED  BY <1>5
  <1>7. \A i \in 0 .. len : after[i] = IF i = 0 THEN Begin(e, fuel) ELSE Next2(i, after[i - 1])
    <2> HIDE DEF Next2, after
    <2> QED  BY <1>6
  <1>8. after = [i \in 0 .. len |-> after[i]]
    <2> HIDE DEF Next2, after
    <2> QED  BY <1>6
  <1> HIDE DEF Next2, after, Passes
  <1> DEFINE good == {i \in Nat : i <= len => after[i] \in Loops}
  <1>9. ASSUME NEW i \in Nat, \A j \in Nat : j < i => j \in good PROVE i \in good
    <2>1. CASE i = 0
      BY <1>2, <1>7, <2>1, BeginIsLoop
    <2>2. CASE i # 0 /\ i <= len
      <3>1. i - 1 \in Nat /\ i - 1 < i /\ i - 1 <= len /\ i \in 1 .. len /\ i \in 0 .. len
        BY <1>2, <2>2
      <3>2. after[i - 1] \in Loops
        BY <1>9, <3>1
      <3>3. after[i] = AfterItem(e, below, i, after[i - 1])
        BY <1>3, <1>7, <2>2, <3>1, <3>2
      <3>4. after[i] \in Loops
        BY <3>1, <3>2, <3>3, AfterItemIsLoop
      <3> QED  BY <3>4
    <2> QED  BY <2>1, <2>2
  <1>10. good = Nat
    <2>1. good \in SUBSET Nat
      OBVIOUS
    <2> HIDE DEF good
    <2> QED  BY <1>9, <2>1, NeverFirst
  <1>11. \A i \in 0 .. len : after[i] \in Loops
    BY <1>2, <1>10
  <1>12. Run(e, below, fuel, after)
    <2>1. after \in [0 .. len -> Loops]
      BY <1>8, <1>11
    <2>2. after[0] = Begin(e, fuel)
      BY <1>2, <1>7
    <2>3. ASSUME NEW i \in 1 .. len PROVE after[i] = AfterItem(e, below, i, after[i - 1])
      <3>1. i \in 0 .. len /\ i # 0 /\ i - 1 \in 0 .. len
        BY <1>2
      <3> QED  BY <1>3, <1>7, <1>11, <3>1
    <2> QED  BY <2>1, <2>2, <2>3 DEF Run
  <1> QED  BY <1>1, <1>12

LEMMA EvalItemsType ==
  ASSUME NEW e \in Expressions, e.op \in Compounds, NEW below \in Evaluators, NEW fuel \in Nat
  PROVE  EvalItems(e, below, fuel) \in Results
  <1>1. PICK after : Run(e, below, fuel, after) /\ EvalItems(e, below, fuel) = after[Len(e.items)].result
    BY EvalItemsRun
  <1>2. Len(e.items) \in 0 .. Len(e.items)
    BY OperandsAreExpressions
  <1>3. after[Len(e.items)] \in Loops
    BY <1>1, <1>2 DEF Run
  <1> QED  BY <1>1, <1>3 DEF Loops

(* eval_expr with n levels left, when `below` evaluates with one less.     *)
EvalHere(l, known, n, below, e, fuel) ==
  IF n = 0 \/ fuel = 0 THEN Result("limit", fuel)
  ELSE IF e.op = "generated" THEN Result(Generated(e, known, l), fuel - 1)
  ELSE IF e.op \in Compounds THEN EvalItems(e, below, fuel - 1)
  ELSE IF e.op \in Binaries THEN Result(Binary(e, known), fuel - 1)
  ELSE Result("invalid", fuel - 1)
Level(l, known, n, below) ==
  [e \in Expressions |-> [fuel \in Nat |-> EvalHere(l, known, n, below, e, fuel)]]

LEMMA EvalHereType ==
  ASSUME NEW l, NEW known, NEW n \in Nat, NEW below, n # 0 => below \in Evaluators,
         NEW e \in Expressions, NEW fuel \in Nat
  PROVE  EvalHere(l, known, n, below, e, fuel) \in Results
  <1>1. /\ "limit" \in Verdicts /\ "invalid" \in Verdicts
        /\ Generated(e, known, l) \in Verdicts /\ Binary(e, known) \in Verdicts
    BY BinaryIsVerdict DEF Verdicts, Generated
  <1>2. fuel # 0 => fuel - 1 \in Nat
    OBVIOUS
  <1>3. Result("limit", fuel) \in Results
    BY <1>1, ResultIsResult
  <1>4. CASE n = 0 \/ fuel = 0
    BY <1>3, <1>4 DEF EvalHere
  <1>5. CASE n # 0 /\ fuel # 0
    <2>1. /\ Result(Generated(e, known, l), fuel - 1) \in Results
          /\ Result(Binary(e, known), fuel - 1) \in Results
          /\ Result("invalid", fuel - 1) \in Results
      BY <1>1, <1>2, <1>5, ResultIsResult
    <2>2. e.op \in Compounds => EvalItems(e, below, fuel - 1) \in Results
      BY <1>2, <1>5, EvalItemsType
    <2> QED  BY <1>5, <2>1, <2>2 DEF EvalHere
  <1> QED  BY <1>4, <1>5

LEMMA LevelType ==
  ASSUME NEW l, NEW known, NEW n \in Nat, NEW below, n # 0 => below \in Evaluators
  PROVE  Level(l, known, n, below) \in Evaluators
  BY EvalHereType DEF Level, Evaluators

LEMMA BottomLevel ==
  ASSUME NEW l, NEW known, NEW one, NEW other
  PROVE  Level(l, known, 0, one) = Level(l, known, 0, other)
  BY DEF Level, EvalHere

(* The evaluation of a level is that of the operands one level below.      *)
LEMMA EvalExprLevels ==
  ASSUME NEW l, NEW known
  PROVE  /\ EvalExpr(l, known) \in [Nat -> Evaluators]
         /\ \A n \in Nat : EvalExpr(l, known)[n] = Level(l, known, n, EvalExpr(l, known)[n - 1])
  <1> DEFINE Levels(f) == [n \in Nat |-> Level(l, known, n, f[n - 1])]
             eval == CHOOSE f : f = Levels(f)
             step == [n \in Nat |-> [below \in Evaluators |-> Level(l, known, n + 1, below)]]
             bottom == Level(l, known, 0, 0)
  <1>1. EvalExpr(l, known) = eval
    BY DEF EvalExpr, Level, EvalHere
  <1>2. bottom \in Evaluators
    BY LevelType
  <1>3. step \in [Nat -> [Evaluators -> Evaluators]]
    BY LevelType
  <1>4. \A n \in Nat, below \in Evaluators : step[n][below] = Level(l, known, n + 1, below)
    OBVIOUS
  <1>5. PICK g \in [Nat -> Evaluators] : g[0] = bottom /\ \A n \in Nat : g[n + 1] = step[n][g[n]]
    <2> HIDE DEF bottom, step
    <2>1. Iterates(Evaluators, bottom, step)
      BY <1>2, <1>3, NatRecursion
    <2> QED  BY <2>1, Zenon DEF Iterates
  <1>6. g = Levels(g)
    <2>1. ASSUME NEW n \in Nat PROVE g[n] = Level(l, known, n, g[n - 1])
      <3>1. CASE n = 0
        BY <1>5, <3>1, BottomLevel
      <3>2. CASE n # 0
        <4>1. n - 1 \in Nat /\ (n - 1) + 1 = n
          BY <3>2
        <4>2. g[n] = step[n - 1][g[n - 1]] /\ g[n - 1] \in Evaluators
          BY <1>5, <4>1
        <4> HIDE DEF step
        <4> QED  BY <1>4, <4>1, <4>2
      <3> QED  BY <3>1, <3>2
    <2> QED  BY <2>1
  <1>7. eval = Levels(eval)
    <2> HIDE DEF Levels
    <2> QED  BY <1>6
  <1>8. /\ eval = [n \in Nat |-> eval[n]]
        /\ \A n \in Nat : eval[n] = Level(l, known, n, eval[n - 1])
    <2> HIDE DEF eval
    <2> QED  BY <1>7
  <1> HIDE DEF eval
  <1> DEFINE good == {n \in Nat : eval[n] \in Evaluators}
  <1>9. ASSUME NEW n \in Nat, \A m \in Nat : m < n => m \in good PROVE n \in good
    <2>1. n # 0 => n - 1 \in Nat /\ n - 1 < n
      OBVIOUS
    <2>2. n # 0 => eval[n - 1] \in Evaluators
      BY <1>9, <2>1
    <2>3. Level(l, known, n, eval[n - 1]) \in Evaluators
      BY <2>2, LevelType
    <2> QED  BY <1>8, <2>3
  <1>10. good = Nat
    <2>1. good \in SUBSET Nat
      OBVIOUS
    <2> HIDE DEF good
    <2> QED  BY <1>9, <2>1, NeverFirst
  <1>11. eval \in [Nat -> Evaluators]
    BY <1>8, <1>10
  <1> QED  BY <1>1, <1>8, <1>11

LEMMA EvalExprIs ==
  ASSUME NEW l, NEW known, NEW n \in Nat, NEW e \in Expressions, NEW fuel \in Nat
  PROVE  /\ EvalExpr(l, known)[n][e][fuel] = EvalHere(l, known, n, EvalExpr(l, known)[n - 1], e, fuel)
         /\ EvalExpr(l, known)[n][e][fuel] \in Results
         /\ n # 0 => EvalExpr(l, known)[n - 1] \in Evaluators
  <1>1. n # 0 => n - 1 \in Nat
    OBVIOUS
  <1>2. EvalExpr(l, known)[n] = Level(l, known, n, EvalExpr(l, known)[n - 1])
    BY EvalExprLevels
  <1>3. EvalExpr(l, known)[n][e][fuel] \in Results
    BY EvalExprLevels DEF Evaluators
  <1> QED  BY <1>1, <1>2, <1>3, EvalExprLevels DEF Level

---------------------------------------------------------------------------
(* The reference, level by level.                                          *)
KleeneHere(known, n, below, e) ==
  IF n = 0 THEN "open"
  ELSE IF e.op = "generated" THEN IF Given(e, known) THEN "true" ELSE "open"
  ELSE IF e.op = "all" THEN KleeneAll({below[e.items[i]] : i \in DOMAIN e.items})
  ELSE IF e.op = "any" THEN KleeneAny({below[e.items[i]] : i \in DOMAIN e.items})
  ELSE IF e.op \in Binaries /\ Binary(e, known) \in {"true", "false"} THEN Binary(e, known)
  ELSE "open"
KleeneLevel(known, n, below) == [e \in Expressions |-> KleeneHere(known, n, below, e)]
Valuations == [Expressions -> KleeneValues]

LEMMA KleeneHereType ==
  ASSUME NEW known, NEW n, NEW below, NEW e
  PROVE  KleeneHere(known, n, below, e) \in KleeneValues
  BY DEF KleeneHere, KleeneAll, KleeneAny, KleeneValues

LEMMA KleeneAtLevels ==
  ASSUME NEW known
  PROVE  \A n \in Nat : KleeneAt(known)[n] = KleeneLevel(known, n, KleeneAt(known)[n - 1])
  <1> DEFINE Levels(f) == [n \in Nat |-> KleeneLevel(known, n, f[n - 1])]
             at == CHOOSE f : f = Levels(f)
             step == [n \in Nat |-> [below \in Valuations |-> KleeneLevel(known, n + 1, below)]]
             bottom == KleeneLevel(known, 0, 0)
  <1>1. KleeneAt(known) = at
    BY DEF KleeneAt, KleeneLevel, KleeneHere
  <1>2. bottom \in Valuations
    BY KleeneHereType DEF KleeneLevel, Valuations
  <1>3. step \in [Nat -> [Valuations -> Valuations]]
    BY KleeneHereType DEF KleeneLevel, Valuations
  <1>4. \A n \in Nat, below \in Valuations : step[n][below] = KleeneLevel(known, n + 1, below)
    OBVIOUS
  <1>5. PICK g \in [Nat -> Valuations] : g[0] = bottom /\ \A n \in Nat : g[n + 1] = step[n][g[n]]
    <2> HIDE DEF bottom, step
    <2>1. Iterates(Valuations, bottom, step)
      BY <1>2, <1>3, NatRecursion
    <2> QED  BY <2>1, Zenon DEF Iterates
  <1>6. \A one, other : KleeneLevel(known, 0, one) = KleeneLevel(known, 0, other)
    BY DEF KleeneLevel, KleeneHere
  <1>7. g = Levels(g)
    <2>1. ASSUME NEW n \in Nat PROVE g[n] = KleeneLevel(known, n, g[n - 1])
      <3>1. CASE n = 0
        BY <1>5, <1>6, <3>1
      <3>2. CASE n # 0
        <4>1. n - 1 \in Nat /\ (n - 1) + 1 = n
          BY <3>2
        <4>2. g[n] = step[n - 1][g[n - 1]] /\ g[n - 1] \in Valuations
          BY <1>5, <4>1
        <4> HIDE DEF step
        <4> QED  BY <1>4, <4>1, <4>2
      <3> QED  BY <3>1, <3>2
    <2> QED  BY <2>1
  <1>8. at = Levels(at)
    <2> HIDE DEF Levels
    <2> QED  BY <1>7
  <1>9. \A n \in Nat : at[n] = KleeneLevel(known, n, at[n - 1])
    <2> HIDE DEF at
    <2> QED  BY <1>8
  <1> HIDE DEF at
  <1> QED  BY <1>1, <1>9

LEMMA KleeneAtIs ==
  ASSUME NEW known, NEW n \in Nat, NEW e \in Expressions
  PROVE  KleeneAt(known)[n][e] = KleeneHere(known, n, KleeneAt(known)[n - 1], e)
  <1>1. KleeneAt(known)[n] = KleeneLevel(known, n, KleeneAt(known)[n - 1])
    BY KleeneAtLevels
  <1> QED  BY <1>1 DEF KleeneLevel

---------------------------------------------------------------------------
(* The verdict of a loop that ends with true or false is Kleene's of the   *)
(* operands, if theirs are Kleene's: a neutral verdict needs all of them,  *)
(* the other one of them.                                                  *)
Opposite(op) == IF op = "all" THEN "false" ELSE "true"

Agrees(e, below, kleene) ==
  \A i \in 1 .. Len(e.items), fuel \in Nat :
    below[e.items[i]][fuel].verdict \in {"true", "false"} =>
      kleene[e.items[i]] = below[e.items[i]][fuel].verdict
Follows(e, kleene, verdict) ==
  /\ verdict = Neutral(e.op) => \A i \in 1 .. Len(e.items) : kleene[e.items[i]] = verdict
  /\ verdict = Opposite(e.op) => \E i \in 1 .. Len(e.items) : kleene[e.items[i]] = verdict

LEMMA ItemsAreCertain ==
  ASSUME NEW e \in Expressions, e.op \in Compounds, NEW below \in Evaluators, NEW fuel \in Nat,
         NEW kleene, Agrees(e, below, kleene)
  PROVE  Follows(e, kleene, EvalItems(e, below, fuel).verdict)
  <1> DEFINE len == Len(e.items)
  <1>1. len \in Nat
    BY OperandsAreExpressions
  <1>2. PICK after : Run(e, below, fuel, after) /\ EvalItems(e, below, fuel) = after[len].result
    BY EvalItemsRun
  <1> DEFINE Sound(i) ==
               /\ after[i].ended => after[i].result.verdict # Neutral(e.op)
               /\ after[i].result.verdict = Neutral(e.op) =>
                    \A j \in 1 .. i : kleene[e.items[j]] = Neutral(e.op)
               /\ after[i].result.verdict = Opposite(e.op) =>
                    \E j \in 1 .. i : kleene[e.items[j]] = Opposite(e.op)
             good == {i \in Nat : i <= len => Sound(i)}
  <1>3. /\ {Neutral(e.op), Opposite(e.op)} = {"true", "false"}
        /\ Neutral(e.op) # Opposite(e.op) /\ Neutral(e.op) # Remembered(e.op)
    BY DEF Neutral, Opposite, Remembered, Compounds
  <1>4. Sound(0)
    <2>1. after[0] = Begin(e, fuel)
      BY <1>2 DEF Run
    <2>2. ~ after[0].ended /\ after[0].result.verdict = Neutral(e.op)
      <3>1. fuel \in Nat
        OBVIOUS
      <3> QED  BY <2>1, <3>1, BeginIsLoop
    <2> QED  BY <1>3, <2>2
  <1>5. ASSUME NEW i \in 1 .. len, Sound(i - 1) PROVE Sound(i)
    <2>1. i - 1 \in 0 .. len /\ i - 1 \in Nat /\ i \in 0 .. len /\ 1 .. i = (1 .. (i - 1)) \cup {i}
      BY <1>1
    <2>2. after[i - 1] \in Loops /\ after[i] = AfterItem(e, below, i, after[i - 1])
      BY <1>2, <2>1 DEF Run
    <2>3. CASE after[i - 1].ended
      <3>1. after[i] = after[i - 1]
        BY <2>2, <2>3 DEF AfterItem
      <3>2. after[i - 1].result.verdict # Neutral(e.op)
        BY <1>5, <2>3
      <3>3. after[i].result.verdict = Opposite(e.op) => \E j \in 1 .. i : kleene[e.items[j]] = Opposite(e.op)
        BY <1>5, <2>1, <3>1
      <3> QED  BY <3>1, <3>2, <3>3
    <2>4. CASE ~ after[i - 1].ended
      <3> DEFINE r == below[e.items[i]][after[i - 1].result.fuel]
      <3>1. after[i - 1].result.fuel \in Nat /\ after[i - 1].result.verdict \in Verdicts
        BY <2>2 DEF Loops, Results
      <3>2. e.items[i] \in Expressions
        BY OperandsAreExpressions
      <3>3. r \in Results
        BY <3>1, <3>2 DEF Evaluators
      <3>4. r.verdict \in {"true", "false"} => kleene[e.items[i]] = r.verdict
        BY <3>1 DEF Agrees
      <3>5. after[i] = AfterOperand(e.op)[after[i - 1]][r]
        BY <2>2, <2>4 DEF AfterItem
      <3> HIDE DEF r
      <3>6. /\ after[i].ended <=> r.verdict \notin {Neutral(e.op), Remembered(e.op)}
            /\ after[i].result = IF r.verdict = Neutral(e.op)
                                 THEN Result(after[i - 1].result.verdict, r.fuel) ELSE r
        BY <2>2, <3>3, <3>5, AfterOperandIs
      <3>7. CASE r.verdict = Neutral(e.op)
        <4>1. ~ after[i].ended /\ after[i].result.verdict = after[i - 1].result.verdict
          BY <3>6, <3>7 DEF Result
        <4>2. kleene[e.items[i]] = Neutral(e.op)
          BY <1>3, <3>4, <3>7
        <4>3. after[i].result.verdict = Neutral(e.op) =>
                \A j \in 1 .. i : kleene[e.items[j]] = Neutral(e.op)
          BY <1>5, <2>1, <4>1, <4>2
        <4>4. after[i].result.verdict = Opposite(e.op) =>
                \E j \in 1 .. i : kleene[e.items[j]] = Opposite(e.op)
          BY <1>5, <2>1, <4>1
        <4> QED  BY <4>1, <4>3, <4>4
      <3>8. CASE r.verdict # Neutral(e.op)
        <4>1. after[i].result.verdict = r.verdict
          BY <3>6, <3>8
        <4>2. r.verdict = Opposite(e.op) => kleene[e.items[i]] = Opposite(e.op)
          BY <1>3, <3>4
        <4>3. i \in 1 .. i
          BY <2>1
        <4> QED  BY <3>8, <4>1, <4>2, <4>3
      <3> QED  BY <3>7, <3>8
    <2> QED  BY <2>3, <2>4
  <1>6. ASSUME NEW i \in Nat, \A j \in Nat : j < i => j \in good PROVE i \in good
    <2> HIDE DEF Sound
    <2>1. CASE i = 0
      BY <1>4, <2>1
    <2>2. CASE i # 0 /\ i <= len
      <3>1. i - 1 \in Nat /\ i - 1 < i /\ i - 1 <= len /\ i \in 1 .. len
        BY <1>1, <2>2
      <3>2. Sound(i - 1)
        BY <1>6, <3>1
      <3> QED  BY <1>5, <3>1, <3>2
    <2> QED  BY <2>1, <2>2
  <1>7. good = Nat
    <2>1. good \in SUBSET Nat
      OBVIOUS
    <2> HIDE DEF good
    <2> QED  BY <1>6, <2>1, NeverFirst
  <1>8. Sound(len)
    <2> HIDE DEF Sound
    <2> QED  BY <1>1, <1>7
  <1> QED  BY <1>2, <1>3, <1>8 DEF Follows

(* What is evaluated to true or false is so in Kleene's logic, whatever    *)
(* the fuel is, when the generated sizes are given.                        *)
LEMMA VerdictIsKleene ==
  ASSUME NEW l, NEW known, \A e \in Expressions : e.op = "generated" => Given(e, known)
  PROVE  \A n \in Nat, e \in Expressions, fuel \in Nat :
           EvalExpr(l, known)[n][e][fuel].verdict \in {"true", "false"} =>
             KleeneAt(known)[n][e] = EvalExpr(l, known)[n][e][fuel].verdict
  <1> DEFINE Agreed(n) == \A e \in Expressions, fuel \in Nat :
               EvalExpr(l, known)[n][e][fuel].verdict \in {"true", "false"} =>
                 KleeneAt(known)[n][e] = EvalExpr(l, known)[n][e][fuel].verdict
             good == {n \in Nat : Agreed(n)}
  <1>1. ASSUME NEW n \in Nat, \A m \in Nat : m < n => m \in good PROVE n \in good
    <2>1. SUFFICES ASSUME NEW e \in Expressions, NEW fuel \in Nat,
                          EvalExpr(l, known)[n][e][fuel].verdict \in {"true", "false"}
                   PROVE  KleeneAt(known)[n][e] = EvalExpr(l, known)[n][e][fuel].verdict
      OBVIOUS
    <2> DEFINE below == EvalExpr(l, known)[n - 1]
               kleene == KleeneAt(known)[n - 1]
    <2>2. /\ EvalExpr(l, known)[n][e][fuel] = EvalHere(l, known, n, below, e, fuel)
          /\ n # 0 => below \in Evaluators
      BY EvalExprIs
    <2>3. KleeneAt(known)[n][e] = KleeneHere(known, n, kleene, e)
      BY KleeneAtIs
    <2>4. n # 0 /\ fuel # 0
      BY <2>1, <2>2 DEF EvalHere, Result
    <2>5. n - 1 \in Nat /\ n - 1 < n /\ fuel - 1 \in Nat
      BY <2>4
    <2>6. Agreed(n - 1)
      BY <1>1, <2>5
    <2>7. CASE e.op \in Compounds
      <3>1. EvalExpr(l, known)[n][e][fuel] = EvalItems(e, below, fuel - 1)
        BY <2>2, <2>4, <2>7 DEF EvalHere, Compounds
      <3>2. Agrees(e, below, kleene)
        BY <2>6, <2>7, OperandsAreExpressions DEF Agrees
      <3> DEFINE verdict == EvalItems(e, below, fuel - 1).verdict
                 values == {kleene[e.items[i]] : i \in 1 .. Len(e.items)}
      <3>3. below \in Evaluators
        BY <2>2, <2>4
      <3> HIDE DEF below, kleene
      <3>4. Follows(e, kleene, verdict)
        BY <2>5, <2>7, <3>2, <3>3, ItemsAreCertain
      <3>5. KleeneAt(known)[n][e] = IF e.op = "all" THEN KleeneAll(values) ELSE KleeneAny(values)
        BY <2>3, <2>4, <2>7, OperandsAreExpressions DEF KleeneHere, Compounds
      <3>6. verdict \in {"true", "false"}
        BY <2>1, <3>1
      <3> HIDE DEF verdict
      <3>7. CASE e.op = "all"
        <4>1. verdict = "true" => values \subseteq {"true"}
          BY <3>4, <3>7 DEF Follows, Neutral
        <4>2. verdict = "false" => "false" \in values
          BY <3>4, <3>7 DEF Follows, Opposite
        <4>3. KleeneAll(values) = verdict
          BY <3>6, <4>1, <4>2 DEF KleeneAll
        <4> QED  BY <3>1, <3>5, <3>7, <4>3 DEF verdict
      <3>8. CASE e.op = "any"
        <4>1. verdict = "false" => values \subseteq {"false"}
          BY <3>4, <3>8 DEF Follows, Neutral
        <4>2. verdict = "true" => "true" \in values
          BY <3>4, <3>8 DEF Follows, Opposite
        <4>3. KleeneAny(values) = verdict
          BY <3>6, <4>1, <4>2 DEF KleeneAny
        <4> QED  BY <3>1, <3>5, <3>8, <4>3 DEF verdict
      <3> QED  BY <2>7, <3>7, <3>8 DEF Compounds
    <2>8. CASE e.op \notin Compounds
      <3>1. e.op # "all" /\ e.op # "any"
        BY <2>8 DEF Compounds
      <3>2. CASE e.op = "generated"
        <4>1. EvalExpr(l, known)[n][e][fuel].verdict = Generated(e, known, l)
          BY <2>2, <2>4, <3>2 DEF EvalHere, Result
        <4>2. KleeneAt(known)[n][e] = "true"
          BY <2>3, <2>4, <3>2 DEF KleeneHere
        <4> QED  BY <2>1, <4>1, <4>2 DEF Generated
      <3>3. CASE e.op # "generated"
        <4>1. e.op \in Binaries
          BY <2>1, <2>2, <2>4, <2>8, <3>3 DEF EvalHere, Result
        <4>2. EvalExpr(l, known)[n][e][fuel].verdict = Binary(e, known)
          BY <2>2, <2>4, <2>8, <3>3, <4>1 DEF EvalHere, Result
        <4> QED  BY <2>1, <2>3, <2>4, <3>1, <3>3, <4>1, <4>2 DEF KleeneHere
      <3> QED  BY <3>2, <3>3
    <2> QED  BY <2>7, <2>8
  <1>2. good = Nat
    <2>1. good \in SUBSET Nat
      OBVIOUS
    <2> HIDE DEF good
    <2> QED  BY <1>1, <2>1, NeverFirst
  <1> QED  BY <1>2

(* The ways the evidence may turn out: what is known is so, what is        *)
(* unknown, stale or invalid is either true or false, and all and any are  *)
(* what they say.                                                          *)
Completions(known) ==
  {truth \in [Expressions -> BOOLEAN] :
     \A e \in Expressions :
       /\ e.op = "generated" /\ Given(e, known) => truth[e]
       /\ e.op = "all" => (truth[e] <=> \A i \in DOMAIN e.items : truth[e.items[i]])
       /\ e.op = "any" => (truth[e] <=> \E i \in DOMAIN e.items : truth[e.items[i]])
       /\ e.op \in Binaries /\ Binary(e, known) = "true" => truth[e]
       /\ e.op \in Binaries /\ Binary(e, known) = "false" => ~ truth[e]}

(* What Kleene's logic decides is so however the evidence turns out.       *)
LEMMA KleeneHoldsInCompletions ==
  ASSUME NEW known, NEW truth \in Completions(known)
  PROVE  \A n \in Nat, e \in Expressions :
           /\ KleeneAt(known)[n][e] = "true" => truth[e]
           /\ KleeneAt(known)[n][e] = "false" => ~ truth[e]
  <1> DEFINE Holds(n) == \A e \in Expressions :
               /\ KleeneAt(known)[n][e] = "true" => truth[e]
               /\ KleeneAt(known)[n][e] = "false" => ~ truth[e]
             good == {n \in Nat : Holds(n)}
  <1>1. ASSUME NEW n \in Nat, \A m \in Nat : m < n => m \in good PROVE n \in good
    <2>1. SUFFICES ASSUME NEW e \in Expressions
                   PROVE  /\ KleeneAt(known)[n][e] = "true" => truth[e]
                          /\ KleeneAt(known)[n][e] = "false" => ~ truth[e]
      OBVIOUS
    <2> DEFINE below == KleeneAt(known)[n - 1]
               values == {below[e.items[i]] : i \in DOMAIN e.items}
    <2>2. KleeneAt(known)[n][e] = KleeneHere(known, n, below, e)
      BY KleeneAtIs
    <2>3. CASE n = 0
      BY <2>2, <2>3 DEF KleeneHere
    <2>4. CASE n # 0
      <3>1. n - 1 \in Nat /\ n - 1 < n
        BY <2>4
      <3>2. Holds(n - 1)
        BY <1>1, <3>1
      <3>3. e.op \in Compounds => \A i \in DOMAIN e.items :
              /\ below[e.items[i]] = "true" => truth[e.items[i]]
              /\ below[e.items[i]] = "false" => ~ truth[e.items[i]]
        BY <3>2, OperandsAreExpressions
      <3> HIDE DEF below
      <3>4. CASE e.op = "all"
        <4>1. KleeneAt(known)[n][e] = KleeneAll(values)
          BY <2>2, <2>4, <3>4 DEF KleeneHere
        <4>2. KleeneAll(values) = "true" => values \subseteq {"true"}
          BY DEF KleeneAll
        <4>3. KleeneAll(values) = "false" => "false" \in values
          BY DEF KleeneAll
        <4>4. truth[e] <=> \A i \in DOMAIN e.items : truth[e.items[i]]
          BY <3>4 DEF Completions
        <4>5. values \subseteq {"true"} => truth[e]
          BY <3>3, <3>4, <4>4 DEF Compounds
        <4>6. "false" \in values => ~ truth[e]
          BY <3>3, <3>4, <4>4 DEF Compounds
        <4> QED  BY <4>1, <4>2, <4>3, <4>5, <4>6
      <3>5. CASE e.op = "any"
        <4>1. KleeneAt(known)[n][e] = KleeneAny(values)
          BY <2>2, <2>4, <3>5 DEF KleeneHere
        <4>2. KleeneAny(values) = "true" => "true" \in values
          BY DEF KleeneAny
        <4>3. KleeneAny(values) = "false" => values \subseteq {"false"}
          BY DEF KleeneAny
        <4>4. truth[e] <=> \E i \in DOMAIN e.items : truth[e.items[i]]
          BY <3>5 DEF Completions
        <4>5. "true" \in values => truth[e]
          BY <3>3, <3>5, <4>4 DEF Compounds
        <4>6. values \subseteq {"false"} => ~ truth[e]
          BY <3>3, <3>5, <4>4 DEF Compounds
        <4> QED  BY <4>1, <4>2, <4>3, <4>5, <4>6
      <3>6. CASE e.op \notin Compounds
        BY <2>2, <2>4, <3>6 DEF KleeneHere, Compounds, Completions
      <3> QED  BY <3>4, <3>5, <3>6 DEF Compounds
    <2> QED  BY <2>3, <2>4
  <1>2. good = Nat
    <2>1. good \in SUBSET Nat
      OBVIOUS
    <2> HIDE DEF good
    <2> QED  BY <1>1, <2>1, NeverFirst
  <1> QED  BY <1>2

---------------------------------------------------------------------------
(* Evidence of which some has gone missing.                                *)
Dwindled(known, lost) == \A f \in Facts : lost[f] = known[f] \/ lost[f] = "absent"

(* What Kleene's logic decides without it, it decides the same with it.    *)
LEMMA LostDecidesTheSame ==
  ASSUME NEW known, NEW lost, Dwindled(known, lost)
  PROVE  \A n \in Nat, e \in Expressions :
           KleeneAt(lost)[n][e] \in {"true", "false"} => KleeneAt(known)[n][e] = KleeneAt(lost)[n][e]
  <1> DEFINE Same(n) == \A e \in Expressions :
               KleeneAt(lost)[n][e] \in {"true", "false"} => KleeneAt(known)[n][e] = KleeneAt(lost)[n][e]
             good == {n \in Nat : Same(n)}
  <1>1. ASSUME NEW n \in Nat, \A m \in Nat : m < n => m \in good PROVE n \in good
    <2>1. SUFFICES ASSUME NEW e \in Expressions, KleeneAt(lost)[n][e] \in {"true", "false"}
                   PROVE  KleeneAt(known)[n][e] = KleeneAt(lost)[n][e]
      OBVIOUS
    <2> DEFINE below == KleeneAt(known)[n - 1]
               less == KleeneAt(lost)[n - 1]
               values == {below[e.items[i]] : i \in DOMAIN e.items}
               fewer == {less[e.items[i]] : i \in DOMAIN e.items}
    <2>2. /\ KleeneAt(known)[n][e] = KleeneHere(known, n, below, e)
          /\ KleeneAt(lost)[n][e] = KleeneHere(lost, n, less, e)
      BY KleeneAtIs
    <2>3. n # 0
      BY <2>1, <2>2 DEF KleeneHere
    <2>4. n - 1 \in Nat /\ n - 1 < n
      BY <2>3
    <2>5. Same(n - 1)
      BY <1>1, <2>4
    <2>6. e.op \in Compounds => \A i \in DOMAIN e.items :
            less[e.items[i]] \in {"true", "false"} => below[e.items[i]] = less[e.items[i]]
      BY <2>5, OperandsAreExpressions
    <2> HIDE DEF below, less
    <2>7. e.op \in Compounds =>
            /\ \A v \in {"true", "false"} : v \in fewer => v \in values
            /\ \A v \in {"true", "false"} : fewer \subseteq {v} => values \subseteq {v}
      BY <2>6
    <2> HIDE DEF values, fewer
    <2>8. CASE e.op = "all"
      <3>1. /\ KleeneAt(known)[n][e] = KleeneAll(values)
            /\ KleeneAt(lost)[n][e] = KleeneAll(fewer)
        BY <2>2, <2>3, <2>8 DEF KleeneHere, values, fewer
      <3> QED  BY <2>1, <2>7, <2>8, <3>1 DEF KleeneAll, Compounds
    <2>9. CASE e.op = "any"
      <3>1. /\ KleeneAt(known)[n][e] = KleeneAny(values)
            /\ KleeneAt(lost)[n][e] = KleeneAny(fewer)
        BY <2>2, <2>3, <2>9 DEF KleeneHere, values, fewer
      <3> QED  BY <2>1, <2>7, <2>9, <3>1 DEF KleeneAny, Compounds
    <2>10. CASE e.op = "generated"
      <3>1. Given(e, lost)
        BY <2>1, <2>2, <2>3, <2>10 DEF KleeneHere
      <3>2. Given(e, known)
        BY <2>10, <3>1, ExpressionsAssumption DEF Given, Dwindled, Numbers
      <3> QED  BY <2>2, <2>3, <2>10, <3>1, <3>2 DEF KleeneHere
    <2>11. CASE e.op \notin Compounds /\ e.op # "generated"
      <3>1. e.op # "all" /\ e.op # "any"
        BY <2>11 DEF Compounds
      <3>2. /\ e.op \in Binaries /\ Binary(e, lost) \in {"true", "false"}
            /\ KleeneAt(lost)[n][e] = Binary(e, lost)
        BY <2>1, <2>2, <2>3, <2>11, <3>1 DEF KleeneHere
      <3>3. Binary(e, known) = Binary(e, lost)
        <4>1. e.fact \in Facts
          BY <3>2, ExpressionsAssumption
        <4>2. CASE lost[e.fact] = known[e.fact]
          BY <4>2 DEF Binary
        <4>3. CASE lost[e.fact] = "absent"
          BY <3>2, <4>3 DEF Binary
        <4> QED  BY <4>1, <4>2, <4>3 DEF Dwindled
      <3> QED  BY <2>2, <2>3, <2>11, <3>1, <3>2, <3>3 DEF KleeneHere
    <2> QED  BY <2>8, <2>9, <2>10, <2>11 DEF Compounds
  <1>2. good = Nat
    <2>1. good \in SUBSET Nat
      OBVIOUS
    <2> HIDE DEF good
    <2> QED  BY <1>1, <2>1, NeverFirst
  <1> QED  BY <1>2

---------------------------------------------------------------------------
(* The decision.                                                           *)
Inv == policy \in Policies /\ limits \in AllLimits

(* The policy stays, and the limits are always some that may be given.     *)
THEOREM InvAlways == Spec => []Inv
  <1>1. Init => Inv
    BY LimitsAssumption DEF Init, Inv
  <1>2. Inv /\ [Next]_vars => Inv'
    BY DEF Inv, Next, Age, Vanish, Corrupt, Lapse, Degrade, Tighten, SlowDown, Join, vars
  <1> QED  BY <1>1, <1>2, PTL DEF Spec

(* The keys a prepared policy uses are those that were used, the rest of   *)
(* it is as it was.                                                        *)
LEMMA PreparedPolicy ==
  ASSUME NEW p \in Policies, NEW l \in AllLimits
  PROVE  LET q == Prepare(p, l) IN
         /\ q.adapter = p.adapter /\ q.time = p.time /\ q.authority = p.authority
         /\ \A k \in Used(q) : k \in Used(p) /\ q[k] \in Expressions \cup {Failed("invalid"), Failed("limit")}
  <1> DEFINE q == Prepare(p, l)
  <1>1. /\ DOMAIN p = Keys \cup {"rules", "adapter", "authority", "time"}
        /\ \A k \in Used(p) : p[k] \in Expressions
        /\ \A k \in Used(p) : q[k] \in Expressions \cup {Failed("invalid"), Failed("limit")}
    BY ExpressionsAssumption
  <1>2. \A k \in DOMAIN p \ Used(p) : q[k] = p[k]
    BY DEF Prepare
  <1> HIDE DEF q
  <1>3. \A k \in {"adapter", "time", "authority"} : k \in DOMAIN p \ Used(p)
    BY <1>1 DEF Used, Keys
  <1>4. \A k \in Used(q) : k \in Used(p)
    BY <1>1, <1>2 DEF Used
  <1> QED  BY <1>1, <1>2, <1>3, <1>4 DEF q

(* A violation is invalid or a limit; a policy in violation of nothing is  *)
(* made of expressions.                                                    *)
LEMMA ViolationIs ==
  ASSUME NEW p \in Policies, NEW l \in AllLimits, NEW rules
  PROVE  LET violation == Violation(Prepare(p, l), rules, l) IN
         /\ violation \in {None, "limit", "invalid"}
         /\ violation = None => \A k \in Used(Prepare(p, l)) : Prepare(p, l)[k] \in Expressions
  <1> DEFINE q == Prepare(p, l)
             failed == {k \in Used(q) : q[k].op = "failed"}
             worst == CHOOSE k \in failed : TRUE
  <1>1. \A k \in Used(q) : q[k] \in Expressions \cup {Failed("invalid"), Failed("limit")}
    BY PreparedPolicy
  <1>2. \A k \in failed : q[k].verdict \in {"limit", "invalid"}
    BY <1>1, ExpressionsAssumption DEF Failed
  <1>3. \A k \in Used(q) : k \notin failed => q[k] \in Expressions
    BY <1>1 DEF Failed
  <1>4. failed # {} => worst \in failed
    OBVIOUS
  <1>5. \/ Violation(q, rules, l) = "limit"
        \/ failed # {} /\ Violation(q, rules, l) = q[worst].verdict
        \/ failed = {} /\ Violation(q, rules, l) = None
    BY DEF Violation
  <1> HIDE DEF failed, worst, q
  <1>6. \/ Violation(q, rules, l) \in {"limit", "invalid"}
        \/ failed = {} /\ Violation(q, rules, l) = None
    BY <1>2, <1>4, <1>5
  <1> QED  BY <1>3, <1>6 DEF None, q

LEMMA VerdictIsCertain ==
  ASSUME Inv, SizesGiven, NEW e \in Expressions, NEW fuel \in Nat
  PROVE  /\ Eval(e, fuel) \in Results
         /\ Verdict(e, fuel) \in {"true", "false"} => Kleene(e) = Verdict(e, fuel)
  <1>1. limits.depth + 1 \in Nat
    BY LimitsAssumption DEF Inv, Limits
  <1> QED  BY <1>1, VerdictIsKleene, EvalExprIs DEF Eval, Verdict, Kleene, SizesGiven

(* What an allow rests on.                                                 *)
LEMMA AllowMeansTrue ==
  ASSUME Inv, Plain(policy), Evaluate = "allow"
  PROVE  /\ \A k \in Used(Prepared) : Prepared[k] \in Expressions
         /\ IF {"allow", "deny"} \subseteq Used(Prepared)
            THEN AllowDeny(Prepared) = "true"
            ELSE "body" \in Used(Prepared) /\ Verdict(Prepared.body, limits.fuel) = "true"
  <1> DEFINE p == Prepared
  <1>1. ~ p.adapter /\ ~ p.time
    BY PreparedPolicy DEF Inv, Plain, Prepared
  <1>2. Violation(p, policy.rules, limits) = None
    <2>1. Violation(p, policy.rules, limits) \in {None, "limit", "invalid"}
      BY ViolationIs DEF Inv, Prepared
    <2> QED  BY <2>1 DEF Evaluate, Disposition, None
  <1>3. \A k \in Used(p) : p[k] \in Expressions
    BY <1>2, ViolationIs DEF Inv, Prepared
  <1> HIDE DEF p
  <1>4. Disposition(IF slow THEN "limit" ELSE Body(p)) = "allow"
    BY <1>1, <1>2 DEF Evaluate, Disposition, p
  <1>5. Body(p) = "true"
    BY <1>4 DEF Disposition
  <1>6. IF {"allow", "deny"} \subseteq Used(p)
        THEN AllowDeny(p) = "true"
        ELSE "body" \in Used(p) /\ Verdict(p.body, limits.fuel) = "true"
    BY <1>1, <1>5 DEF Body
  <1> QED  BY <1>3, <1>6 DEF p

THEOREM InvIsCertain == Inv => AllowIsCertain
  <1> SUFFICES ASSUME Inv, Plain(policy), SizesGiven, Evaluate = "allow"
               PROVE  Certain(Prepared)
    BY DEF AllowIsCertain
  <1> DEFINE p == Prepared
  <1>1. limits.fuel \in Nat
    BY LimitsAssumption DEF Inv, Limits
  <1>2. /\ \A k \in Used(p) : p[k] \in Expressions
        /\ IF {"allow", "deny"} \subseteq Used(p)
           THEN AllowDeny(p) = "true"
           ELSE "body" \in Used(p) /\ Verdict(p.body, limits.fuel) = "true"
    BY AllowMeansTrue
  <1> HIDE DEF p
  <1>3. CASE {"allow", "deny"} \subseteq Used(p)
    <2> DEFINE d == Eval(p.deny, limits.fuel)
    <2>1. p.allow \in Expressions /\ p.deny \in Expressions
      BY <1>2, <1>3
    <2>2. d \in Results /\ (d.verdict = "false" => Kleene(p.deny) = "false")
      BY <1>1, <2>1, VerdictIsCertain DEF Verdict
    <2>3. d.verdict = "false" /\ Verdict(p.allow, d.fuel) = "true"
      BY <1>2, <1>3 DEF AllowDeny
    <2> HIDE DEF d
    <2>4. d.fuel \in Nat
      BY <2>2 DEF Results
    <2>5. Kleene(p.allow) = "true"
      BY <2>1, <2>3, <2>4, VerdictIsCertain
    <2> QED  BY <1>3, <2>2, <2>3, <2>5 DEF p, Certain
  <1>4. CASE ~ ({"allow", "deny"} \subseteq Used(p))
    <2>1. p.body \in Expressions /\ Verdict(p.body, limits.fuel) = "true"
      BY <1>2, <1>4
    <2>2. Kleene(p.body) = "true"
      BY <1>1, <2>1, VerdictIsCertain
    <2> QED  BY <1>4, <2>2 DEF p, Certain
  <1> QED  BY <1>3, <1>4

(* An allow never rests on a guess: what the policy says is true, and what *)
(* it denies false, in Kleene's logic.                                     *)
THEOREM AllowIsCertainAlways == Spec => []AllowIsCertain
  BY InvAlways, InvIsCertain, PTL

(* An allow is right however the evidence that is missing, stale or        *)
(* malformed turns out, in a plain document with the generated sizes given.*)
AllowHolds ==
  Plain(policy) /\ SizesGiven /\ Evaluate = "allow" =>
    \A truth \in Completions(facts) :
      IF {"allow", "deny"} \subseteq Used(Prepared)
      THEN truth[Prepared.allow] /\ ~ truth[Prepared.deny]
      ELSE truth[Prepared.body]

THEOREM AllowHoldsAlways == Spec => []AllowHolds
  <1>1. Inv => AllowHolds
    <2> SUFFICES ASSUME Inv, Plain(policy), SizesGiven, Evaluate = "allow", NEW truth \in Completions(facts)
                 PROVE  IF {"allow", "deny"} \subseteq Used(Prepared)
                        THEN truth[Prepared.allow] /\ ~ truth[Prepared.deny]
                        ELSE truth[Prepared.body]
      BY DEF AllowHolds
    <2> DEFINE p == Prepared
    <2>1. IF {"allow", "deny"} \subseteq Used(p)
          THEN Kleene(p.allow) = "true" /\ Kleene(p.deny) = "false"
          ELSE Kleene(p.body) = "true"
      BY InvIsCertain DEF AllowIsCertain, Certain
    <2>2. /\ \A k \in Used(p) : p[k] \in Expressions
          /\ ~ ({"allow", "deny"} \subseteq Used(p)) => "body" \in Used(p)
      BY AllowMeansTrue
    <2>3. limits.depth + 1 \in Nat
      BY LimitsAssumption DEF Inv, Limits
    <2> HIDE DEF p
    <2>4. \A e \in Expressions : /\ Kleene(e) = "true" => truth[e]
                                 /\ Kleene(e) = "false" => ~ truth[e]
      BY <2>3, KleeneHoldsInCompletions DEF Kleene
    <2> QED  BY <2>1, <2>2, <2>4 DEF p
  <1> QED  BY <1>1, InvAlways, PTL

---------------------------------------------------------------------------
(* The replacement of references, level by level.                          *)
ResolveHere(rules, l, n, below, e, stack) ==
  IF n = 0 THEN Failed("limit")
  ELSE IF e.op = "ref"
  THEN IF \E i \in DOMAIN stack : stack[i] = e.name THEN Failed("invalid")
       ELSE IF Len(stack) >= l.references THEN Failed("limit")
       ELSE IF e.name \notin DOMAIN rules THEN Failed("invalid")
       ELSE below[rules[e.name]][Append(stack, e.name)]
  ELSE IF e.op \in Compounds
  THEN LET items == [i \in DOMAIN e.items |-> below[e.items[i]][stack]]
           bad == {i \in DOMAIN items : items[i].op = "failed"} IN
       IF bad = {} THEN [op |-> e.op, items |-> items]
       ELSE items[CHOOSE i \in bad : \A j \in bad : i <= j]
  ELSE e
ResolveLevel(rules, l, n, below) ==
  [e \in Expressions |-> [stack \in Seq(DOMAIN rules) |-> ResolveHere(rules, l, n, below, e, stack)]]

(* Its results have no set of their own, so that the function is built     *)
(* from those that satisfy the equation up to some level.                  *)
LEMMA ResolveLevels ==
  ASSUME NEW rules, NEW l
  PROVE  \A n \in Nat : Resolve(rules, l)[n] = ResolveLevel(rules, l, n, Resolve(rules, l)[n - 1])
  <1> DEFINE Lev(n, below) == ResolveLevel(rules, l, n, below)
             Levels(f) == [n \in Nat |-> Lev(n, f[n - 1])]
             resolve == CHOOSE f : f = Levels(f)
             Upto(n, g) == \A i \in Nat : i <= n => g[i] = Lev(i, g[i - 1])
  <1>1. Resolve(rules, l) = resolve
    BY DEF Resolve, ResolveLevel, ResolveHere
  <1>2. \A one, other : Lev(0, one) = Lev(0, other)
    BY DEF ResolveLevel, ResolveHere
  <1> HIDE DEF Lev
  <1> DEFINE good == {n \in Nat : \E g : Upto(n, g)}
  <1>3. ASSUME NEW n \in Nat, \A m \in Nat : m < n => m \in good PROVE n \in good
    <2>1. CASE n = 0
      <3> DEFINE g == [i \in 0 .. 0 |-> Lev(0, 0)]
      <3>1. g[0] = Lev(0, g[0 - 1])
        BY <1>2
      <3>2. Upto(n, g)
        BY <2>1, <3>1
      <3> HIDE DEF Upto
      <3> QED  BY <3>2
    <2>2. CASE n # 0
      <3>1. n - 1 \in Nat /\ n - 1 < n
        BY <2>2
      <3>2. PICK g : Upto(n - 1, g)
        BY <1>3, <3>1
      <3> DEFINE h == [i \in 0 .. n |-> IF i = n THEN Lev(n, g[n - 1]) ELSE g[i]]
      <3>3. ASSUME NEW i \in Nat, i <= n PROVE h[i] = Lev(i, h[i - 1])
        <4>1. CASE i = 0
          <5>1. h[i] = g[i] /\ g[i] = Lev(i, g[i - 1])
            BY <2>2, <3>1, <3>2, <4>1
          <5> HIDE DEF h
          <5> QED  BY <1>2, <4>1, <5>1
        <4>2. CASE i # 0
          <5>1. i - 1 \in 0 .. n /\ i - 1 # n /\ i \in 0 .. n
            BY <3>3, <4>2
          <5>2. h[i - 1] = g[i - 1]
            BY <5>1
          <5>3. i = n => h[i] = Lev(i, g[i - 1])
            BY <5>1
          <5>4. i # n => h[i] = g[i] /\ i <= n - 1
            BY <3>3, <5>1
          <5>5. i # n => g[i] = Lev(i, g[i - 1])
            BY <3>2, <5>4
          <5> HIDE DEF h
          <5> QED  BY <5>2, <5>3, <5>4, <5>5
        <4> QED  BY <4>1, <4>2
      <3>4. Upto(n, h)
        <4> HIDE DEF h
        <4> QED  BY <3>3
      <3> HIDE DEF Upto, h
      <3> QED  BY <3>4
    <2> QED  BY <2>1, <2>2
  <1>4. good = Nat
    <2>1. good \in SUBSET Nat
      OBVIOUS
    <2> HIDE DEF good
    <2> QED  BY <1>3, <2>1, NeverFirst
  <1>5. ASSUME NEW n \in Nat, NEW g, NEW h, Upto(n, g), Upto(n + 1, h) PROVE g[n] = h[n]
    <2> DEFINE same == {i \in Nat : i <= n => g[i] = h[i]}
    <2>1. ASSUME NEW i \in Nat, \A j \in Nat : j < i => j \in same PROVE i \in same
      <3>1. i <= n => g[i] = Lev(i, g[i - 1]) /\ h[i] = Lev(i, h[i - 1])
        BY <1>5
      <3>2. CASE i = 0
        BY <1>2, <3>1, <3>2
      <3>3. CASE i # 0
        <4>1. i - 1 \in Nat /\ i - 1 < i /\ (i <= n => i - 1 <= n)
          BY <3>3
        <4>2. i <= n => g[i - 1] = h[i - 1]
          BY <2>1, <4>1
        <4> QED  BY <3>1, <4>2
      <3> QED  BY <3>2, <3>3
    <2>2. same = Nat
      <3>1. same \in SUBSET Nat
        OBVIOUS
      <3> HIDE DEF same
      <3> QED  BY <2>1, <3>1, NeverFirst
    <2> QED  BY <2>2
  <1> DEFINE approx(n) == CHOOSE g : Upto(n, g)
             f == [n \in Nat |-> approx(n)[n]]
  <1>6. \A n \in Nat : Upto(n, approx(n))
    <2> HIDE DEF Upto
    <2> QED  BY <1>4
  <1>7. \A n \in Nat : approx(n)[n] = Lev(n, approx(n)[n - 1])
    <2> HIDE DEF approx
    <2> QED  BY <1>6
  <1>8. f = Levels(f)
    <2>1. ASSUME NEW n \in Nat PROVE f[n] = Lev(n, f[n - 1])
      <3>1. CASE n = 0
        <4>1. f[n] = Lev(n, approx(n)[n - 1])
          BY <1>7
        <4> HIDE DEF f, approx
        <4> QED  BY <1>2, <3>1, <4>1
      <3>2. CASE n # 0
        <4>1. n - 1 \in Nat /\ (n - 1) + 1 = n
          BY <3>2
        <4>2. Upto(n - 1, approx(n - 1)) /\ Upto((n - 1) + 1, approx(n))
          BY <1>6, <4>1
        <4>3. approx(n - 1)[n - 1] = approx(n)[n - 1]
          <5> HIDE DEF Upto, approx
          <5> QED  BY <1>5, <4>1, <4>2
        <4>4. f[n] = Lev(n, approx(n)[n - 1]) /\ f[n - 1] = approx(n - 1)[n - 1]
          BY <1>7, <4>1
        <4> HIDE DEF f, approx
        <4> QED  BY <4>3, <4>4
      <3> QED  BY <3>1, <3>2
    <2> QED  BY <2>1
  <1>9. resolve = Levels(resolve)
    <2> HIDE DEF Levels, f
    <2> QED  BY <1>8
  <1>10. \A n \in Nat : resolve[n] = Lev(n, resolve[n - 1])
    <2> HIDE DEF resolve
    <2> QED  BY <1>9
  <1> HIDE DEF resolve
  <1> QED  BY <1>1, <1>10 DEF Lev

LEMMA ResolveIs ==
  ASSUME NEW rules, NEW l, NEW n \in Nat, NEW e \in Expressions, NEW stack \in Seq(DOMAIN rules)
  PROVE  Resolve(rules, l)[n][e][stack] = ResolveHere(rules, l, n, Resolve(rules, l)[n - 1], e, stack)
  <1>1. Resolve(rules, l)[n] = ResolveLevel(rules, l, n, Resolve(rules, l)[n - 1])
    BY ResolveLevels
  <1> QED  BY <1>1 DEF ResolveLevel

(* What is replaced within some limits is replaced alike within wider      *)
(* ones.                                                                   *)
LEMMA ResolveWithin ==
  ASSUME NEW rules, \A r \in DOMAIN rules : rules[r] \in Expressions,
         NEW l \in Limits, NEW tight \in Limits, tight.references <= l.references
  PROVE  \A m \in Nat : \A n \in Nat, e \in Expressions, stack \in Seq(DOMAIN rules) :
           m <= n /\ Resolve(rules, tight)[m][e][stack].op # "failed" =>
             Resolve(rules, l)[n][e][stack] = Resolve(rules, tight)[m][e][stack]
  <1> DEFINE Within(m) == \A n \in Nat, e \in Expressions, stack \in Seq(DOMAIN rules) :
               m <= n /\ Resolve(rules, tight)[m][e][stack].op # "failed" =>
                 Resolve(rules, l)[n][e][stack] = Resolve(rules, tight)[m][e][stack]
             good == {m \in Nat : Within(m)}
  <1>1. ASSUME NEW m \in Nat, \A k \in Nat : k < m => k \in good PROVE m \in good
    <2>1. SUFFICES ASSUME NEW n \in Nat, NEW e \in Expressions, NEW stack \in Seq(DOMAIN rules),
                          m <= n, Resolve(rules, tight)[m][e][stack].op # "failed"
                   PROVE  Resolve(rules, l)[n][e][stack] = Resolve(rules, tight)[m][e][stack]
      OBVIOUS
    <2> DEFINE below == Resolve(rules, l)[n - 1]
               tightly == Resolve(rules, tight)[m - 1]
    <2>2. /\ Resolve(rules, l)[n][e][stack] = ResolveHere(rules, l, n, below, e, stack)
          /\ Resolve(rules, tight)[m][e][stack] = ResolveHere(rules, tight, m, tightly, e, stack)
      BY ResolveIs
    <2>3. \A verdict : Failed(verdict).op = "failed"
      BY DEF Failed
    <2>4. m # 0
      BY <2>1, <2>2, <2>3 DEF ResolveHere
    <2>5. m - 1 \in Nat /\ n - 1 \in Nat /\ m - 1 < m /\ m - 1 <= n - 1 /\ n # 0
      BY <2>1, <2>4
    <2>6. Within(m - 1)
      BY <1>1, <2>5
    <2>7. \A item \in Expressions, st \in Seq(DOMAIN rules) :
            tightly[item][st].op # "failed" => below[item][st] = tightly[item][st]
      BY <2>5, <2>6
    <2>8. ResolveHere(rules, tight, m, tightly, e, stack).op # "failed"
      BY <2>1, <2>2
    <2> HIDE DEF below, tightly
    <2>9. CASE e.op = "ref"
      <3>1. /\ ~ \E i \in DOMAIN stack : stack[i] = e.name
            /\ ~ (Len(stack) >= tight.references)
            /\ e.name \in DOMAIN rules
            /\ ResolveHere(rules, tight, m, tightly, e, stack) = tightly[rules[e.name]][Append(stack, e.name)]
        BY <2>3, <2>4, <2>8, <2>9 DEF ResolveHere
      <3>2. ~ (Len(stack) >= l.references)
        BY <3>1 DEF Limits
      <3>3. rules[e.name] \in Expressions /\ Append(stack, e.name) \in Seq(DOMAIN rules)
        BY <3>1
      <3>4. below[rules[e.name]][Append(stack, e.name)] = tightly[rules[e.name]][Append(stack, e.name)]
        BY <2>7, <2>8, <3>1, <3>3
      <3>5. ResolveHere(rules, l, n, below, e, stack) = below[rules[e.name]][Append(stack, e.name)]
        BY <2>5, <2>9, <3>1, <3>2 DEF ResolveHere
      <3> QED  BY <2>2, <3>1, <3>4, <3>5
    <2>10. CASE e.op \in Compounds
      <3> DEFINE wide == [i \in DOMAIN e.items |-> below[e.items[i]][stack]]
                 items == [i \in DOMAIN e.items |-> tightly[e.items[i]][stack]]
                 bad == {i \in DOMAIN items : items[i].op = "failed"}
                 worst == CHOOSE i \in bad : \A j \in bad : i <= j
                 failed == {i \in DOMAIN wide : wide[i].op = "failed"}
      <3>1. e.op # "ref"
        BY <2>10 DEF Compounds
      <3>2. ResolveHere(rules, tight, m, tightly, e, stack) =
              IF bad = {} THEN [op |-> e.op, items |-> items] ELSE items[worst]
        BY <2>4, <2>10, <3>1 DEF ResolveHere
      <3>3. bad = {}
        <4> SUFFICES ASSUME bad # {} PROVE FALSE
          OBVIOUS
        <4>1. bad \in SUBSET Nat
          BY <2>10, OperandsAreExpressions
        <4>2. \E i \in bad : \A j \in bad : i <= j
          <5> HIDE DEF bad
          <5> QED  BY <4>1, LeastNatural
        <4>3. worst \in bad
          <5> HIDE DEF bad
          <5> QED  BY <4>2
        <4>4. items[worst].op = "failed"
          <5> HIDE DEF worst
          <5> QED  BY <4>3
        <4> HIDE DEF items, worst, bad
        <4> QED  BY <2>8, <3>2, <4>4
      <3>4. ASSUME NEW i \in DOMAIN e.items PROVE below[e.items[i]][stack] = tightly[e.items[i]][stack]
        <4>1. e.items[i] \in Expressions
          BY <2>10, OperandsAreExpressions
        <4>2. tightly[e.items[i]][stack].op # "failed"
          BY <3>3
        <4> QED  BY <2>7, <4>1, <4>2
      <3>5. wide = items
        BY <3>4
      <3>6. ResolveHere(rules, l, n, below, e, stack) =
              IF failed = {} THEN [op |-> e.op, items |-> wide]
              ELSE wide[CHOOSE i \in failed : \A j \in failed : i <= j]
        BY <2>5, <2>10, <3>1 DEF ResolveHere
      <3> HIDE DEF wide, items
      <3>7. failed = {}
        BY <3>3, <3>5
      <3> HIDE DEF failed, bad
      <3> QED  BY <2>2, <3>2, <3>3, <3>5, <3>6, <3>7
    <2>11. CASE e.op # "ref" /\ e.op \notin Compounds
      BY <2>2, <2>4, <2>5, <2>11 DEF ResolveHere
    <2> QED  BY <2>9, <2>10, <2>11
  <1>2. good = Nat
    <2>1. good \in SUBSET Nat
      OBVIOUS
    <2> HIDE DEF good
    <2> QED  BY <1>1, <2>1, NeverFirst
  <1> QED  BY <1>2

---------------------------------------------------------------------------
(* The evaluation in a worse environment: `aged` facts, where ages may be  *)
(* malformed as well, and `tight` limits.                                  *)
Aged(known, aged) ==
  \A f \in Facts : aged[f] = known[f] \/ (f \in AgeFacts /\ aged[f] \in {"large", "list"})
Tightened(l, tight) == \A k \in {"depth", "nodes", "collection", "fuel", "references", "rules"} : tight[k] <= l[k]

(* The verdicts that do not get worse: what gives one of them in a worse   *)
(* environment gives the same in a better one, for the same fuel.          *)
Sure == {"true", "false", "unknown"}
Keeps(r, fuel, tr, tightFuel) ==
  tr.verdict \in Sure => r.verdict = tr.verdict /\ tr.fuel + fuel = r.fuel + tightFuel

LEMMA BinaryKeeps ==
  ASSUME AgesAreBounded, NEW known, NEW aged, Aged(known, aged),
         NEW e \in Expressions, e.op \in Binaries, Binary(e, aged) \in Sure
  PROVE  Binary(e, known) = Binary(e, aged)
  <1>1. e.fact \in Facts
    BY ExpressionsAssumption
  <1>2. CASE aged[e.fact] = known[e.fact]
    BY <1>2 DEF Binary
  <1>3. CASE e.fact \in AgeFacts /\ aged[e.fact] = "large"
    <2>1. e.op = "lte"
      BY <1>3 DEF AgesAreBounded
    <2>2. Binary(e, aged) = "stale"
      BY <1>3, <2>1 DEF Binary
    <2> QED  BY <2>2 DEF Sure
  <1>4. CASE e.fact \in AgeFacts /\ aged[e.fact] = "list"
    <2>1. e.op = "lte"
      BY <1>4 DEF AgesAreBounded
    <2>2. Binary(e, aged) = "invalid"
      BY <1>4, <2>1 DEF Binary
    <2> QED  BY <2>2 DEF Sure
  <1> QED  BY <1>1, <1>2, <1>3, <1>4 DEF Aged

LEMMA GeneratedKeeps ==
  ASSUME NEW known, NEW aged, Aged(known, aged),
         NEW l \in Limits, NEW tight \in Limits, Tightened(l, tight),
         NEW e \in Expressions, e.op = "generated", Generated(e, aged, tight) \in Sure
  PROVE  Generated(e, known, l) = Generated(e, aged, tight)
  <1> DEFINE size(facted) == IF e.limit = "depth" THEN e.size ELSE Amount(facted[e.fact])
  <1>1. e.limit \in {"depth", "collection", "fuel"}
    BY ExpressionsAssumption
  <1>2. tight[e.limit] \in Nat /\ l[e.limit] \in Nat /\ tight[e.limit] <= l[e.limit]
    BY <1>1 DEF Limits, Tightened
  <1>3. size(known) \in Nat /\ size(aged) \in Nat /\ size(known) <= size(aged)
    <2>1. CASE e.limit = "depth"
      BY <2>1, ExpressionsAssumption
    <2>2. CASE e.limit # "depth"
      <3>1. aged[e.fact] = known[e.fact]
        BY <2>2, ExpressionsAssumption DEF Aged
      <3> QED  BY <2>2, <3>1 DEF Amount
    <2> QED  BY <2>1, <2>2
  <1>4. /\ Generated(e, known, l) = IF size(known) > l[e.limit] THEN "limit" ELSE "true"
        /\ Generated(e, aged, tight) = IF size(aged) > tight[e.limit] THEN "limit" ELSE "true"
    BY DEF Generated
  <1> HIDE DEF size
  <1>5. ~ (size(aged) > tight[e.limit])
    BY <1>4 DEF Sure
  <1>6. ~ (size(known) > l[e.limit])
    BY <1>2, <1>3, <1>5
  <1> QED  BY <1>4, <1>5, <1>6

(* The loops keep step until an operand is no longer sure.                 *)
BelowKeeps(below, tightly) ==
  \A e \in Expressions, fuel \in Nat, tightFuel \in Nat :
    tightFuel <= fuel => Keeps(below[e][fuel], fuel, tightly[e][tightFuel], tightFuel)

LEMMA ItemsKeep ==
  ASSUME NEW e \in Expressions, e.op \in Compounds,
         NEW below \in Evaluators, NEW tightly \in Evaluators, BelowKeeps(below, tightly),
         NEW fuel \in Nat, NEW tightFuel \in Nat, tightFuel <= fuel
  PROVE  Keeps(EvalItems(e, below, fuel), fuel, EvalItems(e, tightly, tightFuel), tightFuel)
  <1> DEFINE len == Len(e.items)
  <1>1. len \in Nat
    BY OperandsAreExpressions
  <1>2. PICK after : Run(e, below, fuel, after) /\ EvalItems(e, below, fuel) = after[len].result
    BY EvalItemsRun
  <1>3. PICK tight : Run(e, tightly, tightFuel, tight) /\ EvalItems(e, tightly, tightFuel) = tight[len].result
    BY EvalItemsRun
  <1> DEFINE InStep(i) ==
               /\ tight[i].ended \/ tight[i].result.verdict \in Sure
               /\ tight[i].result.verdict \in Sure => (after[i].ended <=> tight[i].ended)
               /\ Keeps(after[i].result, fuel, tight[i].result, tightFuel)
             good == {i \in Nat : i <= len => InStep(i)}
  <1>4. Neutral(e.op) \in Sure /\ Remembered(e.op) \in Sure
    BY DEF Neutral, Remembered, Sure
  <1>5. InStep(0)
    <2>1. after[0] = Begin(e, fuel) /\ tight[0] = Begin(e, tightFuel)
      BY <1>2, <1>3 DEF Run
    <2>2. /\ ~ after[0].ended /\ after[0].result.verdict = Neutral(e.op) /\ after[0].result.fuel = fuel
          /\ ~ tight[0].ended /\ tight[0].result.verdict = Neutral(e.op) /\ tight[0].result.fuel = tightFuel
      BY <2>1, BeginIsLoop
    <2> QED  BY <1>4, <2>2 DEF Keeps
  <1>6. ASSUME NEW i \in 1 .. len, InStep(i - 1) PROVE InStep(i)
    <2>1. i - 1 \in 0 .. len
      BY <1>1
    <2>2. /\ after[i - 1] \in Loops /\ after[i] = AfterItem(e, below, i, after[i - 1])
          /\ tight[i - 1] \in Loops /\ tight[i] = AfterItem(e, tightly, i, tight[i - 1])
      BY <1>2, <1>3, <2>1 DEF Run
    <2> DEFINE f == after[i - 1].result.fuel
               tf == tight[i - 1].result.fuel
    <2>3. f \in Nat /\ tf \in Nat
      BY <2>2 DEF Loops, Results
    <2>4. CASE tight[i - 1].ended
      <3>1. tight[i] = tight[i - 1]
        BY <2>2, <2>4 DEF AfterItem
      <3>2. tight[i - 1].result.verdict \in Sure => after[i] = after[i - 1]
        BY <1>6, <2>2, <2>4 DEF AfterItem
      <3> QED  BY <1>6, <2>4, <3>1, <3>2 DEF Keeps
    <2>5. CASE ~ tight[i - 1].ended
      <3>1. /\ ~ after[i - 1].ended
            /\ tight[i - 1].result.verdict \in Sure
            /\ after[i - 1].result.verdict = tight[i - 1].result.verdict
            /\ tf + fuel = f + tightFuel
        BY <1>6, <2>5 DEF Keeps
      <3>2. tf <= f
        BY <2>3, <3>1
      <3> DEFINE r == below[e.items[i]][f]
                 tr == tightly[e.items[i]][tf]
      <3>3. e.items[i] \in Expressions
        BY OperandsAreExpressions
      <3>4. r \in Results /\ tr \in Results
        BY <2>3, <3>3 DEF Evaluators
      <3>5. Keeps(r, f, tr, tf)
        BY <2>3, <3>2, <3>3 DEF BelowKeeps
      <3>6. /\ after[i] = AfterOperand(e.op)[after[i - 1]][r]
            /\ tight[i] = AfterOperand(e.op)[tight[i - 1]][tr]
        BY <2>2, <2>5, <3>1 DEF AfterItem
      <3> HIDE DEF r, tr, f, tf
      <3>7. /\ after[i].ended <=> r.verdict \notin {Neutral(e.op), Remembered(e.op)}
            /\ after[i].result = IF r.verdict = Neutral(e.op)
                                 THEN Result(after[i - 1].result.verdict, r.fuel) ELSE r
            /\ tight[i].ended <=> tr.verdict \notin {Neutral(e.op), Remembered(e.op)}
            /\ tight[i].result = IF tr.verdict = Neutral(e.op)
                                 THEN Result(tight[i - 1].result.verdict, tr.fuel) ELSE tr
        BY <2>2, <3>4, <3>6, AfterOperandIs
      <3>8. r.fuel \in Nat /\ tr.fuel \in Nat
        BY <3>4 DEF Results
      <3>9. tr.verdict \in Sure => r.verdict = tr.verdict /\ tr.fuel + fuel = r.fuel + tightFuel
        <4>1. ASSUME NEW x \in Nat, NEW y \in Nat, y + f = x + tf PROVE y + fuel = x + tightFuel
          BY <2>3, <3>1, <4>1
        <4>2. tr.verdict \in Sure => r.verdict = tr.verdict /\ tr.fuel + f = r.fuel + tf
          BY <3>5 DEF Keeps
        <4> QED  BY <3>8, <4>1, <4>2
      <3>10. CASE tr.verdict = Neutral(e.op)
        <4>1. /\ ~ tight[i].ended /\ ~ after[i].ended
              /\ tight[i].result = Result(tight[i - 1].result.verdict, tr.fuel)
              /\ after[i].result = Result(tight[i - 1].result.verdict, r.fuel)
          BY <1>4, <3>1, <3>7, <3>9, <3>10
        <4>2. /\ tight[i].result.verdict = tight[i - 1].result.verdict /\ tight[i].result.fuel = tr.fuel
              /\ after[i].result.verdict = tight[i - 1].result.verdict /\ after[i].result.fuel = r.fuel
          BY <4>1 DEF Result
        <4> QED  BY <1>4, <3>1, <3>9, <3>10, <4>1, <4>2 DEF Keeps
      <3>11. CASE tr.verdict # Neutral(e.op)
        <4>1. tight[i].result = tr
          BY <3>7, <3>11
        <4>2. tr.verdict \in Sure => after[i].result = r
          BY <3>7, <3>9, <3>11
        <4>3. tight[i].ended \/ tr.verdict \in Sure
          BY <1>4, <3>7
        <4>4. tr.verdict \in Sure => (after[i].ended <=> tight[i].ended)
          BY <3>7, <3>9
        <4> QED  BY <3>9, <4>1, <4>2, <4>3, <4>4 DEF Keeps
      <3> QED  BY <3>10, <3>11
    <2> QED  BY <2>4, <2>5
  <1>7. ASSUME NEW i \in Nat, \A j \in Nat : j < i => j \in good PROVE i \in good
    <2> HIDE DEF InStep
    <2>1. CASE i = 0
      BY <1>5, <2>1
    <2>2. CASE i # 0 /\ i <= len
      <3>1. i - 1 \in Nat /\ i - 1 < i /\ i - 1 <= len /\ i \in 1 .. len
        BY <1>1, <2>2
      <3>2. InStep(i - 1)
        BY <1>7, <3>1
      <3> QED  BY <1>6, <3>1, <3>2
    <2> QED  BY <2>1, <2>2
  <1>8. good = Nat
    <2>1. good \in SUBSET Nat
      OBVIOUS
    <2> HIDE DEF good
    <2> QED  BY <1>7, <2>1, NeverFirst
  <1>9. InStep(len)
    <2> HIDE DEF InStep
    <2> QED  BY <1>1, <1>8
  <1> QED  BY <1>2, <1>3, <1>9

LEMMA EvalKeeps ==
  ASSUME AgesAreBounded, NEW known, NEW aged, Aged(known, aged),
         NEW l \in Limits, NEW tight \in Limits, Tightened(l, tight)
  PROVE  \A m \in Nat : \A n \in Nat : m <= n =>
           BelowKeeps(EvalExpr(l, known)[n], EvalExpr(tight, aged)[m])
  <1> DEFINE Kept(m) == \A n \in Nat : m <= n =>
               BelowKeeps(EvalExpr(l, known)[n], EvalExpr(tight, aged)[m])
             good == {m \in Nat : Kept(m)}
  <1>1. ASSUME NEW m \in Nat, \A k \in Nat : k < m => k \in good PROVE m \in good
    <2>1. SUFFICES ASSUME NEW n \in Nat, m <= n, NEW e \in Expressions,
                          NEW fuel \in Nat, NEW tightFuel \in Nat, tightFuel <= fuel,
                          EvalExpr(tight, aged)[m][e][tightFuel].verdict \in Sure
                   PROVE  Keeps(EvalExpr(l, known)[n][e][fuel], fuel,
                                EvalExpr(tight, aged)[m][e][tightFuel], tightFuel)
      BY DEF BelowKeeps, Keeps
    <2> DEFINE below == EvalExpr(l, known)[n - 1]
               tightly == EvalExpr(tight, aged)[m - 1]
    <2>2. /\ EvalExpr(l, known)[n][e][fuel] = EvalHere(l, known, n, below, e, fuel)
          /\ EvalExpr(tight, aged)[m][e][tightFuel] = EvalHere(tight, aged, m, tightly, e, tightFuel)
          /\ n # 0 => below \in Evaluators
          /\ m # 0 => tightly \in Evaluators
      BY EvalExprIs
    <2>3. m # 0 /\ tightFuel # 0
      BY <2>1, <2>2 DEF EvalHere, Result, Sure
    <2>4. /\ m - 1 \in Nat /\ n - 1 \in Nat /\ m - 1 < m /\ m - 1 <= n - 1 /\ n # 0
          /\ fuel # 0 /\ tightFuel - 1 \in Nat /\ fuel - 1 \in Nat /\ tightFuel - 1 <= fuel - 1
      BY <2>1, <2>3
    <2>5. Kept(m - 1)
      BY <1>1, <2>4
    <2>6. BelowKeeps(below, tightly)
      BY <2>4, <2>5
    <2>7. below \in Evaluators /\ tightly \in Evaluators
      BY <2>2, <2>3, <2>4
    <2> HIDE DEF below, tightly
    <2>8. SUFFICES Keeps(EvalHere(l, known, n, below, e, fuel), fuel,
                         EvalHere(tight, aged, m, tightly, e, tightFuel), tightFuel)
      BY <2>2
    <2>9. ASSUME NEW verdict, NEW worst, worst \in Sure => verdict = worst
          PROVE  Keeps(Result(verdict, fuel - 1), fuel, Result(worst, tightFuel - 1), tightFuel)
      BY <2>4, <2>9 DEF Keeps, Result
    <2>10. CASE e.op = "generated"
      <3>1. Generated(e, aged, tight) \in Sure => Generated(e, known, l) = Generated(e, aged, tight)
        BY <2>10, GeneratedKeeps
      <3>2. /\ EvalHere(l, known, n, below, e, fuel) = Result(Generated(e, known, l), fuel - 1)
            /\ EvalHere(tight, aged, m, tightly, e, tightFuel) = Result(Generated(e, aged, tight), tightFuel - 1)
        BY <2>3, <2>4, <2>10 DEF EvalHere
      <3> QED  BY <2>9, <3>1, <3>2
    <2>11. CASE e.op \in Compounds
      <3>1. e.op # "generated"
        BY <2>11 DEF Compounds
      <3>2. /\ EvalHere(l, known, n, below, e, fuel) = EvalItems(e, below, fuel - 1)
            /\ EvalHere(tight, aged, m, tightly, e, tightFuel) = EvalItems(e, tightly, tightFuel - 1)
        BY <2>3, <2>4, <2>11, <3>1 DEF EvalHere
      <3>3. Keeps(EvalItems(e, below, fuel - 1), fuel - 1, EvalItems(e, tightly, tightFuel - 1), tightFuel - 1)
        BY <2>4, <2>6, <2>7, <2>11, ItemsKeep
      <3>4. EvalItems(e, below, fuel - 1).fuel \in Nat /\ EvalItems(e, tightly, tightFuel - 1).fuel \in Nat
        BY <2>4, <2>7, <2>11, EvalItemsType DEF Results
      <3> QED  BY <2>4, <3>2, <3>3, <3>4 DEF Keeps
    <2>12. CASE e.op \in Binaries
      <3>1. e.op # "generated" /\ e.op \notin Compounds
        BY <2>12 DEF Compounds, Binaries
      <3>2. Binary(e, aged) \in Sure => Binary(e, known) = Binary(e, aged)
        BY <2>12, BinaryKeeps
      <3>3. /\ EvalHere(l, known, n, below, e, fuel) = Result(Binary(e, known), fuel - 1)
            /\ EvalHere(tight, aged, m, tightly, e, tightFuel) = Result(Binary(e, aged), tightFuel - 1)
        BY <2>3, <2>4, <2>12, <3>1 DEF EvalHere
      <3> QED  BY <2>9, <3>2, <3>3
    <2>13. CASE e.op # "generated" /\ e.op \notin Compounds /\ e.op \notin Binaries
      <3>1. /\ EvalHere(l, known, n, below, e, fuel) = Result("invalid", fuel - 1)
            /\ EvalHere(tight, aged, m, tightly, e, tightFuel) = Result("invalid", tightFuel - 1)
        BY <2>3, <2>4, <2>13 DEF EvalHere
      <3> QED  BY <2>9, <3>1
    <2> QED  BY <2>10, <2>11, <2>12, <2>13
  <1>2. good = Nat
    <2>1. good \in SUBSET Nat
      OBVIOUS
    <2> HIDE DEF good
    <2> QED  BY <1>1, <2>1, NeverFirst
  <1> QED  BY <1>2

---------------------------------------------------------------------------
(* A policy that is prepared within some limits is so within wider ones.   *)
LEMMA LimitsAre ==
  ASSUME NEW l \in AllLimits
  PROVE  /\ l \in Limits
         /\ l.depth \in Nat /\ l.nodes \in Nat /\ l.collection \in Nat /\ l.fuel \in Nat /\ l.references \in Nat /\ l.rules \in Nat
         /\ DOMAIN l = {"depth", "nodes", "collection", "fuel", "references", "rules"}
  BY LimitsAssumption DEF Limits

LEMMA PreparedWithin ==
  ASSUME NEW p \in Policies, NEW l \in AllLimits, NEW tight \in AllLimits, Tightened(l, tight),
         Violation(Prepare(p, tight), p.rules, tight) = None
  PROVE  Prepare(p, l) = Prepare(p, tight)
  <1> DEFINE q == Prepare(p, tight)
             levels(m) == m.depth + m.references + 1
             entry(m, k) == IF k \in Used(p) THEN Resolve(p.rules, m)[levels(m)][p[k]][<<>>] ELSE p[k]
  <1>1. CASE DOMAIN p.rules = {}
    BY <1>1 DEF Prepare
  <1>2. CASE DOMAIN p.rules # {}
    <2>1. /\ Prepare(p, l) = [k \in DOMAIN p |-> entry(l, k)]
          /\ q = [k \in DOMAIN p |-> entry(tight, k)]
      BY <1>2 DEF Prepare
    <2>2. ASSUME NEW k \in Used(p) PROVE entry(l, k) = entry(tight, k)
      <3>1. /\ k \in DOMAIN p /\ p[k] \in Expressions
            /\ q[k] \in Expressions \cup {Failed("invalid"), Failed("limit")}
        BY ExpressionsAssumption DEF Used
      <3>2. q[k].op # "failed"
        <4>1. q[k].op = "failed" => k \in Used(q)
          BY DEF Used, None
        <4>2. k \in Used(q) => q[k] \in Expressions
          BY ViolationIs
        <4> HIDE DEF q
        <4> QED  BY <4>1, <4>2, ExpressionsAssumption
      <3>3. q[k] = Resolve(p.rules, tight)[levels(tight)][p[k]][<<>>]
        BY <2>1, <3>1
      <3>4. levels(tight) \in Nat /\ levels(l) \in Nat /\ levels(tight) <= levels(l)
        BY LimitsAre DEF Tightened
      <3>5. \A r \in DOMAIN p.rules : p.rules[r] \in Expressions
        BY ExpressionsAssumption
      <3>6. <<>> \in Seq(DOMAIN p.rules)
        OBVIOUS
      <3>7. tight.references <= l.references /\ l \in Limits /\ tight \in Limits
        BY LimitsAre DEF Tightened
      <3> HIDE DEF q, levels
      <3>8. Resolve(p.rules, l)[levels(l)][p[k]][<<>>] = Resolve(p.rules, tight)[levels(tight)][p[k]][<<>>]
        <4>1. \A m \in Nat : \A n \in Nat, e \in Expressions, stack \in Seq(DOMAIN p.rules) :
                m <= n /\ Resolve(p.rules, tight)[m][e][stack].op # "failed" =>
                  Resolve(p.rules, l)[n][e][stack] = Resolve(p.rules, tight)[m][e][stack]
          BY <3>5, <3>7, ResolveWithin
        <4>2. Resolve(p.rules, tight)[levels(tight)][p[k]][<<>>].op # "failed"
          BY <3>2, <3>3
        <4> QED  BY <3>1, <3>4, <3>6, <4>1, <4>2
      <3> QED  BY <3>8
    <2>3. \A k \in DOMAIN p : entry(l, k) = entry(tight, k)
      <3>1. \A k : k \notin Used(p) => entry(l, k) = entry(tight, k)
        OBVIOUS
      <3> HIDE DEF entry
      <3> QED  BY <2>2, <3>1
    <2> HIDE DEF entry
    <2> QED  BY <2>1, <2>3
  <1> QED  BY <1>1, <1>2

LEMMA SizesAreNumbers ==
  ASSUME NEW e \in Expressions
  PROVE  Size[e].nodes \in Nat /\ Size[e].height \in Nat
  BY ExpressionsAssumption

LEMMA ViolationWithin ==
  ASSUME NEW p \in Policies, NEW l \in AllLimits, NEW tight \in AllLimits, Tightened(l, tight),
         Violation(Prepare(p, tight), p.rules, tight) = None
  PROVE  Violation(Prepare(p, l), p.rules, l) = None
  <1> DEFINE q == Prepare(p, tight)
             rules == p.rules
             failed == {k \in Used(q) : q[k].op = "failed"}
  <1>1. Prepare(p, l) = q
    BY PreparedWithin
  <1>2. \A k \in Used(q) : q[k] \in Expressions
    BY ViolationIs
  <1>3. /\ Cardinality(DOMAIN rules) \in Nat
        /\ \A r \in DOMAIN rules : rules[r] \in Expressions
    BY ExpressionsAssumption, FS_CardinalityType
  <1>4. /\ tight.rules \in Nat /\ l.rules \in Nat /\ tight.rules <= l.rules
        /\ tight.nodes \in Nat /\ l.nodes \in Nat /\ tight.nodes <= l.nodes
        /\ tight.depth \in Nat /\ l.depth \in Nat /\ tight.depth <= l.depth
    BY LimitsAre DEF Tightened
  <1> HIDE DEF q
  <1>5. failed = {}
    BY <1>2, ExpressionsAssumption
  <1> HIDE DEF rules, failed
  <1>6. /\ ~ (Cardinality(DOMAIN rules) > tight.rules)
        /\ ~ \E r \in DOMAIN rules : TooLarge(rules[r], tight)
        /\ ~ DocumentTooLarge(q, tight)
    <2>1. Violation(q, rules, tight) = None
      BY DEF q, rules
    <2> QED  BY <1>5, <2>1 DEF Violation, None, failed
  <1>7. ~ (Cardinality(DOMAIN rules) > l.rules)
    BY <1>3, <1>4, <1>6
  <1>8. ~ \E r \in DOMAIN rules : TooLarge(rules[r], l)
    <2> SUFFICES ASSUME NEW r \in DOMAIN rules PROVE ~ TooLarge(rules[r], l)
      OBVIOUS
    <2>1. ~ TooLarge(rules[r], tight) /\ rules[r] \in Expressions
      BY <1>3, <1>6
    <2> QED  BY <1>4, <2>1, SizesAreNumbers DEF TooLarge
  <1>9. ~ DocumentTooLarge(q, l)
    <2> DEFINE flags == (IF q.adapter THEN 1 ELSE 0) + (IF q.time THEN 1 ELSE 0) + (IF q.authority THEN 2 ELSE 0)
               body == IF "body" \in Used(q) THEN Size[q.body].nodes ELSE 1
               total == body + flags + NodesOf(q, "allow") + NodesOf(q, "deny")
               deep(k, m) == Size[q[k]].height + (IF k = "body" THEN 0 ELSE 1) > m.depth
    <2>1. \A m : DocumentTooLarge(q, m) <=> (total > m.nodes \/ \E k \in Used(q) : deep(k, m))
      BY DEF DocumentTooLarge
    <2>2. total \in Nat
      <3>1. flags \in Nat
        OBVIOUS
      <3>2. body \in Nat
        BY <1>2, SizesAreNumbers
      <3>3. NodesOf(q, "allow") \in Nat /\ NodesOf(q, "deny") \in Nat
        BY <1>2, SizesAreNumbers DEF NodesOf
      <3> HIDE DEF flags, body
      <3> QED  BY <3>1, <3>2, <3>3
    <2>3. ASSUME NEW k \in Used(q), deep(k, l) PROVE deep(k, tight)
      <3>1. Size[q[k]].height \in Nat
        BY <1>2, SizesAreNumbers
      <3> QED  BY <1>4, <2>3, <3>1
    <2> HIDE DEF total, deep
    <2> QED  BY <1>4, <1>6, <2>1, <2>2, <2>3
  <1>10. Violation(q, rules, l) = None
    BY <1>5, <1>7, <1>8, <1>9 DEF Violation, failed
  <1> QED  BY <1>1, <1>10 DEF rules

---------------------------------------------------------------------------
(* When the evaluator allows, as a condition on everything it looks at.    *)
Allows(pol, l, known, ctx, late) ==
  LET p == Prepare(pol, l)
      eval == EvalExpr(l, known)[l.depth + 1]
      both == {"allow", "deny"} \subseteq Used(p)
      d == eval[p.deny][l.fuel] IN
  /\ Compliant(l) /\ Violation(p, pol.rules, l) = None
  /\ IF p.adapter THEN ctx.adapter = "allow"
     ELSE /\ p.authority => ctx.authority
          /\ ~ late
          /\ IF p.time THEN ctx.time = "fresh" /\ (both => d.verdict # "true")
             ELSE IF both THEN d.verdict = "false" /\ eval[p.allow][d.fuel].verdict = "true"
             ELSE "body" \in Used(p) /\ eval[p.body][l.fuel].verdict = "true"

AllowsWhen == Evaluate = "allow" <=> Allows(policy, limits, facts, context, slow)

LEMMA EvaluateAllows == Inv => AllowsWhen
  <1> SUFFICES ASSUME Inv PROVE Evaluate = "allow" <=> Allows(policy, limits, facts, context, slow)
    BY DEF AllowsWhen
  <1> DEFINE p == Prepare(policy, limits)
             violation == Violation(p, policy.rules, limits)
             both == {"allow", "deny"} \subseteq Used(p)
             d == Eval(p.deny, limits.fuel)
  <1>1. violation \in {None, "limit", "invalid"}
    BY ViolationIs DEF Inv
  <1>2. \A v : Disposition(v) = "allow" <=> v = "true"
    BY DEF Disposition
  <1>3. AllowDeny(p) = "true" <=> d.verdict = "false" /\ Verdict(p.allow, d.fuel) = "true"
    BY DEF AllowDeny
  <1>4. Body(p) = "true" <=>
          IF p.time THEN context.time = "fresh"
          ELSE IF both THEN d.verdict = "false" /\ Verdict(p.allow, d.fuel) = "true"
          ELSE "body" \in Used(p) /\ Verdict(p.body, limits.fuel) = "true"
    BY <1>3 DEF Body
  <1>5. Evaluate = "allow" <=>
          /\ Compliant(limits) /\ violation = None
          /\ IF p.adapter THEN context.adapter = "allow"
             ELSE /\ ~ (p.authority /\ ~ context.authority)
                  /\ ~ (both /\ d.verdict = "true")
                  /\ Disposition(IF slow THEN "limit" ELSE Body(p)) = "allow"
    <2> HIDE DEF p
    <2>1. violation # None => Disposition(violation) # "allow"
      BY <1>1, <1>2
    <2>2. Disposition("invalid") # "allow"
      BY <1>2
    <2>3. Prepared = p
      BY DEF Prepared, p
    <2> HIDE DEF violation, both
    <2>4. Evaluate =
            IF ~ Compliant(limits) THEN Disposition("invalid")
            ELSE IF violation # None THEN Disposition(violation)
            ELSE IF p.adapter THEN IF context.adapter = "allow" THEN "allow" ELSE "indeterminate"
            ELSE IF p.authority /\ ~ context.authority THEN "deny"
            ELSE IF both /\ d.verdict = "true" THEN "deny"
            ELSE Disposition(IF slow THEN "limit" ELSE Body(p))
      BY <2>3 DEF Evaluate, violation, both, Verdict
    <2> HIDE DEF d
    <2> QED  BY <2>1, <2>2, <2>4
  <1>6. Disposition(IF slow THEN "limit" ELSE Body(p)) = "allow" <=> ~ slow /\ Body(p) = "true"
    BY <1>2
  <1>7. /\ d = EvalExpr(limits, facts)[limits.depth + 1][p.deny][limits.fuel]
        /\ \A e, fuel : Verdict(e, fuel) = EvalExpr(limits, facts)[limits.depth + 1][e][fuel].verdict
    BY DEF Eval, Verdict
  <1> HIDE DEF p, d
  <1> QED  BY <1>4, <1>5, <1>6, <1>7 DEF Allows, p

(* What may have lapsed.                                                   *)
Lapsed(ctx, lapsed) ==
  /\ lapsed.adapter = "allow" => ctx.adapter = "allow"
  /\ lapsed.authority => ctx.authority
  /\ lapsed.time = "fresh" => ctx.time = "fresh"

(* What is allowed in a worse environment is allowed in a better one.      *)
LEMMA WorseNeverAllows ==
  ASSUME AgesAreBounded, TimeStandsAlone,
         NEW pol \in Policies, NEW l \in AllLimits, NEW tight \in AllLimits,
         Tightened(l, tight), Tightened(DefaultLimits, l),
         NEW known, NEW aged, Aged(known, aged), NEW ctx, NEW lapsed, Lapsed(ctx, lapsed),
         NEW late, NEW later, late => later,
         Allows(pol, tight, aged, lapsed, later)
  PROVE  Allows(pol, l, known, ctx, late)
  <1> DEFINE p == Prepare(pol, l)
             both == {"allow", "deny"} \subseteq Used(p)
             eval == EvalExpr(l, known)[l.depth + 1]
             tightly == EvalExpr(tight, aged)[tight.depth + 1]
             d == eval[p.deny][l.fuel]
             td == tightly[p.deny][tight.fuel]
  <1>1. Violation(Prepare(pol, tight), pol.rules, tight) = None /\ Compliant(tight)
    BY DEF Allows
  <1>2. Prepare(pol, tight) = p
    BY <1>1, PreparedWithin
  <1>3. Violation(p, pol.rules, l) = None
    BY <1>1, ViolationWithin
  <1>4. \A k \in Used(p) : p[k] \in Expressions
    BY <1>3, ViolationIs
  <1>5. p.time = pol.time
    BY PreparedPolicy
  <1>6. p.time => ~ both
    <2>1. \A k \in Used(p) : k \in Used(pol)
      BY PreparedPolicy
    <2> QED  BY <1>5, <2>1 DEF TimeStandsAlone
  <1> HIDE DEF p
  <1>7. IF p.adapter THEN lapsed.adapter = "allow"
        ELSE /\ p.authority => lapsed.authority
             /\ ~ later
             /\ IF p.time THEN lapsed.time = "fresh" /\ (both => td.verdict # "true")
                ELSE IF both THEN td.verdict = "false" /\ tightly[p.allow][td.fuel].verdict = "true"
                ELSE "body" \in Used(p) /\ tightly[p.body][tight.fuel].verdict = "true"
    BY <1>2 DEF Allows
  <1>8. Compliant(l)
    <2>1. \A k \in {"depth", "nodes", "collection", "fuel", "references", "rules"} :
            0 < tight[k] /\ tight[k] <= l[k] /\ l[k] <= DefaultLimits[k] /\ tight[k] \in Nat /\ l[k] \in Nat
      BY <1>1, LimitsAre DEF Compliant, Tightened
    <2>2. DOMAIN l = {"depth", "nodes", "collection", "fuel", "references", "rules"}
      BY LimitsAre
    <2>3. \A x \in Nat, y \in Nat : 0 < x /\ x <= y => 0 < y
      OBVIOUS
    <2> QED  BY <2>1, <2>2, <2>3 DEF Compliant
  <1>9. BelowKeeps(eval, tightly) /\ eval \in Evaluators /\ tightly \in Evaluators
    <2>1. /\ l.depth + 1 \in Nat /\ tight.depth + 1 \in Nat /\ tight.depth + 1 <= l.depth + 1
          /\ l \in Limits /\ tight \in Limits
      BY LimitsAre DEF Tightened
    <2>2. BelowKeeps(eval, tightly)
      BY <2>1, EvalKeeps
    <2> QED  BY <2>1, <2>2, EvalExprLevels
  <1>10. l.fuel \in Nat /\ tight.fuel \in Nat /\ tight.fuel <= l.fuel
    BY LimitsAre DEF Tightened
  <1> HIDE DEF eval, tightly
  <1>11. CASE both
    <2>1. p.allow \in Expressions /\ p.deny \in Expressions
      BY <1>4, <1>11
    <2>2. d \in Results /\ td \in Results /\ Keeps(d, l.fuel, td, tight.fuel)
      BY <1>9, <1>10, <2>1 DEF BelowKeeps, Evaluators
    <2> HIDE DEF d, td
    <2>3. d.fuel \in Nat /\ td.fuel \in Nat
      BY <2>2 DEF Results
    <2>4. td.verdict = "false" => d.verdict = "false" /\ td.fuel <= d.fuel
      BY <1>10, <2>2, <2>3 DEF Keeps, Sure
    <2>5. td.verdict = "false" /\ tightly[p.allow][td.fuel].verdict = "true" =>
            eval[p.allow][d.fuel].verdict = "true"
      <3>1. td.fuel <= d.fuel => Keeps(eval[p.allow][d.fuel], d.fuel, tightly[p.allow][td.fuel], td.fuel)
        BY <1>9, <2>1, <2>3 DEF BelowKeeps
      <3> QED  BY <2>4, <3>1 DEF Keeps, Sure
    <2>6. IF p.adapter THEN ctx.adapter = "allow"
          ELSE /\ p.authority => ctx.authority
               /\ ~ late
               /\ ~ p.time /\ d.verdict = "false" /\ eval[p.allow][d.fuel].verdict = "true"
      BY <1>6, <1>7, <1>11, <2>4, <2>5 DEF Lapsed
    <2> QED  BY <1>3, <1>8, <1>11, <2>6 DEF Allows, p, eval, d
  <1>12. CASE ~ both
    <2>1. ~ p.adapter /\ ~ p.time => "body" \in Used(p) /\ eval[p.body][l.fuel].verdict = "true"
      <3>1. SUFFICES ASSUME ~ p.adapter, ~ p.time
                     PROVE  "body" \in Used(p) /\ eval[p.body][l.fuel].verdict = "true"
        OBVIOUS
      <3>2. "body" \in Used(p) /\ tightly[p.body][tight.fuel].verdict = "true"
        BY <1>7, <1>12, <3>1
      <3>3. Keeps(eval[p.body][l.fuel], l.fuel, tightly[p.body][tight.fuel], tight.fuel)
        BY <1>4, <1>9, <1>10, <3>2 DEF BelowKeeps
      <3> QED  BY <3>2, <3>3 DEF Keeps, Sure
    <2>2. IF p.adapter THEN ctx.adapter = "allow"
          ELSE /\ p.authority => ctx.authority
               /\ ~ late
               /\ p.time => ctx.time = "fresh"
      BY <1>7 DEF Lapsed
    <2> QED  BY <1>3, <1>8, <1>12, <2>1, <2>2 DEF Allows, p, eval
  <1> QED  BY <1>11, <1>12

---------------------------------------------------------------------------
(* The world around the policy, and that it only gets worse.               *)
World ==
  /\ facts \in [Facts -> Values]
  /\ context \in [adapter: {"allow", "error"}, authority: BOOLEAN, time: {"fresh", "expired", "absent"}]
  /\ slow \in BOOLEAN
  /\ candidate \in [compatibility: {"compatible", "incompatible", "unknown"}, expired: BOOLEAN]
  /\ Tightened(DefaultLimits, limits)

LEMMA TightenedIsOrder ==
  /\ \A l \in AllLimits : Tightened(l, l)
  /\ \A l \in AllLimits, m \in AllLimits, n \in AllLimits :
       Tightened(l, m) /\ Tightened(m, n) => Tightened(l, n)
  <1>1. \A l \in AllLimits : \A k \in {"depth", "nodes", "collection", "fuel", "references", "rules"} : l[k] \in Nat
    BY LimitsAre
  <1>2. \A x \in Nat, y \in Nat, z \in Nat : x <= x /\ (y <= x /\ z <= y => z <= x)
    OBVIOUS
  <1> QED  BY <1>1, <1>2 DEF Tightened

(* What a step does to the world.                                          *)
Worsens ==
  /\ policy' = policy
  /\ Tightened(limits, limits')
  /\ Aged(facts, facts')
  /\ Lapsed(context, context')
  /\ slow => slow'
  /\ others \subseteq others'
  /\ ~ candidate'.expired => ~ candidate.expired
  /\ candidate'.compatibility = "compatible" => candidate.compatibility = "compatible"

Dwindles == EvidenceLost /\ policy' = policy /\ limits' = limits /\ Dwindled(facts, facts')

LEMMA StepWorsens == Inv /\ World /\ [Next]_vars => (Worsens \/ Dwindles) /\ World'
  <1> SUFFICES ASSUME Inv, World, [Next]_vars PROVE (Worsens \/ Dwindles) /\ World'
    OBVIOUS
  <1> USE DEF World
  <1>1. Tightened(limits, limits)
    BY TightenedIsOrder DEF Inv
  <1>2. Aged(facts, facts) /\ Lapsed(context, context)
    BY DEF Aged, Lapsed
  <1>3. ASSUME NEW f \in Facts, Age(f), policy' = policy PROVE Worsens /\ World'
    <2>1. facts' \in [Facts -> Values] /\ Aged(facts, facts')
      BY <1>3 DEF Age, Aged, Values, Numbers
    <2> QED  BY <1>1, <1>2, <1>3, <2>1 DEF Age, Worsens
  <1>4. ASSUME Lapse, policy' = policy PROVE Worsens /\ World'
    <2>1. /\ context' \in [adapter: {"allow", "error"}, authority: BOOLEAN, time: {"fresh", "expired", "absent"}]
          /\ Lapsed(context, context')
      <3>1. CASE context.adapter = "allow" /\ context' = [context EXCEPT !.adapter = "error"]
        BY <3>1 DEF Lapsed
      <3>2. CASE context.authority /\ context' = [context EXCEPT !.authority = FALSE]
        BY <3>2 DEF Lapsed
      <3>3. CASE context.time = "fresh" /\ context' = [context EXCEPT !.time = "expired"]
        BY <3>3 DEF Lapsed
      <3> QED  BY <1>4, <3>1, <3>2, <3>3 DEF Lapse
    <2> QED  BY <1>1, <1>2, <1>4, <2>1 DEF Lapse, Worsens
  <1>5. ASSUME Degrade, policy' = policy PROVE Worsens /\ World'
    <2>1. /\ candidate' \in [compatibility: {"compatible", "incompatible", "unknown"}, expired: BOOLEAN]
          /\ ~ candidate'.expired => ~ candidate.expired
          /\ candidate'.compatibility = "compatible" => candidate.compatibility = "compatible"
      <3>1. CASE ~ candidate.expired /\ candidate' = [candidate EXCEPT !.expired = TRUE]
        BY <3>1
      <3>2. ASSUME NEW c \in {"incompatible", "unknown"}, candidate' = [candidate EXCEPT !.compatibility = c],
                   candidate.compatibility = "compatible"
            PROVE  /\ candidate' \in [compatibility: {"compatible", "incompatible", "unknown"}, expired: BOOLEAN]
                   /\ ~ candidate'.expired => ~ candidate.expired
                   /\ candidate'.compatibility = "compatible" => candidate.compatibility = "compatible"
        BY <3>2
      <3> QED  BY <1>5, <3>1, <3>2 DEF Degrade
    <2> QED  BY <1>1, <1>2, <1>5, <2>1 DEF Degrade, Worsens
  <1>6. ASSUME SlowDown, policy' = policy PROVE Worsens /\ World'
    BY <1>1, <1>2, <1>6 DEF SlowDown, Worsens
  <1>7. ASSUME NEW l \in AllLimits, Tighten(l), policy' = policy PROVE Worsens /\ World'
    <2>1. Tightened(limits, limits')
      BY <1>7, LimitsAre DEF Tighten, Tightened
    <2>2. Tightened(DefaultLimits, limits')
      BY <1>7, <2>1, TightenedIsOrder, LimitsAssumption DEF Inv, Tighten
    <2> QED  BY <1>2, <1>7, <2>1, <2>2 DEF Tighten, Worsens
  <1>8. ASSUME NEW source \in Sources, Join(source), policy' = policy PROVE Worsens /\ World'
    BY <1>1, <1>2, <1>8 DEF Join, Worsens
  <1>9. ASSUME UNCHANGED vars PROVE Worsens /\ World'
    BY <1>1, <1>2, <1>9 DEF vars, Worsens
  <1>10. ASSUME NEW f \in Facts, Vanish(f), policy' = policy PROVE Dwindles /\ World'
    <2>1. facts' \in [Facts -> Values] /\ Dwindled(facts, facts') /\ EvidenceLost
      BY <1>10 DEF Vanish, Dwindled, EvidenceLost, Values, Numbers
    <2> QED  BY <1>10, <2>1 DEF Vanish, Dwindles
  <1>11. ASSUME NEW f \in Facts, Corrupt(f), policy' = policy PROVE Worsens /\ World'
    <2>1. facts' \in [Facts -> Values] /\ Aged(facts, facts')
      BY <1>11 DEF Corrupt, Aged, Values, Numbers
    <2> QED  BY <1>1, <1>2, <1>11, <2>1 DEF Corrupt, Worsens
  <1> QED  BY <1>3, <1>4, <1>5, <1>6, <1>7, <1>8, <1>9, <1>10, <1>11 DEF Next

THEOREM WorldAlways == Spec => [](Inv /\ World)
  <1>1. Init => World
    <2> SUFFICES ASSUME Init PROVE World
      OBVIOUS
    <2>1. Tightened(DefaultLimits, limits)
      BY TightenedIsOrder, LimitsAssumption DEF Init
    <2>2. context \in [adapter: {"allow", "error"}, authority: BOOLEAN, time: {"fresh", "expired", "absent"}]
      BY DEF Init
    <2> QED  BY <2>1, <2>2 DEF Init, World
  <1>2. Inv /\ World /\ [Next]_vars => World'
    BY StepWorsens
  <1> QED  BY <1>1, <1>2, InvAlways, PTL DEF Spec

(* An effective allow and an eligible candidate need an allow of the       *)
(* policy, of every other source, and of the candidate.                    *)
LEMMA EffectiveAllows ==
  ASSUME NEW decision
  PROVE  /\ Effective(decision) \in {"deny", "allow", "indeterminate"}
         /\ Effective(decision) = "allow" <=>
              decision = "allow" /\ \A s \in others : s.decision = "allow"
  BY DEF Effective

LEMMA EligibleMeans ==
  ASSUME World, NEW effective \in {"deny", "allow", "indeterminate"}
  PROVE  Eligibility(effective) = "eligible" <=>
           effective = "allow" /\ ~ candidate.expired /\ candidate.compatibility = "compatible"
  BY DEF World, Eligibility

(* While the evidence is there, no policy, effective policy or candidate   *)
(* is allowed or eligible after a step that was not so before it: an age   *)
(* that grows, expires or is no number, a failing adapter, a withdrawn     *)
(* authority, tighter limits, a slow machine and a further source only     *)
(* take away.  When evidence goes missing, a plain policy that then allows *)
(* was already true on the evidence there was.  For documents whose ages   *)
(* are only bounded and whose evidence time stands alone.                  *)
THEOREM NothingWorseWidensAlways ==
  ASSUME AgesAreBounded, TimeStandsAlone
  PROVE  Spec => NothingWorseWidens
  <1> DEFINE Narrows ==
        \A before \in {Evaluate}, now \in {Evaluate'} :
          /\ now = "allow" => before = "allow"
          /\ Effective(now)' = "allow" => Effective(before) = "allow"
          /\ Eligibility(Effective(now))' = "eligible" => Eligibility(Effective(before)) = "eligible"
             WasTrue ==
        \A now \in {Evaluate'} : now = "allow" /\ Plain(policy) /\ SizesGiven' => Certain(Prepared)
  <1>1. Inv' => AllowsWhen' /\ AllowIsCertain'
    BY EvaluateAllows, InvIsCertain, PTL
  <1>2. Inv' => (Evaluate' = "allow" <=> Allows(policy', limits', facts', context', slow'))
    BY <1>1 DEF AllowsWhen
  <1>3. ASSUME Inv, World, Inv', World', Worsens PROVE Narrows
    <2>1. Evaluate' = "allow" => Evaluate = "allow"
      <3>1. SUFFICES ASSUME Allows(policy, limits', facts', context', slow')
                     PROVE  Allows(policy, limits, facts, context, slow)
        BY <1>2, <1>3, EvaluateAllows DEF AllowsWhen, Worsens
      <3>2. policy \in Policies /\ limits \in AllLimits /\ limits' \in AllLimits
        BY <1>3 DEF Inv
      <3>3. Tightened(DefaultLimits, limits)
        BY <1>3 DEF World
      <3> QED  BY <1>3, <3>1, <3>2, <3>3, WorseNeverAllows DEF Worsens
    <2>2. ASSUME NEW before, before = Evaluate, NEW now, now = Evaluate'
          PROVE  /\ now = "allow" => before = "allow"
                 /\ Effective(now)' = "allow" => Effective(before) = "allow"
                 /\ Eligibility(Effective(now))' = "eligible" => Eligibility(Effective(before)) = "eligible"
      <3>1. now = "allow" => before = "allow"
        BY <2>1, <2>2
      <3>2. /\ Effective(now)' \in {"deny", "allow", "indeterminate"}
            /\ Effective(now)' = "allow" <=> now = "allow" /\ \A s \in others' : s.decision = "allow"
        BY DEF Effective
      <3>3. Effective(now)' = "allow" => Effective(before) = "allow"
        BY <1>3, <3>1, <3>2, EffectiveAllows DEF Worsens
      <3>4. Eligibility(Effective(now))' = "eligible" =>
              /\ Effective(now)' = "allow" /\ ~ candidate'.expired
              /\ candidate'.compatibility = "compatible"
        BY <1>3, <3>2 DEF World, Eligibility
      <3>5. Eligibility(Effective(now))' = "eligible" => Eligibility(Effective(before)) = "eligible"
        BY <1>3, <3>3, <3>4, EffectiveAllows, EligibleMeans DEF Worsens
      <3> QED  BY <3>1, <3>3, <3>5
    <2> QED  BY <2>2
  <1>4. ASSUME Inv, Inv', Dwindles PROVE WasTrue
    <2> SUFFICES ASSUME Evaluate' = "allow", Plain(policy), SizesGiven' PROVE Certain(Prepared)
      OBVIOUS
    <2> DEFINE p == Prepare(policy, limits)
    <2>1. policy' = policy /\ limits' = limits /\ Dwindled(facts, facts')
      BY <1>4 DEF Dwindles
    <2>2. Prepared = p /\ Prepared' = p
      BY <2>1 DEF Prepared
    <2>3. Allows(policy, limits, facts', context', slow')
      BY <1>2, <1>4, <2>1
    <2>4. \A k \in Used(p) : p[k] \in Expressions
      <3>1. Violation(p, policy.rules, limits) = None
        BY <2>3 DEF Allows
      <3> QED  BY <1>4, <3>1, ViolationIs DEF Inv
    <2>5. ~ p.adapter /\ ~ p.time
      BY <1>4, PreparedPolicy DEF Inv, Plain
    <2> HIDE DEF p
    <2>6. {"allow", "deny"} \subseteq Used(p) \/ "body" \in Used(p)
      BY <2>3, <2>5 DEF Allows, p
    <2> DEFINE lost == KleeneAt(facts')[limits.depth + 1]
    <2>7. IF {"allow", "deny"} \subseteq Used(p)
          THEN lost[p.allow] = "true" /\ lost[p.deny] = "false"
          ELSE lost[p.body] = "true"
      <3>1. Certain(Prepared)'
        BY <1>1, <1>4, <2>1 DEF AllowIsCertain, Plain
      <3> QED  BY <2>1, <2>2, <3>1 DEF Certain, Kleene
    <2>8. \A e \in Expressions :
            lost[e] \in {"true", "false"} => KleeneAt(facts)[limits.depth + 1][e] = lost[e]
      <3>1. limits.depth + 1 \in Nat
        BY <1>4, LimitsAssumption DEF Inv, Limits
      <3> QED  BY <2>1, <3>1, LostDecidesTheSame
    <2> HIDE DEF lost
    <2>9. CASE {"allow", "deny"} \subseteq Used(p)
      <3>1. Kleene(p.allow) = "true" /\ Kleene(p.deny) = "false"
        BY <2>4, <2>7, <2>8, <2>9 DEF Kleene
      <3> QED  BY <2>2, <2>9, <3>1 DEF Certain
    <2>10. CASE ~ ({"allow", "deny"} \subseteq Used(p))
      <3>1. Kleene(p.body) = "true"
        BY <2>4, <2>6, <2>7, <2>8, <2>10 DEF Kleene
      <3> QED  BY <2>2, <2>10, <3>1 DEF Certain
    <2> QED  BY <2>9, <2>10
  <1>5. Worsens => ~ EvidenceLost
    BY DEF Worsens, Aged, EvidenceLost
  <1>6. Inv /\ World /\ Inv' /\ World' /\ [Next]_vars => [IF EvidenceLost THEN WasTrue ELSE Narrows]_vars
    BY <1>3, <1>4, <1>5, StepWorsens DEF Dwindles
  <1> QED  BY <1>6, WorldAlways, PTL DEF Spec, NothingWorseWidens
=============================================================================
