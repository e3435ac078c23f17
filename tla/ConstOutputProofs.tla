------------------------- MODULE ConstOutputProofs -------------------------
(***************************************************************************)
(* Proofs about ConstOutput, for every number of inputs and of patterns to *)
(* draw: the loop counter counts distinct patterns, and therefore the loop *)
(* cannot be left when there are fewer patterns than are asked for; and    *)
(* how wrong a constant can be that takes an output's place.               *)
(***************************************************************************)
EXTENDS ConstOutput, FiniteSetTheorems, TLAPS

(* There are as many patterns as sets of inputs that may be 1.             *)
LEMMA PatternCount == IsFiniteSet(AllPatterns) /\ Cardinality(AllPatterns) = 2 ^ InputNum
<1> DEFINE g == [S \in SUBSET Ids |-> [k \in Ids |-> IF k \in S THEN "1" ELSE "0"]]
<1>1. IsFiniteSet(Ids) /\ Cardinality(Ids) = InputNum
  <2>1. PICK m \in Nat : m = InputNum
    BY InputNumAssumption
  <2>2. PICK v \in Int : v = m - 1
    OBVIOUS
  <2>3. IsFiniteSet(0 .. v) /\ Cardinality(0 .. v) = IF 0 > v THEN 0 ELSE v - 0 + 1
    BY FS_Interval
  <2> QED BY <2>1, <2>2, <2>3 DEF Ids
<1>2. IsFiniteSet(SUBSET Ids) /\ Cardinality(SUBSET Ids) = 2 ^ InputNum
  BY <1>1, FS_SUBSET
<1>3. \A S \in SUBSET Ids : g[S] \in AllPatterns
  BY DEF AllPatterns, PatternsOn, Bit
<1>4. ASSUME NEW S \in SUBSET Ids, NEW T \in SUBSET Ids, g[S] = g[T] PROVE S = T
  <2>1. \A k \in Ids : g[S][k] = g[T][k]
    BY <1>4
  <2>2. \A k \in Ids : k \in S <=> k \in T
    BY <2>1
  <2> QED BY <2>2
<1>5. ASSUME NEW p \in AllPatterns PROVE \E S \in SUBSET Ids : g[S] = p
  <2> DEFINE S == {k \in Ids : p[k] = "1"}
  <2>1. p \in [Ids -> {"0", "1"}]
    BY DEF AllPatterns, PatternsOn, Bit
  <2>2. g[S] = p
    BY <2>1
  <2> QED BY <2>2
<1>6. ExistsBijection(SUBSET Ids, AllPatterns)
  <2>1. g \in [SUBSET Ids -> AllPatterns]
    BY <1>3
  <2> HIDE DEF g
  <2>2. g \in Bijection(SUBSET Ids, AllPatterns)
    BY <1>4, <1>5, <2>1 DEF Bijection, Injection, Surjection, IsInjective
  <2> QED BY <2>2 DEF ExistsBijection
<1> QED BY <1>2, <1>6, FS_Bijection

LEMMA PatternsFinite == IsFiniteSet(AllPatterns)
BY PatternCount

(* Drawing an unseen pattern adds one to the count, a seen one nothing.    *)
LEMMA DrawCounts ==
  ASSUME NEW S \in SUBSET AllPatterns, NEW p \in AllPatterns
  PROVE  /\ IsFiniteSet(S)
         /\ Cardinality(S \union {p})
              = IF p \in S THEN Cardinality(S) ELSE Cardinality(S) + 1
BY PatternsFinite, FS_Subset, FS_AddElement

(* The counter always equals the number of distinct patterns drawn.        *)
THEOREM TypeCorrect == Spec => []TypeOK
<1> USE InputNumAssumption, PatternNumsAssumption
<1>1. Init => TypeOK
  BY FS_EmptySet DEF Init, TypeOK
<1>2. TypeOK /\ [Next]_vars => TypeOK'
  <2> SUFFICES ASSUME TypeOK, [Next]_vars PROVE TypeOK'
    OBVIOUS
  <2>1. ASSUME NEW p \in AllPatterns, Draw(p) PROVE TypeOK'
    <3>1. i' = Cardinality(ppp')
      BY <2>1, DrawCounts DEF Draw, TypeOK
    <3>2. i' \in 0 .. PatternNums
      BY <2>1 DEF Draw, TypeOK
    <3>3. answers \in [Outputs -> SUBSET ppp']
      BY <2>1 DEF Draw, TypeOK
    <3> QED BY <2>1, <3>1, <3>2, <3>3 DEF Draw, TypeOK
  <2>2. ASSUME Ask PROVE TypeOK'
    BY <2>2 DEF Ask, TypeOK
  <2>3. ASSUME Classify PROVE TypeOK'
    <3>1. \A n : Class(n) \in 0 .. 2
      BY DEF Class
    <3> QED BY <2>3, <3>1 DEF Classify, TypeOK
  <2>4. ASSUME UNCHANGED vars PROVE TypeOK'
    BY <2>4 DEF vars, TypeOK
  <2> QED BY <2>1, <2>2, <2>3, <2>4 DEF Next
<1> QED BY <1>1, <1>2, PTL DEF Spec

(* No more patterns are ever counted than there are.                       *)
LEMMA CounterBound == TypeOK => i <= Cardinality(AllPatterns)
BY PatternsFinite, FS_Subset DEF TypeOK

Drawing == pc = "draw"

(* With fewer patterns than PATTERN_NUMS the function never gets past its  *)
(* random loop, however the numbers fall: nothing is asked or classified.  *)
THEOREM TooFewPatternsNeverEnd ==
  ASSUME 2 ^ InputNum < PatternNums
  PROVE  Spec => []Drawing
<1>0. Cardinality(AllPatterns) < PatternNums
  BY PatternCount
<1>1. Init => Drawing
  BY DEF Init, Drawing
<1>2. TypeOK /\ Drawing /\ [Next]_vars => Drawing'
  <2> SUFFICES ASSUME TypeOK, Drawing, [Next]_vars PROVE Drawing'
    OBVIOUS
  <2>1. ~ Ask
    <3>1. Cardinality(AllPatterns) \in Nat /\ i \in Int
      BY PatternsFinite, FS_CardinalityType DEF TypeOK
    <3>2. i # PatternNums
      BY <1>0, <3>1, CounterBound, PatternNumsAssumption
    <3> QED BY <3>2 DEF Ask
  <2> QED BY <2>1 DEF Next, Draw, Classify, Drawing, vars
<1> QED BY <1>1, <1>2, TypeCorrect, PTL DEF Spec

UnseenLeft == Drawing /\ i < PatternNums => AllPatterns \ ppp # {}

(* With as many patterns as PATTERN_NUMS or more the loop is never without *)
(* a pattern it has not drawn, whichever it has.                           *)
THEOREM EnoughPatternsNeverRunOut ==
  ASSUME PatternNums <= 2 ^ InputNum
  PROVE  Spec => []UnseenLeft
<1>1. ASSUME TypeOK, i < PatternNums, AllPatterns \ ppp = {} PROVE FALSE
  <2>1. ppp = AllPatterns
    BY <1>1 DEF TypeOK
  <2>2. i = Cardinality(AllPatterns) /\ i \in Nat
    BY <1>1, <2>1, PatternNumsAssumption DEF TypeOK
  <2>3. PatternNums <= Cardinality(AllPatterns)
    BY PatternCount
  <2> QED BY <1>1, <2>2, <2>3, PatternNumsAssumption
<1>2. TypeOK => UnseenLeft
  BY <1>1 DEF UnseenLeft
<1> QED BY <1>2, TypeCorrect, PTL

-----------------------------------------------------------------------------
(* What the classes say of the outputs.                                    *)

(* The reversal of the columns maps patterns to patterns, one to one.      *)
LEMMA RowTwice ==
  ASSUME NEW p \in AllPatterns PROVE Row(p) \in AllPatterns /\ Row(Row(p)) = p
<1> USE InputNumAssumption DEF AllPatterns, PatternsOn, Ids
<1>1. Row(p) \in [Ids -> Bit]
  BY DEF Row
<1>2. \A k \in Ids : Row(Row(p))[k] = p[k]
  BY DEF Row
<1>3. Row(Row(p)) = p
  BY <1>2 DEF Row
<1> QED BY <1>1, <1>3

(* Patterns in W come from drawn ones in A or from ones not drawn.         *)
LEMMA WrongCount ==
  ASSUME NEW D \in SUBSET AllPatterns, NEW A \in SUBSET D, NEW W \in SUBSET AllPatterns,
         \A p \in D \ A : Row(p) \notin W
  PROVE  /\ Cardinality(A) \in Nat /\ Cardinality(D) \in Nat /\ Cardinality(W) \in Nat
         /\ Cardinality(AllPatterns) \in Nat
         /\ Cardinality(W) <= Cardinality(A) + (Cardinality(AllPatterns) - Cardinality(D))
<1>1. /\ IsFiniteSet(A) /\ IsFiniteSet(D) /\ IsFiniteSet(W)
      /\ IsFiniteSet(AllPatterns \ D) /\ IsFiniteSet(A \union (AllPatterns \ D))
  BY PatternsFinite, FS_Subset, FS_Difference, FS_Union
<1>2. /\ Cardinality(A) \in Nat /\ Cardinality(D) \in Nat /\ Cardinality(W) \in Nat
      /\ Cardinality(AllPatterns) \in Nat /\ Cardinality(AllPatterns \ D) \in Nat
      /\ Cardinality(A \intersect (AllPatterns \ D)) \in Nat
      /\ Cardinality(A \union (AllPatterns \ D)) \in Nat
  BY <1>1, PatternsFinite, FS_CardinalityType, FS_Intersection
<1>3. Cardinality(AllPatterns \ D) = Cardinality(AllPatterns) - Cardinality(D)
  <2>1. AllPatterns \intersect D = D
    OBVIOUS
  <2> QED BY <2>1, PatternsFinite, FS_Difference
<1>4. Cardinality(A \union (AllPatterns \ D))
        <= Cardinality(A) + Cardinality(AllPatterns \ D)
  <2>1. Cardinality(A \union (AllPatterns \ D))
          = Cardinality(A) + Cardinality(AllPatterns \ D)
              - Cardinality(A \intersect (AllPatterns \ D))
    BY <1>1, FS_Union
  <2> QED BY <1>2, <2>1
<1>5. Cardinality(W) <= Cardinality(A \union (AllPatterns \ D))
  <2> DEFINE f == [p \in W |-> Row(p)]
  <2>1. \A p \in W : Row(p) \in A \union (AllPatterns \ D)
    BY RowTwice
  <2>2. \A p, q \in W : Row(p) = Row(q) => p = q
    BY RowTwice
  <2>3. f \in Injection(W, A \union (AllPatterns \ D))
    BY <2>1, <2>2 DEF Injection, IsInjective
  <2> HIDE DEF f
  <2> QED BY <1>1, <2>3, FS_Injection
<1> QED BY <1>2, <1>3, <1>4, <1>5

(* Behind the loop PatternNums patterns are drawn and answered, and the    *)
(* classes are computed from the numbers of ones.                          *)
Classified ==
  /\ pc \in {"ask", "done"} =>
       /\ i = PatternNums
       /\ \A o \in Outputs : answers[o] = {p \in ppp : oracle[o][Row(p)] = "1"}
  /\ pc = "done" => \A o \in Outputs : classifyPO[o] = Class(Cardinality(answers[o]))

LEMMA ClassifiedNext == TypeOK /\ Classified /\ [Next]_vars => Classified'
<1> SUFFICES ASSUME TypeOK, Classified, [Next]_vars PROVE Classified'
  OBVIOUS
<1>1. ASSUME NEW p \in AllPatterns, Draw(p) PROVE Classified'
  BY <1>1 DEF Draw, Classified
<1>2. CASE Ask
  BY <1>2 DEF Ask, Classified, Row
<1>3. CASE Classify
  BY <1>3 DEF Classify, Classified, Row
<1>4. CASE UNCHANGED vars
  BY <1>4 DEF vars, Classified, Row
<1> QED BY <1>1, <1>2, <1>3, <1>4 DEF Next

LEMMA ClassifiedAlways == Spec => [](TypeOK /\ Classified)
<1>1. Init => Classified
  BY DEF Init, Classified
<1> QED BY <1>1, ClassifiedNext, TypeCorrect, PTL DEF Spec

(* The counts behind a class; answers other than 1 are 0.                  *)
LEMMA ClassCounts ==
  ASSUME TypeOK, Classified, pc = "done", NEW o \in Outputs
  PROVE  /\ PatternNums = Cardinality(ppp) /\ answers[o] \subseteq ppp
         /\ ppp \subseteq AllPatterns
         /\ Cardinality(answers[o]) \in 0 .. PatternNums
         /\ Cardinality(ppp \ answers[o]) = PatternNums - Cardinality(answers[o])
         /\ classifyPO[o] = Class(Cardinality(answers[o]))
         /\ \A p \in answers[o] : oracle[o][Row(p)] = "1"
         /\ \A p \in ppp \ answers[o] : oracle[o][Row(p)] = "0"
<1>1. /\ answers[o] = {p \in ppp : oracle[o][Row(p)] = "1"}
      /\ PatternNums = Cardinality(ppp) /\ ppp \subseteq AllPatterns
      /\ classifyPO[o] = Class(Cardinality(answers[o]))
  BY DEF TypeOK, Classified
<1>2. \A p \in ppp \ answers[o] : oracle[o][Row(p)] = "0"
  BY <1>1, RowTwice DEF TypeOK, Bit
<1>3. IsFiniteSet(ppp) /\ IsFiniteSet(answers[o])
  BY <1>1, PatternsFinite, FS_Subset
<1>4. ppp \intersect answers[o] = answers[o]
  BY <1>1
<1>5. Cardinality(ppp \ answers[o]) = PatternNums - Cardinality(answers[o])
  <2>1. Cardinality(ppp \ answers[o])
          = Cardinality(ppp) - Cardinality(ppp \intersect answers[o])
    BY <1>3, FS_Difference
  <2> QED BY <1>1, <1>4, <2>1
<1>6. Cardinality(answers[o]) \in Nat /\ Cardinality(answers[o]) <= PatternNums
  BY <1>1, <1>3, FS_Subset, FS_CardinalityType
<1> QED BY <1>1, <1>2, <1>5, <1>6, PatternNumsAssumption

LEMMA Scaled ==
  ASSUME NEW a \in Int, NEW b \in Int, NEW d \in Nat, a <= b PROVE a * d <= b * d
<1>1. (b - a) * d >= 0
  <2>1. b - a \in Nat
    OBVIOUS
  <2>2. \A m, n \in Nat : m * n >= 0
    OBVIOUS
  <2> QED BY <2>1, <2>2
<1>2. (b - a) * d = b * d - a * d
  OBVIOUS
<1>3. a * d \in Int /\ b * d \in Int
  OBVIOUS
<1> QED BY <1>1, <1>2, <1>3

(* An estimate from few differing answers, scaled as the code scales it.   *)
LEMMA FewDiffer ==
  ASSUME NEW few \in Nat, NEW wrong \in Nat, NEW all \in Nat,
         wrong <= few + (all - PatternNums),
         few = 0 \/ few * ThresholdDen < ThresholdNum * PatternNums
  PROVE  \/ wrong <= all - PatternNums
         \/ (wrong - (all - PatternNums)) * ThresholdDen < ThresholdNum * PatternNums
<1> USE PatternNumsAssumption, ThresholdAssumption
<1>1. CASE few = 0
  BY <1>1
<1>2. CASE few * ThresholdDen < ThresholdNum * PatternNums
  <2>1. PICK d \in Int : d = wrong - (all - PatternNums)
    OBVIOUS
  <2>2. d * ThresholdDen <= few * ThresholdDen
    BY <2>1, Scaled
  <2>3. PICK m \in Int, n \in Int, k \in Int :
          m = d * ThresholdDen /\ n = few * ThresholdDen /\ k = ThresholdNum * PatternNums
    OBVIOUS
  <2>4. m < k
    BY <1>2, <2>2, <2>3
  <2> QED BY <2>1, <2>3, <2>4
<1> QED BY <1>1, <1>2

(* Few ones: class 0; few zeros: class 1.                                  *)
LEMMA ClassFew ==
  ASSUME NEW ones \in 0 .. PatternNums
  PROVE  /\ Class(ones) = 0 => ones = 0 \/ ones * ThresholdDen < ThresholdNum * PatternNums
         /\ Class(ones) = 1 =>
              \/ PatternNums - ones = 0
              \/ (PatternNums - ones) * ThresholdDen < ThresholdNum * PatternNums
         /\ Class(ones) = 2 => ones # 0 /\ PatternNums - ones # 0
<1> USE PatternNumsAssumption, ThresholdAssumption
<1>1. ASSUME ones * ThresholdDen > (ThresholdDen - ThresholdNum) * PatternNums
      PROVE  (PatternNums - ones) * ThresholdDen < ThresholdNum * PatternNums
  <2>1. PICK a \in Int, b \in Int, c \in Int :
          a = ones * ThresholdDen /\ b = PatternNums * ThresholdDen
            /\ c = ThresholdNum * PatternNums
    OBVIOUS
  <2>2. (ThresholdDen - ThresholdNum) * PatternNums = b - c
    BY <2>1
  <2>3. (PatternNums - ones) * ThresholdDen = b - a
    BY <2>1
  <2> QED BY <1>1, <2>1, <2>2, <2>3
<1> QED BY <1>1 DEF Class

(* An output replaced by a constant differs from it on fewer of the drawn  *)
(* patterns than the threshold allows, however the draws repeat and        *)
(* although the columns are written in reverse.                            *)
THEOREM ConstantsAlmostRight == Spec => []ConstantErrorBound
<1>1. TypeOK /\ Classified => ConstantErrorBound
  <2> SUFFICES ASSUME TypeOK, Classified, pc = "done", NEW o \in Outputs
               PROVE  /\ classifyPO[o] = 0 => WrongAtMost(o, "0")
                      /\ classifyPO[o] = 1 => WrongAtMost(o, "1")
    BY DEF ConstantErrorBound
  <2> DEFINE ones == answers[o]
             zeros == ppp \ answers[o]
  <2>0. /\ PatternNums = Cardinality(ppp) /\ ones \in SUBSET ppp /\ zeros \in SUBSET ppp
        /\ ppp \in SUBSET AllPatterns /\ Cardinality(ones) \in 0 .. PatternNums
        /\ Cardinality(zeros) = PatternNums - Cardinality(ones)
        /\ classifyPO[o] = Class(Cardinality(ones))
        /\ \A p \in ppp \ zeros : oracle[o][Row(p)] = "1"
        /\ \A p \in ppp \ ones : oracle[o][Row(p)] = "0"
    BY ClassCounts
  <2> HIDE DEF ones, zeros
  <2>1. ASSUME NEW bit \in Bit, NEW few \in SUBSET ppp,
               \A p \in ppp \ few : oracle[o][Row(p)] = bit,
               \/ Cardinality(few) = 0
               \/ Cardinality(few) * ThresholdDen < ThresholdNum * PatternNums
        PROVE  WrongAtMost(o, bit)
    <3>1. PICK W \in SUBSET AllPatterns : W = Differing(o, bit)
      BY DEF Differing
    <3>2. \A p \in ppp \ few : Row(p) \notin W
      BY <2>1, <3>1 DEF Differing
    <3>3. /\ Cardinality(few) \in Nat /\ Cardinality(W) \in Nat
          /\ Cardinality(AllPatterns) \in Nat
          /\ Cardinality(W)
               <= Cardinality(few) + (Cardinality(AllPatterns) - Cardinality(ppp))
      BY <2>0, <3>2, WrongCount
    <3>4. \/ Cardinality(W) <= Cardinality(AllPatterns) - PatternNums
          \/ (Cardinality(W) - (Cardinality(AllPatterns) - PatternNums)) * ThresholdDen
               < ThresholdNum * PatternNums
      BY <2>0, <2>1, <3>3, FewDiffer
    <3> QED BY <3>1, <3>4 DEF WrongAtMost
  <2>2. classifyPO[o] = 0 => WrongAtMost(o, "0")
    BY <2>0, <2>1, ClassFew DEF Bit
  <2>3. classifyPO[o] = 1 => WrongAtMost(o, "1")
    BY <2>0, <2>1, ClassFew DEF Bit
  <2> QED BY <2>2, <2>3
<1> QED BY <1>1, ClassifiedAlways, PTL

(* An output left to be learnt has answered both values, so that its table *)
(* has an on-set and an off-set.                                           *)
THEOREM LearntVary == Spec => []LearntTakesBothValues
<1>1. TypeOK /\ Classified => LearntTakesBothValues
  <2> SUFFICES ASSUME TypeOK, Classified, pc = "done", NEW o \in Outputs,
                      classifyPO[o] = 2
               PROVE  Differing(o, "0") # {} /\ Differing(o, "1") # {}
    BY DEF LearntTakesBothValues
  <2>0. /\ answers[o] \in SUBSET ppp /\ ppp \in SUBSET AllPatterns
        /\ Cardinality(answers[o]) \in 0 .. PatternNums
        /\ Cardinality(ppp \ answers[o]) = PatternNums - Cardinality(answers[o])
        /\ classifyPO[o] = Class(Cardinality(answers[o]))
        /\ \A p \in ppp \ (ppp \ answers[o]) : oracle[o][Row(p)] = "1"
        /\ \A p \in ppp \ answers[o] : oracle[o][Row(p)] = "0"
    BY ClassCounts
  <2>1. /\ \A p \in answers[o] : p \in AllPatterns /\ oracle[o][Row(p)] = "1"
        /\ \A p \in ppp \ answers[o] : p \in AllPatterns /\ oracle[o][Row(p)] = "0"
    BY <2>0
  <2>2. answers[o] # {} /\ ppp \ answers[o] # {}
    <3>1. Class(Cardinality(answers[o])) = 2
      BY <2>0
    <3>2. Cardinality(answers[o]) # 0 /\ PatternNums - Cardinality(answers[o]) # 0
      BY <2>0, <3>1, ClassFew
    <3>3. Cardinality(ppp \ answers[o]) # 0
      BY <2>0, <3>2
    <3> QED BY <3>2, <3>3, FS_EmptySet
  <2>3. PICK p \in answers[o], q \in ppp \ answers[o] : TRUE
    BY <2>2
  <2>4. Row(p) \in Differing(o, "0") /\ Row(q) \in Differing(o, "1")
    BY <2>1, RowTwice DEF Differing
  <2> QED BY <2>4
<1> QED BY <1>1, ClassifiedAlways, PTL
=============================================================================
