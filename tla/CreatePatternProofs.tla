------------------------ MODULE CreatePatternProofs ------------------------
(***************************************************************************)
(* Proofs about CreatePattern and Comb, for every number of inputs, every  *)
(* vector of real ones and every limit.  CreatePattern's invariant adds to *)
(* the properties that the patterns are finitely many and closed under     *)
(* complement, which is why the random loops may push a complement without *)
(* looking it up.  Comb's is CombInv: the choices are printed in the order *)
(* of their numbers.  The modules share no variable; they are taken        *)
(* together for the lemmas about the order of the choices.                 *)
(***************************************************************************)
EXTENDS CreatePattern, Comb, FiniteSetTheorems, SequenceTheorems,
        WellFoundedInduction, TLAPS

Closed(seen) ==
  \A p \in seen : /\ p \in SUBSET InputIds
                  /\ flip(p) \in seen
                  /\ p \subseteq real \/ flip(p) \subseteq real

Counted(made) == IsFiniteSet(made.seen) /\ made.num = Cardinality(made.seen)

IInv ==
  /\ TypeOK
  /\ pc = "comb" => k < n \div 2
  /\ Closed(ppp)
  /\ Counted(Made)

-----------------------------------------------------------------------------
(* Complement is its own inverse and differs from its argument, since      *)
(* there is an input.                                                      *)
LEMMA FlipFacts ==
  ASSUME NEW x \in SUBSET InputIds
  PROVE  flip(x) \in SUBSET InputIds /\ flip(flip(x)) = x /\ flip(x) # x
BY InputsAssumption DEF flip

(* The vector's entries are inputs, and the number of rounds is a number.  *)
LEMMA VectorFacts ==
  ASSUME TypeOK
  PROVE  /\ n \in Nat /\ n \div 2 \in Nat
         /\ real \in SUBSET InputIds
         /\ \A j \in 1 .. n : realPI[j] \in InputIds /\ realPI[j] \in real
<1>1. realPI \in Seq(InputIds)
  BY VectorsAssumption DEF TypeOK
<1>2. n \in Nat /\ \A j \in 1 .. n : realPI[j] \in InputIds
  BY <1>1 DEF n
<1>3. n \div 2 \in Nat
  BY <1>2, SMT
<1> QED BY <1>2, <1>3 DEF real

(* Push counts what it adds.                                               *)
LEMMA PushCounts ==
  ASSUME NEW made, Counted(made), NEW x
  PROVE  Counted(Push(made, x)) /\ Push(made, x).seen = made.seen \union {x}
<1>1. /\ IsFiniteSet(made.seen \union {x})
      /\ Cardinality(made.seen \union {x}) =
           IF x \in made.seen THEN Cardinality(made.seen) ELSE Cardinality(made.seen) + 1
  BY FS_AddElement DEF Counted
<1>2. CASE x \in made.seen
  <2>1. made.seen \union {x} = made.seen
    BY <1>2
  <2> QED BY <1>2, <2>1 DEF Push
<1>3. CASE x \notin made.seen
  BY <1>1, <1>3 DEF Push, Counted
<1> QED BY <1>2, <1>3

(* PushBoth adds a pattern and its complement.                             *)
LEMMA PushBothCounts ==
  ASSUME NEW made, Counted(made), NEW x
  PROVE  /\ Counted(PushBoth(made, x))
         /\ PushBoth(made, x).seen = made.seen \union {x, flip(x)}
<1>1. Counted(Push(made, x)) /\ Push(made, x).seen = made.seen \union {x}
  BY PushCounts
<1>2. /\ Counted(PushBoth(made, x))
      /\ PushBoth(made, x).seen = Push(made, x).seen \union {flip(x)}
  BY <1>1, PushCounts DEF PushBoth
<1> QED BY <1>1, <1>2

(* Adding a setting of the real inputs and its complement keeps the        *)
(* patterns closed.                                                        *)
LEMMA ClosedStep ==
  ASSUME TypeOK, NEW seen, Closed(seen), NEW x \in SUBSET real
  PROVE  Closed(seen \union {x, flip(x)})
<1>1. x \in SUBSET InputIds
  BY VectorFacts
<1>2. flip(x) \in SUBSET InputIds /\ flip(flip(x)) = x
  BY <1>1, FlipFacts
<1> SUFFICES ASSUME NEW p \in seen \union {x, flip(x)}
             PROVE  /\ p \in SUBSET InputIds
                    /\ flip(p) \in seen \union {x, flip(x)}
                    /\ p \subseteq real \/ flip(p) \subseteq real
  BY DEF Closed
<1>3. CASE p \in seen
  BY <1>3 DEF Closed
<1>4. CASE p = x
  BY <1>1, <1>4
<1>5. CASE p = flip(x)
  BY <1>2, <1>5
<1> QED BY <1>3, <1>4, <1>5

(* Comb's choices, in either order, are settings of the real inputs.       *)
LEMMA OrderedReal ==
  ASSUME TypeOK, NEW S \in KSubsets(n, k)
  PROVE  Ordered(S) \in SUBSET real /\ Mirrored(S) \in SUBSET real
<1>1. n \in Nat /\ \A j \in 1 .. n : realPI[j] \in real
  BY VectorFacts
<1>2. S \subseteq 0 .. n - 1
  BY DEF KSubsets, Positions
<1>3. \A j \in S : j + 1 \in 1 .. n /\ n - j \in 1 .. n
  BY <1>1, <1>2
<1> QED BY <1>1, <1>3 DEF Ordered, Mirrored

(* The finite patterns are subsets of the inputs, and their number is one. *)
LEMMA CountedTypes ==
  ASSUME NEW made, Counted(made)
  PROVE  made.num \in Nat
BY FS_CardinalityType DEF Counted
-----------------------------------------------------------------------------
LEMMA InitInv == Init => IInv
<1> SUFFICES ASSUME Init PROVE IInv
  OBVIOUS
<1>1. realPI \in Vectors /\ pattern_up_limit \in Nat
  BY LimitsAssumption DEF Init
<1>2. n \div 2 \in Nat
  <2>1. n \in Nat
    BY <1>1, VectorsAssumption DEF n
  <2> QED BY <2>1, SMT
<1>3. TypeOK
  <2>1. k \in 0 .. n \div 2 /\ i \in 0 .. pattern_up_limit /\ choice \in Nat
    BY <1>1, <1>2 DEF Init
  <2>2. pattern_num \in Nat /\ ppp \in SUBSET SUBSET InputIds
    BY DEF Init
  <2> QED BY <2>1, <2>2 DEF Init, TypeOK
<1>4. Counted(Made)
  BY FS_EmptySet DEF Counted, Made, Init
<1> QED BY <1>3, <1>4 DEF Init, IInv, Closed

(* printRes pushes one or two settings with their complements.             *)
LEMMA PrintResInv == IInv /\ printRes => IInv'
<1> SUFFICES ASSUME IInv, printRes PROVE IInv'
  OBVIOUS
<1> USE DEF IInv
<1>1. PICK S \in KSubsets(n, k) :
        LET once  == PushBoth(Made, Ordered(S))
            twice == IF two_order THEN PushBoth(once, Mirrored(S)) ELSE once
        IN  ppp' = twice.seen /\ pattern_num' = twice.num
  BY DEF printRes
<1> DEFINE once  == PushBoth(Made, Ordered(S))
           twice == IF two_order THEN PushBoth(once, Mirrored(S)) ELSE once
<1>2. Ordered(S) \in SUBSET real /\ Mirrored(S) \in SUBSET real
  BY OrderedReal
<1>3. Counted(once) /\ once.seen = ppp \union {Ordered(S), flip(Ordered(S))}
  BY PushBothCounts DEF Made
<1>4. Closed(once.seen)
  BY <1>2, <1>3, ClosedStep
<1> HIDE DEF once
<1>5. /\ Counted(PushBoth(once, Mirrored(S)))
      /\ PushBoth(once, Mirrored(S)).seen
           = once.seen \union {Mirrored(S), flip(Mirrored(S))}
  BY <1>3, PushBothCounts
<1>6. Closed(PushBoth(once, Mirrored(S)).seen)
  BY <1>2, <1>4, <1>5, ClosedStep
<1>7. Counted(twice) /\ Closed(twice.seen)
  BY <1>3, <1>4, <1>5, <1>6
<1>8. ppp' = twice.seen /\ pattern_num' = twice.num
  BY <1>1 DEF once
<1> HIDE DEF twice
<1>9. UNCHANGED params /\ UNCHANGED k /\ pc' = "comb" /\ pc = "comb"
  BY DEF printRes
<1>10. Closed(ppp)'
  BY <1>7, <1>8, <1>9 DEF Closed, params, real, n, flip
<1>11. Counted(Made)'
  BY <1>7, <1>8 DEF Counted, Made
<1>12. TypeOK'
  <2>1. pattern_num' \in Nat
    BY <1>7, <1>8, CountedTypes
  <2>2. ppp' \in SUBSET SUBSET InputIds
    BY <1>10 DEF Closed
  <2> QED BY <2>1, <2>2, <1>9 DEF TypeOK, printRes, params, n
<1> QED BY <1>9, <1>10, <1>11, <1>12 DEF params, n

(* Draw pushes a new setting; its complement is new too, since otherwise   *)
(* the setting would be there as the complement's complement.              *)
LEMMA DrawInv == IInv /\ Draw => IInv'
<1> SUFFICES ASSUME IInv, Draw PROVE IInv'
  OBVIOUS
<1> USE DEF IInv
<1>1. PICK z \in (SUBSET real) \ ppp : /\ ppp' = ppp \union {z, flip(z)}
                                       /\ pattern_num' = pattern_num + 2
  BY DEF Draw
<1>2. z \in SUBSET InputIds
  BY VectorFacts
<1>3. flip(z) \in SUBSET InputIds /\ flip(flip(z)) = z /\ flip(z) # z
  BY <1>2, FlipFacts
<1>4. flip(z) \notin ppp
  BY <1>1, <1>3 DEF Closed
<1>5. UNCHANGED <<params, k>> /\ pc' = pc /\ pc \in {"extreme", "random"}
  BY DEF Draw, Drawing
<1>6. Closed(ppp)'
  <2>1. Closed(ppp \union {z, flip(z)})
    BY ClosedStep
  <2>2. real' = real
    BY <1>5 DEF params, real, n
  <2> QED BY <1>1, <2>1, <2>2 DEF Closed, flip
<1>7. Counted(Made)'
  <2>1. IsFiniteSet(ppp) /\ pattern_num = Cardinality(ppp) /\ pattern_num \in Nat
    BY DEF Counted, Made, TypeOK
  <2>2. /\ IsFiniteSet(ppp \union {z})
        /\ Cardinality(ppp \union {z}) = pattern_num + 1
    BY <2>1, <1>1, FS_AddElement
  <2>3. /\ IsFiniteSet((ppp \union {z}) \union {flip(z)})
        /\ Cardinality((ppp \union {z}) \union {flip(z)}) = pattern_num + 1 + 1
    BY <2>2, <1>3, <1>4, FS_AddElement
  <2>4. (ppp \union {z}) \union {flip(z)} = ppp \union {z, flip(z)}
    OBVIOUS
  <2>5. pattern_num + 1 + 1 = pattern_num + 2
    BY <2>1
  <2>6. IsFiniteSet(ppp') /\ pattern_num' = Cardinality(ppp')
    BY <1>1, <2>3, <2>4, <2>5
  <2> QED BY <2>6 DEF Counted, Made
<1>8. TypeOK'
  <2>1. ppp' \in SUBSET SUBSET InputIds
    BY <1>6 DEF Closed
  <2>2. pattern_num' \in Nat
    BY <1>1 DEF TypeOK
  <2>3. i' \in 0 .. pattern_up_limit
    BY LimitsAssumption DEF TypeOK, Draw, Drawing
  <2> QED BY <2>1, <2>2, <2>3, <1>5 DEF TypeOK, Draw, params, n
<1> QED BY <1>5, <1>6, <1>7, <1>8

(* The other steps create no pattern.                                      *)
LEMMA ControlInv ==
  ASSUME IInv, UNCHANGED <<realPI, pattern_up_limit, ppp, pattern_num>>, TypeOK',
         pc' = "comb" => k' < n' \div 2
  PROVE  IInv'
<1>1. Closed(ppp)'
  BY DEF IInv, Closed, real, n, flip
<1>2. Counted(Made)'
  BY DEF IInv, Counted, Made
<1> QED BY <1>1, <1>2 DEF IInv

LEMMA NextInv == IInv /\ [Next]_vars => IInv'
<1> SUFFICES ASSUME IInv, [Next]_vars PROVE IInv'
  OBVIOUS
<1> USE DEF params
<1>0. n \in Nat /\ n \div 2 \in Nat /\ TypeOK
  BY VectorFacts DEF IInv
<1>1. CASE StartRound
  <2>1. UNCHANGED <<realPI, pattern_up_limit, ppp, pattern_num>> /\ n' = n
    BY <1>1 DEF StartRound, n
  <2>2. over_limit' \in BOOLEAN /\ two_order' \in BOOLEAN
    <3>1. CASE over_limit
      BY <1>0, <1>1, <3>1 DEF StartRound, Compare, TypeOK
    <3>2. CASE ~ over_limit
      <4> DEFINE over == Cardinality(KSubsets(n, k)) > pattern_up_limit
      <4>1. two_order' = over /\ over_limit' = over
        BY <1>1, <3>2, Zenon DEF StartRound, Compare
      <4>2. over \in BOOLEAN
        OBVIOUS
      <4> HIDE DEF over
      <4> QED BY <4>1, <4>2
    <3> QED BY <3>1, <3>2
  <2>3. TypeOK' /\ (pc' = "comb" => k' < n' \div 2)
    BY <1>0, <1>1, <2>1, <2>2 DEF StartRound, TypeOK
  <2> QED BY <2>1, <2>3, ControlInv
<1>2. CASE printRes
  BY <1>2, PrintResInv
<1>3. CASE EndRound
  <2>1. UNCHANGED <<realPI, pattern_up_limit, ppp, pattern_num>> /\ n' = n
    BY <1>3 DEF EndRound, n
  <2>2. k + 1 \in 0 .. n \div 2
    BY <1>0, <1>3 DEF EndRound, TypeOK, IInv
  <2>3. TypeOK' /\ (pc' = "comb" => k' < n' \div 2)
    BY <1>0, <1>3, <2>1, <2>2 DEF EndRound, TypeOK
  <2> QED BY <2>1, <2>3, ControlInv
<1>4. CASE EndRounds
  <2>1. UNCHANGED <<realPI, pattern_up_limit, ppp, pattern_num>> /\ n' = n
    BY <1>4 DEF EndRounds, n
  <2>2. TypeOK' /\ (pc' = "comb" => k' < n' \div 2)
    BY <1>0, <1>4, <2>1 DEF EndRounds, TypeOK
  <2> QED BY <2>1, <2>2, ControlInv
<1>5. CASE Draw
  BY <1>5, DrawInv
<1>6. CASE EndLoop
  <2>1. UNCHANGED <<realPI, pattern_up_limit, ppp, pattern_num>> /\ n' = n
    BY <1>6 DEF EndLoop, n
  <2>2. 0 \in 0 .. pattern_up_limit
    BY <1>0, LimitsAssumption DEF TypeOK
  <2>3. TypeOK' /\ (pc' = "comb" => k' < n' \div 2)
    BY <1>0, <1>6, <2>1, <2>2 DEF EndLoop, TypeOK
  <2> QED BY <2>1, <2>3, ControlInv
<1>7. CASE UNCHANGED vars
  BY <1>7 DEF vars, IInv, TypeOK, Closed, Counted, Made, real, n, flip
<1> QED BY <1>1, <1>2, <1>3, <1>4, <1>5, <1>6, <1>7 DEF Next

(* The invariant holds of every behaviour of CreatePattern.                *)
THEOREM Invariance == Spec => []IInv
<1> QED BY InitInv, NextInv, PTL DEF Spec

(* The variables keep their types; k stays within the rounds and i within  *)
(* the limit.                                                              *)
THEOREM TypeCorrect == Spec => []TypeOK
<1>1. IInv => TypeOK
  BY DEF IInv
<1> QED BY <1>1, Invariance, PTL

(* No pattern is created twice, although Draw does not look the complement *)
(* up.                                                                     *)
THEOREM NeverTwice == Spec => []NoDuplicates
<1>1. IInv => NoDuplicates
  BY DEF IInv, Counted, Made, NoDuplicates
<1> QED BY <1>1, Invariance, PTL

(* What is created is settings of the real inputs and their complements,   *)
(* none without the other: what FixNetwork.tla supposes it is given.       *)
THEOREM CreatesTestSets == Spec => []IsTestSet
<1>1. ASSUME IInv PROVE IsTestSet
  <2>1. Closed(ppp)
    BY <1>1 DEF IInv
  <2> QED BY <2>1 DEF IsTestSet, TestSetsOf, Closed, flip
<1> QED BY <1>1, Invariance, PTL

-----------------------------------------------------------------------------
(* Choices of one size and of the next.                                    *)
LEMMA ChoicesFinite ==
  ASSUME NEW m \in Nat, NEW r \in Int
  PROVE  /\ IsFiniteSet(KSubsets(m, r)) /\ Cardinality(KSubsets(m, r)) \in Nat
         /\ IsFiniteSet(Positions(m)) /\ Cardinality(Positions(m)) = m
<1>1. IsFiniteSet(Positions(m)) /\ Cardinality(Positions(m)) = m
  BY FS_Interval DEF Positions
<1>2. IsFiniteSet(SUBSET Positions(m))
  BY <1>1, FS_SUBSET
<1>3. IsFiniteSet(KSubsets(m, r))
  BY <1>2, FS_Subset DEF KSubsets
<1> QED BY <1>1, <1>3, FS_CardinalityType

(* There is one choice of nothing.                                         *)
LEMMA ChoicesOfNone ==
  ASSUME NEW m \in Nat PROVE Cardinality(KSubsets(m, 0)) = 1
<1>1. KSubsets(m, 0) = {{}}
  <2>1. ASSUME NEW S \in SUBSET Positions(m) PROVE Cardinality(S) = 0 <=> S = {}
    <3>1. IsFiniteSet(Positions(m))
      BY ChoicesFinite
    <3>2. IsFiniteSet(S)
      BY <3>1, FS_Subset
    <3> QED BY <3>2, FS_EmptySet
  <2> QED BY <2>1 DEF KSubsets
<1> QED BY <1>1, FS_Singleton

(* A choice is a member of it and the choice of the others: there are at   *)
(* most m times as many as with one less.                                  *)
LEMMA ChoicesGrow ==
  ASSUME NEW m \in Nat, NEW r \in Nat \ {0}
  PROVE  Cardinality(KSubsets(m, r)) <= m * Cardinality(KSubsets(m, r - 1))
<1> DEFINE P == Positions(m)
           A == KSubsets(m, r)
           B == KSubsets(m, r - 1)
           pick(S) == CHOOSE x \in S : TRUE
           f == [S \in A |-> <<pick(S), S \ {pick(S)}>>]
<1>1. IsFiniteSet(P) /\ Cardinality(P) = m /\ IsFiniteSet(B)
  BY ChoicesFinite
<1>2. IsFiniteSet(P \X B) /\ Cardinality(P \X B) = m * Cardinality(B)
  BY <1>1, FS_Product
<1>3. ASSUME NEW S \in A
      PROVE  pick(S) \in S /\ pick(S) \in P /\ S \ {pick(S)} \in B
  <2>1. S \in SUBSET P /\ Cardinality(S) = r /\ IsFiniteSet(S)
    BY <1>1, FS_Subset DEF KSubsets
  <2>2. pick(S) \in S
    BY <2>1, FS_EmptySet
  <2>3. Cardinality(S \ {pick(S)}) = r - 1
    BY <2>1, <2>2, FS_RemoveElement
  <2> HIDE DEF pick
  <2> QED BY <2>1, <2>2, <2>3 DEF KSubsets
<1>4. f \in [A -> P \X B]
  BY <1>3
<1>5. ASSUME NEW S \in A, NEW T \in A, f[S] = f[T] PROVE S = T
  <2>1. f[S] = <<pick(S), S \ {pick(S)}>> /\ f[T] = <<pick(T), T \ {pick(T)}>>
    OBVIOUS
  <2>2. pick(S) \in S /\ pick(T) \in T
    BY <1>3
  <2> DEFINE x == pick(S)
             y == pick(T)
             V == S \ {x}
             W == T \ {y}
  <2>3. x = y /\ V = W
    <3>1. <<x, V>> = <<y, W>>
      BY <1>5, <2>1
    <3> HIDE DEF x, y, V, W
    <3> QED BY <3>1
  <2> HIDE DEF pick
  <2>4. S = V \union {x} /\ T = W \union {y}
    BY <2>2
  <2> HIDE DEF x, y, V, W
  <2> QED BY <2>3, <2>4
<1>6. f \in Injection(A, P \X B)
  BY <1>4, <1>5 DEF Injection, IsInjective
<1> HIDE DEF f
<1> QED BY <1>2, <1>6, FS_Injection

(* While over_limit is not set, no round so far had more choices than the  *)
(* limit.                                                                  *)
WithinLimit ==
  ~ over_limit =>
    /\ pc = "comb" => Cardinality(KSubsets(n, k)) <= pattern_up_limit
    /\ pc = "round" /\ k > 0 => Cardinality(KSubsets(n, k - 1)) <= pattern_up_limit

LEMMA WithinLimitKept == IInv /\ WithinLimit /\ [Next]_vars => WithinLimit'
<1> SUFFICES ASSUME IInv, WithinLimit, [Next]_vars PROVE WithinLimit'
  OBVIOUS
<1> USE DEF params
<1>0. n \in Nat /\ TypeOK /\ k \in Nat /\ pattern_up_limit \in Nat
  BY VectorFacts, LimitsAssumption DEF IInv, TypeOK
<1>1. CASE StartRound
  <2>1. n' = n /\ k' = k /\ pc' = "comb" /\ pattern_up_limit' = pattern_up_limit
    BY <1>1 DEF StartRound, n
  <2>2. ASSUME ~ over_limit' PROVE Cardinality(KSubsets(n, k)) <= pattern_up_limit
    <3>1. ~ over_limit
      BY <1>1, <2>2 DEF StartRound, Compare
    <3>2. over_limit' = two_order'
          /\ two_order' = (Cardinality(KSubsets(n, k)) > pattern_up_limit)
      BY <1>1, <3>1, Zenon DEF StartRound, Compare
    <3>3. ~ (Cardinality(KSubsets(n, k)) > pattern_up_limit)
      BY <2>2, <3>2, Zenon
    <3> QED BY <1>0, <3>3, ChoicesFinite
  <2> QED BY <2>1, <2>2 DEF WithinLimit
<1>2. CASE EndRound
  <2>1. n' = n /\ k' = k + 1 /\ k' - 1 = k /\ pattern_up_limit' = pattern_up_limit
    BY <1>0, <1>2 DEF EndRound, n
  <2> QED BY <1>2, <2>1 DEF EndRound, WithinLimit
<1>3. CASE EndRounds \/ EndLoop \/ Draw
  BY <1>3 DEF EndRounds, EndLoop, Draw, Drawing, WithinLimit
<1>4. CASE printRes
  BY <1>4 DEF printRes, WithinLimit, n
<1>5. CASE UNCHANGED vars
  BY <1>5 DEF vars, WithinLimit, n
<1> QED BY <1>1, <1>2, <1>3, <1>4, <1>5 DEF Next

(* combinator never counts further than n times the limit.                 *)
THEOREM CountsFew == Spec => []CountBounded
<1>1. Init => WithinLimit
  BY DEF Init, WithinLimit
<1>2. ASSUME IInv, WithinLimit PROVE CountBounded
  <2> SUFFICES ASSUME pc = "round", ~ over_limit
               PROVE  Cardinality(KSubsets(n, k)) <=
                        IF k = 0 THEN 1 ELSE pattern_up_limit * n
    BY DEF CountBounded
  <2>1. n \in Nat /\ k \in Nat /\ pattern_up_limit \in Nat
    BY <1>2, VectorFacts, LimitsAssumption DEF IInv, TypeOK
  <2>2. CASE k = 0
    BY <2>1, <2>2, ChoicesOfNone
  <2>3. CASE k # 0
    <3>1. Cardinality(KSubsets(n, k - 1)) <= pattern_up_limit
      BY <1>2, <2>1, <2>3 DEF WithinLimit
    <3>2. Cardinality(KSubsets(n, k)) <= n * Cardinality(KSubsets(n, k - 1))
      BY <2>1, <2>3, ChoicesGrow
    <3> DEFINE a == Cardinality(KSubsets(n, k - 1))
               b == Cardinality(KSubsets(n, k))
    <3>3. a \in Nat /\ b \in Nat
      <4>1. k - 1 \in Int /\ k \in Int
        BY <2>1
      <4> QED BY <2>1, <4>1, ChoicesFinite
    <3> HIDE DEF a, b
    <3>4. n * a <= pattern_up_limit * n
      BY <2>1, <3>1, <3>3 DEF a
    <3>5. n * a \in Nat /\ pattern_up_limit * n \in Nat
      BY <2>1, <3>3
    <3> QED BY <2>3, <3>2, <3>3, <3>4, <3>5 DEF a, b
  <2> QED BY <2>2, <2>3
<1> QED BY <1>1, <1>2, Invariance, WithinLimitKept, PTL DEF Spec

-----------------------------------------------------------------------------
(* The colexicographic order of the choices.                               *)

LEMMA Least ==
  ASSUME NEW T \in SUBSET Nat, T # {}
  PROVE  \E x \in T : \A y \in T : x <= y
<1>1. IsWellFoundedOn(OpToRel(<, Nat), Nat)
  BY NatLessThanWellFounded
<1>2. \E x \in T : \A y \in T : ~ (<<y, x>> \in OpToRel(<, Nat))
  BY <1>1, WFMin
<1>3. \E x \in T : \A y \in T : ~ (x \in Nat /\ y \in Nat /\ y < x)
  BY <1>2 DEF OpToRel
<1> QED BY <1>3

LEMMA CountTo ==
  ASSUME NEW q \in Nat
  PROVE  IsFiniteSet(0 .. q - 1) /\ Cardinality(0 .. q - 1) = q
<1>1. PICK v \in Int : v = q - 1
  OBVIOUS
<1>2. IsFiniteSet(0 .. v) /\ Cardinality(0 .. v) = IF 0 > v THEN 0 ELSE v - 0 + 1
  BY FS_Interval
<1> QED BY <1>1, <1>2

LEMMA Greatest ==
  ASSUME NEW m \in Nat, NEW T \in SUBSET Positions(m), T # {}
  PROVE  \E x \in T : \A y \in T : y <= x
<1> DEFINE U == {d \in Nat : \E x \in T : d = m - x}
<1>1. \A x \in T : x \in Nat /\ m - x \in Nat
  BY DEF Positions
<1>2. U \subseteq Nat /\ U # {}
  BY <1>1
<1>3. PICK d \in U : \A e \in U : d <= e
  <2> HIDE DEF U
  <2> QED BY <1>2, Least
<1>4. PICK x \in T : d = m - x
  OBVIOUS
<1>5. ASSUME NEW y \in T PROVE y <= x
  <2>1. d <= m - y
    BY <1>1, <1>3
  <2> QED BY <1>1, <1>4, <2>1
<1> QED BY <1>5

LEMMA ColexTotal ==
  ASSUME NEW m \in Nat, NEW S \in SUBSET Positions(m), NEW T \in SUBSET Positions(m), S # T
  PROVE  ColexLess(S, T) \/ ColexLess(T, S)
<1>1. SymDiff(S, T) \in SUBSET Positions(m) /\ SymDiff(S, T) # {}
  BY DEF SymDiff
<1>2. PICK x \in SymDiff(S, T) : \A d \in SymDiff(S, T) : d <= x
  BY <1>1, Greatest
<1>3. SymDiff(T, S) = SymDiff(S, T)
  BY DEF SymDiff
<1>4. x \in T \ S \/ x \in S \ T
  BY DEF SymDiff
<1> QED BY <1>2, <1>3, <1>4 DEF ColexLess

LEMMA ColexTransitive ==
  ASSUME NEW S \in SUBSET Nat, NEW T \in SUBSET Nat, NEW U \in SUBSET Nat,
         ColexLess(S, T), ColexLess(T, U)
  PROVE  ColexLess(S, U)
<1>1. PICK a \in T \ S : \A d \in SymDiff(S, T) : d <= a
  BY DEF ColexLess
<1>2. PICK b \in U \ T : \A d \in SymDiff(T, U) : d <= b
  BY DEF ColexLess
<1>3. a \in Nat /\ b \in Nat /\ a # b
  OBVIOUS
<1>4. \A d \in SymDiff(S, U) : d \in Nat /\ (d \in SymDiff(S, T) \/ d \in SymDiff(T, U))
  BY DEF SymDiff
<1>5. CASE a < b
  <2>1. b \in U \ S
    BY <1>1, <1>3, <1>5 DEF SymDiff
  <2>2. \A d \in SymDiff(S, U) : d <= b
    BY <1>1, <1>2, <1>3, <1>4, <1>5
  <2> QED BY <2>1, <2>2 DEF ColexLess
<1>6. CASE b < a
  <2>1. a \in U \ S
    BY <1>2, <1>3, <1>6 DEF SymDiff
  <2>2. \A d \in SymDiff(S, U) : d <= a
    BY <1>1, <1>2, <1>3, <1>4, <1>6
  <2> QED BY <2>1, <2>2 DEF ColexLess
<1> QED BY <1>3, <1>5, <1>6

LEMMA ColexIrreflexive == \A S : ~ ColexLess(S, S)
BY DEF ColexLess

(* Choices have different numbers, and the order of their numbers.         *)
LEMMA RankMonotone ==
  ASSUME NEW m \in Nat, NEW r \in Nat, NEW S \in KSubsets(m, r), NEW T \in KSubsets(m, r),
         ColexLess(S, T)
  PROVE  Rank(S, m, r) < Rank(T, m, r)
<1> DEFINE B(X) == {U \in KSubsets(m, r) : ColexLess(U, X)}
<1>1. \A X \in KSubsets(m, r) : X \in SUBSET Nat
  BY DEF KSubsets, Positions
<1>2. B(S) \subseteq B(T)
  BY <1>1, ColexTransitive
<1>3. S \in B(T) /\ S \notin B(S)
  BY ColexIrreflexive
<1>4. IsFiniteSet(B(S)) /\ IsFiniteSet(B(T))
  <2>1. r \in Int
    OBVIOUS
  <2>2. IsFiniteSet(KSubsets(m, r))
    BY <2>1, ChoicesFinite
  <2> QED BY <2>2, FS_Subset
<1> HIDE DEF B
<1>5. Cardinality(B(S)) <= Cardinality(B(T)) /\ Cardinality(B(S)) # Cardinality(B(T))
  BY <1>2, <1>3, <1>4, FS_Subset
<1>6. Cardinality(B(S)) \in Nat /\ Cardinality(B(T)) \in Nat
  BY <1>4, FS_CardinalityType
<1> QED BY <1>5, <1>6 DEF Rank, B

LEMMA RankType ==
  ASSUME NEW m \in Nat, NEW r \in Nat, NEW S
  PROVE  Rank(S, m, r) \in Nat
<1>1. IsFiniteSet({T \in KSubsets(m, r) : ColexLess(T, S)})
  <2>1. r \in Int
    OBVIOUS
  <2>2. IsFiniteSet(KSubsets(m, r))
    BY <2>1, ChoicesFinite
  <2> QED BY <2>2, FS_Subset
<1> QED BY <1>1, FS_CardinalityType DEF Rank

LEMMA RankInjective ==
  ASSUME NEW m \in Nat, NEW r \in Nat, NEW S \in KSubsets(m, r), NEW T \in KSubsets(m, r),
         Rank(S, m, r) = Rank(T, m, r)
  PROVE  S = T
<1> SUFFICES ASSUME S # T PROVE FALSE
  OBVIOUS
<1>1. ColexLess(S, T) \/ ColexLess(T, S)
  BY ColexTotal DEF KSubsets
<1>2. Rank(S, m, r) < Rank(T, m, r) \/ Rank(T, m, r) < Rank(S, m, r)
  BY <1>1, RankMonotone
<1> QED BY <1>2, RankType

LEMMA QuotaType ==
  ASSUME NEW limit \in Nat
  PROVE  Quota(limit) \in Nat /\ Quota(limit) >= 1
BY DEF Quota

(* The budget pays for a quota of choices at most.                         *)
LEMMA PrintedWithinQuota ==
  ASSUME NEW m \in Nat, NEW r \in Nat, NEW limit \in Nat
  PROVE  /\ IsFiniteSet(Printed(m, r, limit))
         /\ Cardinality(Printed(m, r, limit)) \in Nat
         /\ Cardinality(Printed(m, r, limit)) <= Quota(limit)
<1> DEFINE P == Printed(m, r, limit)
           f == [S \in P |-> Rank(S, m, r)]
<1>1. PICK q \in Nat : q = Quota(limit) /\ q >= 1
  BY QuotaType
<1>2. P \subseteq KSubsets(m, r) /\ \A S \in P : Rank(S, m, r) < q
  BY <1>1 DEF Printed
<1>3. IsFiniteSet(P) /\ Cardinality(P) \in Nat
  <2>1. IsFiniteSet(KSubsets(m, r))
    <3>1. r \in Int
      OBVIOUS
    <3> QED BY <3>1, ChoicesFinite
  <2>2. IsFiniteSet(P)
    BY <1>2, <2>1, FS_Subset
  <2> QED BY <2>2, FS_CardinalityType
<1>4. \A S \in P : Rank(S, m, r) \in 0 .. q - 1
  <2> SUFFICES ASSUME NEW S \in P PROVE Rank(S, m, r) \in 0 .. q - 1
    OBVIOUS
  <2>1. Rank(S, m, r) \in Nat
    BY RankType
  <2>2. Rank(S, m, r) < q
    BY <1>2
  <2> QED BY <2>1, <2>2
<1>5. f \in Injection(P, 0 .. q - 1)
  <2>1. f \in [P -> 0 .. q - 1]
    BY <1>4
  <2>2. \A S, T \in P : f[S] = f[T] => S = T
    <3> SUFFICES ASSUME NEW S \in P, NEW T \in P, f[S] = f[T] PROVE S = T
      OBVIOUS
    <3>1. Rank(S, m, r) = Rank(T, m, r)
      OBVIOUS
    <3>2. S \in KSubsets(m, r) /\ T \in KSubsets(m, r)
      BY <1>2
    <3> QED BY <3>1, <3>2, RankInjective
  <2> QED BY <2>1, <2>2 DEF Injection, IsInjective
<1>6. IsFiniteSet(0 .. q - 1) /\ Cardinality(0 .. q - 1) = q
  BY CountTo
<1> HIDE DEF f, P
<1>7. Cardinality(P) <= Cardinality(0 .. q - 1)
  BY <1>5, <1>6, FS_Injection
<1> QED BY <1>1, <1>3, <1>6, <1>7 DEF P

(* And their numbers are those below how many they are.                    *)
LEMMA RankOnto ==
  ASSUME NEW m \in Nat, NEW r \in Nat, NEW limit \in Nat,
         NEW c \in Nat, c < Cardinality(Printed(m, r, limit))
  PROVE  \E S \in Printed(m, r, limit) : Rank(S, m, r) = c
<1> DEFINE P == Printed(m, r, limit)
           f == [S \in P |-> Rank(S, m, r)]
<1>1. PICK q \in Nat : q = Quota(limit)
  BY QuotaType
<1>2. P = {S \in KSubsets(m, r) : Rank(S, m, r) < q}
  BY <1>1 DEF Printed
<1>3. PICK z \in Nat : IsFiniteSet(P) /\ z = Cardinality(P)
  BY PrintedWithinQuota
<1>4. ASSUME NEW S \in P PROVE Rank(S, m, r) \in 0 .. z - 1
  <2> DEFINE B == {T \in KSubsets(m, r) : ColexLess(T, S)}
  <2>1. \A T \in B : T \in P
    <3> SUFFICES ASSUME NEW T \in KSubsets(m, r), ColexLess(T, S) PROVE T \in P
      OBVIOUS
    <3>1. Rank(T, m, r) < Rank(S, m, r) /\ Rank(S, m, r) < q
      BY <1>2, RankMonotone
    <3>2. Rank(T, m, r) \in Nat /\ Rank(S, m, r) \in Nat
      BY RankType
    <3> QED BY <1>2, <3>1, <3>2
  <2>2. S \notin B
    BY ColexIrreflexive
  <2> HIDE DEF P
  <2>3. IsFiniteSet(B) /\ Cardinality(B) \in Nat
    BY <1>3, <2>1, FS_Subset, FS_CardinalityType
  <2>4. Rank(S, m, r) = Cardinality(B)
    BY DEF Rank
  <2> HIDE DEF B
  <2>5. Cardinality(B \union {S}) = Cardinality(B) + 1
    BY <2>2, <2>3, FS_AddElement
  <2>6. B \union {S} \in SUBSET P
    BY <2>1
  <2>7. Cardinality(B \union {S}) <= z
    BY <1>3, <2>6, FS_Subset
  <2> QED BY <2>3, <2>4, <2>5, <2>7
<1>5. f \in Injection(P, 0 .. z - 1)
  <2>1. f \in [P -> 0 .. z - 1]
    BY <1>4
  <2>2. \A S, T \in P : f[S] = f[T] => S = T
    BY <1>2, RankInjective
  <2> HIDE DEF f, P
  <2> QED BY <2>1, <2>2 DEF Injection, IsInjective
<1>6. IsFiniteSet(0 .. z - 1) /\ Cardinality(0 .. z - 1) = z
  BY CountTo
<1> HIDE DEF f, P
<1>7. f \in Surjection(P, 0 .. z - 1)
  BY <1>3, <1>5, <1>6, FS_Injection
<1>8. c \in 0 .. z - 1
  BY <1>3 DEF P
<1>9. \E S \in P : f[S] = c
  BY <1>7, <1>8 DEF Surjection
<1> QED BY <1>9 DEF f, P

-----------------------------------------------------------------------------
(* Comb's moves.                                                           *)

LEMMA ChoiceFacts ==
  ASSUME NEW m \in Nat, NEW r \in Nat, NEW S \in KSubsets(m, r)
  PROVE  /\ S \in SUBSET Nat /\ S \subseteq 0 .. m - 1
         /\ IsFiniteSet(S) /\ Cardinality(S) = r
<1>1. S \in SUBSET Positions(m) /\ Cardinality(S) = r
  BY DEF KSubsets
<1>2. IsFiniteSet(Positions(m))
  BY CountTo DEF Positions
<1>3. IsFiniteSet(S)
  BY <1>1, <1>2, FS_Subset
<1> QED BY <1>1, <1>3 DEF Positions

(* A choice within another is the other.                                   *)
LEMMA SameSize ==
  ASSUME NEW m \in Nat, NEW r \in Nat, NEW S \in KSubsets(m, r), NEW T \in KSubsets(m, r),
         S \subseteq T
  PROVE  S = T
<1>1. IsFiniteSet(T) /\ Cardinality(S) = Cardinality(T)
  BY ChoiceFacts
<1> QED BY <1>1, FS_Subset

(* The first choice, all at the left end, is before all others.            *)
LEMMA FirstChoice ==
  ASSUME NEW m \in Nat, NEW r \in Nat, r <= m
  PROVE  0 .. r - 1 \in KSubsets(m, r) /\ Rank(0 .. r - 1, m, r) = 0
<1> DEFINE F == 0 .. r - 1
<1>1. F \in KSubsets(m, r)
  <2>1. Cardinality(F) = r
    BY CountTo
  <2>2. F \subseteq 0 .. m - 1
    OBVIOUS
  <2> QED BY <2>1, <2>2 DEF KSubsets, Positions
<1>2. ASSUME NEW T \in KSubsets(m, r), ColexLess(T, F) PROVE FALSE
  <2>1. PICK a \in F \ T : \A d \in SymDiff(T, F) : d <= a
    BY <1>2 DEF ColexLess
  <2>2. T \subseteq F
    <3> SUFFICES ASSUME NEW t \in T, t \notin F PROVE FALSE
      OBVIOUS
    <3>1. t \in Nat /\ t <= a
      BY <2>1, ChoiceFacts DEF SymDiff
    <3> QED BY <2>1, <3>1
  <2>3. T = F
    BY <1>1, <2>2, SameSize
  <2> QED BY <2>1, <2>3
<1>3. {T \in KSubsets(m, r) : ColexLess(T, F)} = {}
  BY <1>2
<1> QED BY <1>1, <1>3, FS_EmptySet DEF Rank

LEMMA RightEnd ==
  ASSUME NEW m \in Nat, NEW r \in Nat, r <= m
  PROVE  m - r .. m - 1 \in KSubsets(m, r)
<1>1. PICK x \in Int, y \in Int : x = m - r /\ y = m - 1
  OBVIOUS
<1>2. Cardinality(x .. y) = IF x > y THEN 0 ELSE y - x + 1
  BY FS_Interval
<1>3. Cardinality(m - r .. m - 1) = r
  BY <1>1, <1>2
<1>4. m - r .. m - 1 \subseteq 0 .. m - 1
  OBVIOUS
<1> QED BY <1>3, <1>4 DEF KSubsets, Positions

(* With all at the right end no choice comes after.                        *)
LEMMA LastChoice ==
  ASSUME comb_n \in Nat, comb_k \in Nat, comb_k <= comb_n, index \in KSubsets(comb_n, comb_k), hasDone,
         NEW S \in KSubsets(comb_n, comb_k)
  PROVE  ~ ColexLess(index, S)
<1> SUFFICES ASSUME ColexLess(index, S) PROVE FALSE
  OBVIOUS
<1>1. PICK a \in S \ index : \A d \in SymDiff(index, S) : d <= a
  BY DEF ColexLess
<1>2. a \in 0 .. comb_n - 1
  BY ChoiceFacts
<1>3. a < comb_n - comb_k
  BY <1>1, <1>2 DEF hasDone
<1> DEFINE R == comb_n - comb_k .. comb_n - 1
<1>4. R \subseteq index
  BY DEF hasDone
<1>5. R \subseteq S
  <2> SUFFICES ASSUME NEW d \in R, d \notin S PROVE FALSE
    OBVIOUS
  <2>1. d <= a
    BY <1>1, <1>4 DEF SymDiff
  <2> QED BY <1>2, <1>3, <2>1
<1>6. R \in KSubsets(comb_n, comb_k)
  BY RightEnd
<1>7. R = S
  BY <1>5, <1>6, SameSize
<1> QED BY <1>2, <1>3, <1>7

LEMMA LeastMovable ==
  ASSUME comb_n \in Nat, NEW j \in Movable, Swap(j)
  PROVE  \A x \in Movable : j <= x
<1>1. Movable \subseteq Nat /\ Movable # {}
  BY DEF Movable
<1>2. \E x \in Movable : \A y \in Movable : x <= y
  BY <1>1, Least
<1> HIDE DEF Movable
<1> QED BY <1>2 DEF Swap

(* The ones before the one that moves are next to it.                      *)
LEMMA BlockBefore ==
  ASSUME comb_n \in Nat, NEW j \in Movable, Swap(j), index \subseteq 0 .. comb_n - 1,
         NEW x \in index, x < j, NEW y \in x .. j
  PROVE  y \in index
<1> DEFINE T == {z \in x .. j : z \notin index}
<1> SUFFICES ASSUME y \notin index PROVE FALSE
  OBVIOUS
<1>1. j \in 0 .. comb_n - 2 /\ x \in Nat /\ j \in index
  BY DEF Movable
<1>2. T \subseteq Nat /\ y \in T
  BY <1>1
<1>3. PICK z \in T : \A w \in T : z <= w
  <2> HIDE DEF T
  <2> QED BY <1>2, Least
<1>4. z \in Nat /\ z - 1 \in x .. j /\ z - 1 < j
  BY <1>1
<1>5. z - 1 \notin T
  BY <1>3, <1>4
<1>6. z - 1 \in Movable
  BY <1>1, <1>4, <1>5 DEF Movable
<1>7. j <= z - 1
  BY <1>6, LeastMovable
<1> QED BY <1>1, <1>4, <1>7

LEMMA MovedChoice ==
  ASSUME comb_n \in Nat, comb_k \in Nat, index \in KSubsets(comb_n, comb_k),
         NEW j \in Movable
  PROVE  /\ Moved(j) \in KSubsets(comb_n, comb_k)
         /\ Cardinality({m \in index : m < j}) \in 0 .. j
<1> DEFINE B == {m \in index : m < j}
           A == {m \in index : m > j}
           b == Cardinality(B)
           F == 0 .. b - 1
<1>1. /\ j \in 0 .. comb_n - 2 /\ j \in index /\ j + 1 \notin index
      /\ index \subseteq 0 .. comb_n - 1 /\ IsFiniteSet(index)
      /\ Cardinality(index) = comb_k
  BY ChoiceFacts DEF Movable
<1>1a. \A x \in index : x \in Nat /\ x <= comb_n - 1
  BY <1>1
<1>2. IsFiniteSet(A) /\ IsFiniteSet(B) /\ b \in Nat /\ Cardinality(A) \in Nat
  BY <1>1, FS_Subset, FS_CardinalityType
<1>3. b <= j
  <2>1. B \subseteq 0 .. j - 1
    <3> SUFFICES ASSUME NEW x \in B PROVE x \in 0 .. j - 1
      OBVIOUS
    <3>1. x \in Nat /\ x < j /\ j \in Nat
      BY <1>1, <1>1a
    <3> HIDE DEF B
    <3> QED BY <3>1
  <2>2. IsFiniteSet(0 .. j - 1) /\ Cardinality(0 .. j - 1) = j
    BY <1>1, CountTo
  <2> HIDE DEF B
  <2> QED BY <2>1, <2>2, FS_Subset
<1>4. /\ index = (B \union {j}) \union A
      /\ j \notin B /\ (B \union {j}) \cap A = {}
  <2>1. \A x \in index : x < j \/ x = j \/ x > j
    BY <1>1, <1>1a
  <2>2. j \notin B /\ j \notin A /\ \A x \in B : x \notin A
    BY <1>1, <1>1a
  <2>3. \A x \in index : x \in (B \union {j}) \union A
    BY <2>1
  <2>4. B \subseteq index /\ A \subseteq index
    OBVIOUS
  <2> HIDE DEF A, B
  <2> QED BY <1>1, <2>2, <2>3, <2>4
<1>5. Moved(j) = (F \union {j + 1}) \union A
  BY DEF Moved
<1>6. j + 1 \notin F /\ (F \union {j + 1}) \cap A = {}
  BY <1>1, <1>2, <1>3
<1>7. Moved(j) \subseteq 0 .. comb_n - 1
  <2>1. \A x \in F : x \in 0 .. comb_n - 1
    BY <1>1, <1>2, <1>3
  <2>2. j + 1 \in 0 .. comb_n - 1
    BY <1>1
  <2>3. \A x \in A : x \in 0 .. comb_n - 1
    BY <1>1
  <2> HIDE DEF A, F, b
  <2> QED BY <1>5, <2>1, <2>2, <2>3
<1>8. IsFiniteSet(F) /\ Cardinality(F) = b
  <2> HIDE DEF b
  <2> QED BY <1>2, CountTo
<1> HIDE DEF A, B, F, b
<1>9. ASSUME NEW X, NEW x, IsFiniteSet(X), Cardinality(X) = b, x \notin X,
             (X \union {x}) \cap A = {}
      PROVE  Cardinality((X \union {x}) \union A) = b + 1 + Cardinality(A)
  <2>1. IsFiniteSet(X \union {x}) /\ Cardinality(X \union {x}) = b + 1
    BY <1>9, FS_AddElement
  <2>2. Cardinality((X \union {x}) \union A) =
          Cardinality(X \union {x}) + Cardinality(A) - Cardinality((X \union {x}) \cap A)
    BY <1>2, <2>1, FS_Union
  <2>3. Cardinality({}) = 0
    BY FS_EmptySet
  <2> QED BY <1>2, <1>9, <2>1, <2>2, <2>3
<1>10. Cardinality(B) = b
  BY DEF b
<1>11. Cardinality(index) = b + 1 + Cardinality(A)
  BY <1>2, <1>4, <1>9, <1>10
<1>12. Cardinality(Moved(j)) = b + 1 + Cardinality(A)
  BY <1>5, <1>6, <1>8, <1>9
<1>13. Moved(j) \in KSubsets(comb_n, comb_k)
  BY <1>1, <1>7, <1>11, <1>12 DEF KSubsets, Positions
<1> QED BY <1>1, <1>2, <1>3, <1>13 DEF b, B

(* A move leads to the very next choice.  Between the two there is none:   *)
(* the highest place where such a choice differed from the array would be  *)
(* beyond the move, at it, or below it.                                    *)
LEMMA MovedNext ==
  ASSUME comb_n \in Nat, comb_k \in Nat, index \in KSubsets(comb_n, comb_k),
         NEW j \in Movable, Swap(j)
  PROVE  /\ ColexLess(index, Moved(j))
         /\ \A S \in KSubsets(comb_n, comb_k) :
              ~ (ColexLess(index, S) /\ ColexLess(S, Moved(j)))
<1> DEFINE F == 0 .. Cardinality({m \in index : m < j}) - 1
           M == Moved(j)
<1>1. /\ j \in Nat /\ j \in index /\ j + 1 \notin index
      /\ index \subseteq 0 .. comb_n - 1
  BY ChoiceFacts DEF Movable
<1>2. M \in KSubsets(comb_n, comb_k) /\ \A d \in F : d \in Nat /\ d < j
  <2>1. PICK b \in 0 .. j : b = Cardinality({m \in index : m < j})
    BY MovedChoice
  <2> QED BY <2>1, <1>1, MovedChoice
<1>3. M = F \union {j + 1} \union {m \in index : m > j}
  BY DEF Moved
<1> HIDE DEF F, M
<1>4. /\ j \notin M /\ j + 1 \in M
      /\ \A d \in Nat : d > j + 1 => (d \in M <=> d \in index)
      /\ M \subseteq Nat /\ index \subseteq Nat
  <2>1. \A d : d \in M <=> d \in F \/ d = j + 1 \/ (d \in index /\ d > j)
    BY <1>3
  <2>2. \A d \in index : d \in Nat
    BY <1>1
  <2>3. j \notin M /\ j + 1 \in M
    BY <1>1, <1>2, <2>1
  <2>4. \A d \in Nat : d > j + 1 => (d \in M <=> d \in index)
    BY <1>1, <1>2, <2>1
  <2>5. \A d \in M : d \in Nat
    BY <1>1, <1>2, <2>1, <2>2
  <2> QED BY <2>2, <2>3, <2>4, <2>5
<1>5. ColexLess(index, M)
  <2>1. \A d \in SymDiff(index, M) : d <= j + 1
    BY <1>1, <1>4 DEF SymDiff
  <2> QED BY <1>1, <1>4, <2>1 DEF ColexLess
<1>6. ASSUME NEW S \in KSubsets(comb_n, comb_k), ColexLess(index, S), ColexLess(S, M)
      PROVE  FALSE
  <2>1. PICK a \in S \ index : \A d \in SymDiff(index, S) : d <= a
    BY <1>6 DEF ColexLess
  <2>2. PICK c \in M \ S : \A d \in SymDiff(S, M) : d <= c
    BY <1>6 DEF ColexLess
  <2>3. S \subseteq Nat /\ a \in Nat /\ c \in Nat
    BY <1>4, <2>1, <2>2, ChoiceFacts
  <2>4. CASE a > j + 1
    <3>1. a <= c
      BY <1>4, <2>1, <2>2, <2>3, <2>4 DEF SymDiff
    <3>2. c \in index
      <4>1. c > j + 1
        BY <1>1, <2>3, <2>4, <3>1
      <4> QED BY <1>4, <2>2, <2>3, <4>1
    <3>3. c <= a
      BY <2>1, <2>2, <3>2 DEF SymDiff
    <3>4. a = c
      BY <2>3, <3>1, <3>3
    <3> QED BY <2>1, <2>2, <3>4
  <2>5. CASE a = j + 1
    <3>1. c < j
      <4>1. ~ (c > j + 1)
        BY <1>4, <2>1, <2>2, <2>3, <2>5 DEF SymDiff
      <4>2. c # j + 1 /\ c # j
        BY <1>4, <2>1, <2>2, <2>5
      <4> QED BY <1>1, <2>3, <4>1, <4>2
    <3>2. c \in F
      BY <1>1, <1>3, <2>2, <2>3, <3>1
    <3>3. S \subseteq M
      <4> SUFFICES ASSUME NEW d \in S, d \notin M PROVE FALSE
        OBVIOUS
      <4>1. d <= c
        BY <2>2 DEF SymDiff
      <4>2. PICK b \in 0 .. j : b = Cardinality({m \in index : m < j})
        BY MovedChoice
      <4>3. d \in F
        BY <3>2, <4>1, <4>2, <2>3, <1>1 DEF F
      <4> QED BY <1>3, <4>3
    <3>4. S = M
      BY <1>2, <3>3, SameSize
    <3> QED BY <2>2, <3>4
  <2>6. CASE a <= j
    <3>1. a < j
      BY <1>1, <2>1, <2>3, <2>6
    <3>2. index \subseteq S
      <4> SUFFICES ASSUME NEW x \in index, x \notin S PROVE FALSE
        OBVIOUS
      <4>1. x \in Nat /\ x <= a
        BY <1>4, <2>1 DEF SymDiff
      <4>2. x < j /\ a \in x .. j
        BY <1>1, <2>3, <3>1, <4>1
      <4>3. a \in index
        BY <1>1, <4>2, BlockBefore
      <4> QED BY <2>1, <4>3
    <3>3. index = S
      BY <3>2, SameSize
    <3> QED BY <2>1, <3>3
  <2> QED BY <1>1, <2>3, <2>4, <2>5, <2>6
<1> QED BY <1>5, <1>6 DEF M

(* So a move adds one to the number.                                       *)
LEMMA MovedRank ==
  ASSUME comb_n \in Nat, comb_k \in Nat, index \in KSubsets(comb_n, comb_k),
         NEW j \in Movable, Swap(j)
  PROVE  Rank(Moved(j), comb_n, comb_k) = Rank(index, comb_n, comb_k) + 1
<1> DEFINE M == Moved(j)
           B(X) == {T \in KSubsets(comb_n, comb_k) : ColexLess(T, X)}
<1>1. /\ M \in KSubsets(comb_n, comb_k) /\ ColexLess(index, M)
      /\ \A S \in KSubsets(comb_n, comb_k) : ~ (ColexLess(index, S) /\ ColexLess(S, M))
  BY MovedChoice, MovedNext
<1> HIDE DEF M
<1>2. \A S \in KSubsets(comb_n, comb_k) : S \in SUBSET Nat /\ S \in SUBSET Positions(comb_n)
  BY DEF KSubsets, Positions
<1>3. B(M) = B(index) \union {index}
  <2>1. ASSUME NEW T \in B(M), T # index PROVE T \in B(index)
    BY <1>1, <1>2, <2>1, ColexTotal
  <2>2. ASSUME NEW T \in B(index) PROVE T \in B(M)
    BY <1>1, <1>2, ColexTransitive
  <2> QED BY <1>1, <2>1, <2>2
<1>4. index \notin B(index)
  BY ColexIrreflexive
<1>5. IsFiniteSet(B(index)) /\ Cardinality(B(index)) \in Nat
  <2>1. comb_k \in Int
    OBVIOUS
  <2>2. IsFiniteSet(KSubsets(comb_n, comb_k))
    BY <2>1, ChoicesFinite
  <2> QED BY <2>2, FS_Subset, FS_CardinalityType
<1> HIDE DEF B
<1>6. Cardinality(B(M)) = Cardinality(B(index)) + 1
  BY <1>3, <1>4, <1>5, FS_AddElement
<1> QED BY <1>6 DEF B, Rank, M

-----------------------------------------------------------------------------
(* Comb keeps CombInv.                                                     *)

LEMMA CombInitial == CombInit => CombInv
<1> SUFFICES ASSUME CombInit PROVE CombInv
  OBVIOUS
<1>1. comb_n \in Nat /\ comb_k \in Nat /\ comb_limit \in Nat /\ comb_k <= comb_n
  BY BoundsAssumption DEF CombInit
<1> QED BY <1>1 DEF CombInv, CombInit

LEMMA StepPrints ==
  ASSUME NEW T, NEW p \in Seq(T), NEW x \in T
  PROVE  /\ Append(p, x) \in Seq(T) /\ Append(p, x) # <<>>
         /\ Len(Append(p, x)) = Len(p) + 1 /\ Len(p) \in Nat
         /\ Append(p, x)[Len(p) + 1] = x
         /\ \A j \in DOMAIN Append(p, x) :
              j = Len(p) + 1 \/ (j \in DOMAIN p /\ Append(p, x)[j] = p[j])
OBVIOUS

LEMMA FirstKeeps ==
  ASSUME CombInv, First
  PROVE  CombInv'
<1> DEFINE F == 0 .. comb_k - 1
<1>1. comb_n \in Nat /\ comb_k \in Nat /\ comb_limit \in Nat /\ comb_k <= comb_n
  BY DEF CombInv
<1>2. /\ index' = F /\ printed' = <<F>> /\ pattern_size' = 2 /\ comb_pc' = "loop"
      /\ comb_n' = comb_n /\ comb_k' = comb_k /\ comb_limit' = comb_limit
  BY DEF First, combParams
<1>3. F \in KSubsets(comb_n, comb_k) /\ Rank(F, comb_n, comb_k) = 0
  BY <1>1, FirstChoice
<1>4. Quota(comb_limit) \in Nat /\ Quota(comb_limit) >= 1
  BY <1>1, QuotaType
<1> HIDE DEF F
<1>5. /\ <<F>> \in Seq(KSubsets(comb_n, comb_k)) /\ <<F>> # <<>> /\ Len(<<F>>) = 1
      /\ DOMAIN <<F>> = {1} /\ <<F>>[1] = F
  BY <1>3
<1>6. KSubsets(comb_n, comb_k)' = KSubsets(comb_n, comb_k) /\ Quota(comb_limit)' = Quota(comb_limit)
  BY <1>2
<1>7. \A j \in DOMAIN printed' : Rank(printed'[j], comb_n', comb_k') = j - 1
  BY <1>2, <1>3, <1>5
<1> QED BY <1>1, <1>2, <1>3, <1>4, <1>5, <1>6, <1>7 DEF CombInv

LEMMA StepKeeps ==
  ASSUME CombInv, Step
  PROVE  CombInv'
<1> DEFINE K == KSubsets(comb_n, comb_k)
<1>1. /\ comb_n \in Nat /\ comb_k \in Nat /\ comb_limit \in Nat /\ comb_k <= comb_n
      /\ comb_pc = "loop" /\ index \in K /\ printed \in Seq(K) /\ printed # <<>>
      /\ \A j \in DOMAIN printed : Rank(printed[j], comb_n, comb_k) = j - 1
      /\ pattern_size = 2 * Len(printed) /\ Len(printed) <= Quota(comb_limit)
      /\ index = printed[Len(printed)]
  BY DEF CombInv, Step
<1>2. PICK j \in Movable : Swap(j) /\ index' = Moved(j)
  BY DEF Step
<1>3. /\ printed' = Append(printed, index') /\ pattern_size' = pattern_size + 2
      /\ comb_n' = comb_n /\ comb_k' = comb_k /\ comb_limit' = comb_limit
      /\ comb_pc' = "loop" /\ pattern_size < comb_limit
  BY <1>1 DEF Step, combParams
<1>4. index' \in K /\ Rank(index', comb_n, comb_k) = Rank(index, comb_n, comb_k) + 1
  BY <1>1, <1>2, MovedChoice, MovedRank
<1> HIDE DEF K
<1>5. /\ printed' \in Seq(K) /\ printed' # <<>>
      /\ Len(printed') = Len(printed) + 1 /\ Len(printed) \in Nat
      /\ printed'[Len(printed')] = index'
      /\ \A pos \in DOMAIN printed' :
           pos = Len(printed) + 1 \/ (pos \in DOMAIN printed /\ printed'[pos] = printed[pos])
  BY <1>1, <1>3, <1>4, StepPrints
<1>6. Rank(index, comb_n, comb_k) = Len(printed) - 1
  <2>1. Len(printed) \in DOMAIN printed
    BY <1>1
  <2> QED BY <1>1, <2>1
<1>7. \A pos \in DOMAIN printed' : Rank(printed'[pos], comb_n, comb_k) = pos - 1
  <2> SUFFICES ASSUME NEW pos \in DOMAIN printed'
               PROVE  Rank(printed'[pos], comb_n, comb_k) = pos - 1
    OBVIOUS
  <2>1. CASE pos = Len(printed) + 1
    BY <2>1, <1>4, <1>5, <1>6
  <2>2. CASE pos \in DOMAIN printed /\ printed'[pos] = printed[pos]
    BY <2>2, <1>1
  <2> QED BY <1>5, <2>1, <2>2
<1>8. Len(printed') <= Quota(comb_limit)
  BY <1>1, <1>3, <1>5 DEF Quota
<1>9. pattern_size' = 2 * Len(printed')
  BY <1>1, <1>3, <1>5
<1>10. K' = K /\ Quota(comb_limit)' = Quota(comb_limit)
  BY <1>3 DEF K
<1> QED BY <1>1, <1>3, <1>4, <1>5, <1>7, <1>8, <1>9, <1>10 DEF CombInv, K

LEMMA BreakKeeps ==
  ASSUME CombInv, Break
  PROVE  CombInv'
<1>1. /\ comb_n \in Nat /\ comb_k \in Nat /\ comb_limit \in Nat /\ comb_k <= comb_n
      /\ index \in KSubsets(comb_n, comb_k) /\ printed \in Seq(KSubsets(comb_n, comb_k))
      /\ pattern_size = 2 * Len(printed) /\ Len(printed) <= Quota(comb_limit)
  BY DEF CombInv, Break
<1>2. PICK j \in Movable : Swap(j) /\ index' = Moved(j)
  BY DEF Break
<1>3. /\ printed' = printed /\ pattern_size' = pattern_size
      /\ comb_n' = comb_n /\ comb_k' = comb_k /\ comb_limit' = comb_limit
      /\ comb_pc' = "broken" /\ pattern_size >= comb_limit
  BY DEF Break, combParams
<1>4. index' \in KSubsets(comb_n, comb_k)
  BY <1>1, <1>2, MovedChoice
<1>5. Len(printed) = Quota(comb_limit)
  <2>1. Len(printed) \in Nat /\ Len(printed) # 0
    BY <1>1 DEF CombInv, Break
  <2>2. PICK l \in Nat : l = Len(printed) /\ l >= 1
    BY <2>1
  <2>3. 2 * l >= comb_limit /\ l <= Quota(comb_limit)
    BY <1>1, <1>3, <2>2
  <2>4. CASE comb_limit <= 2
    BY <2>2, <2>3, <2>4 DEF Quota
  <2>5. CASE comb_limit > 2
    <3>1. Quota(comb_limit) = (comb_limit + 1) \div 2
      BY <1>1, <2>5 DEF Quota
    <3>2. PICK q \in Int : q = (comb_limit + 1) \div 2 /\ 2 * q <= comb_limit + 1
      BY <1>1
    <3> QED BY <1>1, <2>2, <2>3, <3>1, <3>2
  <2> QED BY <1>1, <2>4, <2>5
<1>6. /\ KSubsets(comb_n, comb_k)' = KSubsets(comb_n, comb_k)
      /\ Quota(comb_limit)' = Quota(comb_limit)
  BY <1>3
<1>7. \A pos \in DOMAIN printed' : Rank(printed'[pos], comb_n', comb_k') = pos - 1
  BY <1>3 DEF CombInv, Break
<1>8. printed # <<>>
  BY DEF CombInv, Break
<1> QED BY <1>1, <1>3, <1>4, <1>5, <1>6, <1>7, <1>8 DEF CombInv

LEMMA FinishKeeps ==
  ASSUME CombInv, Finish
  PROVE  CombInv'
<1>1. /\ printed' = printed /\ pattern_size' = pattern_size /\ index' = index
      /\ comb_n' = comb_n /\ comb_k' = comb_k /\ comb_limit' = comb_limit
      /\ comb_pc = "loop" /\ comb_pc' = "done" /\ hasDone
  BY DEF Finish, combParams
<1>2. hasDone'
  BY <1>1 DEF hasDone
<1> QED BY <1>1, <1>2 DEF CombInv

LEMMA CombStep ==
  ASSUME CombInv, [CombNext]_combVars
  PROVE  CombInv'
<1>1. CASE UNCHANGED combVars
  <2>1. /\ printed' = printed /\ pattern_size' = pattern_size /\ index' = index
        /\ comb_n' = comb_n /\ comb_k' = comb_k /\ comb_limit' = comb_limit
        /\ comb_pc' = comb_pc
    BY <1>1 DEF combVars
  <2>2. hasDone' <=> hasDone
    BY <2>1 DEF hasDone
  <2> QED BY <2>1, <2>2 DEF CombInv
<1> QED BY <1>1, FirstKeeps, StepKeeps, BreakKeeps, FinishKeeps DEF CombNext

(* Comb keeps its inductive invariant: the choices it prints are numbered  *)
(* from 0 in the order of printing, two patterns of the budget are counted *)
(* for each, and the last one is the choice the array holds.               *)
THEOREM CombInvariance == CombSpec => []CombInv
<1> QED BY CombInitial, CombStep, PTL DEF CombSpec

(* Every move of Comb's loop leads to the very next choice.                *)
THEOREM MovesToNextChoice == CombSpec => NextChoice
<1>1. ASSUME CombInv, [CombNext]_combVars
      PROVE  [comb_pc = "loop" /\ index' # index =>
                /\ ColexLess(index, index')
                /\ \A S \in KSubsets(comb_n, comb_k) :
                     ~ (ColexLess(index, S) /\ ColexLess(S, index'))]_combVars
  <2> SUFFICES ASSUME comb_pc = "loop", index' # index
               PROVE  /\ ColexLess(index, index')
                      /\ \A S \in KSubsets(comb_n, comb_k) :
                           ~ (ColexLess(index, S) /\ ColexLess(S, index'))
    OBVIOUS
  <2>1. comb_n \in Nat /\ comb_k \in Nat /\ index \in KSubsets(comb_n, comb_k)
    BY <1>1 DEF CombInv
  <2>2. Step \/ Break
    BY <1>1 DEF CombNext, First, Finish, combVars
  <2>3. PICK j \in Movable : Swap(j) /\ index' = Moved(j)
    BY <2>2 DEF Step, Break
  <2> QED BY <2>1, <2>3, MovedNext
<1> QED BY <1>1, CombInvariance, PTL DEF CombSpec, NextChoice

(* What Comb has printed when its loop ends are the choices with the       *)
(* lowest numbers, as many as the budget pays for.                         *)
LEMMA EndsWithFirst ==
  ASSUME CombInv
  PROVE  PrintsFirstChoices
<1> SUFFICES ASSUME comb_pc \in {"broken", "done"}
             PROVE  /\ {printed[j] : j \in DOMAIN printed} = Printed(comb_n, comb_k, comb_limit)
                    /\ Len(printed) = Cardinality(Printed(comb_n, comb_k, comb_limit))
  BY DEF PrintsFirstChoices
<1> DEFINE K == KSubsets(comb_n, comb_k)
           P == Printed(comb_n, comb_k, comb_limit)
           q == Quota(comb_limit)
           len == Len(printed)
           f == [j \in 1 .. len |-> printed[j]]
<1>1. /\ comb_n \in Nat /\ comb_k \in Nat /\ comb_limit \in Nat /\ comb_k <= comb_n
      /\ index \in K /\ printed \in Seq(K) /\ printed # <<>>
      /\ \A j \in DOMAIN printed : Rank(printed[j], comb_n, comb_k) = j - 1
      /\ len <= q
      /\ comb_pc = "done" => index = printed[len] /\ hasDone
      /\ comb_pc = "broken" => len = q
  BY DEF CombInv
<1>2. len \in Nat /\ len >= 1 /\ DOMAIN printed = 1 .. len /\ q \in Nat
  <2>1. \A p \in Seq(K) : p # <<>> => Len(p) \in Nat /\ Len(p) >= 1 /\ DOMAIN p = 1 .. Len(p)
    <3> HIDE DEF K
    <3> QED OBVIOUS
  <2>2. q \in Nat
    BY <1>1, QuotaType
  <2> HIDE DEF K, q
  <2> QED BY <1>1, <2>1, <2>2
<1>3. \A j \in 1 .. len : printed[j] \in K /\ Rank(printed[j], comb_n, comb_k) = j - 1
  BY <1>1, <1>2
<1>4. \A j \in 1 .. len : printed[j] \in P
  BY <1>1, <1>2, <1>3 DEF Printed
<1>5. ASSUME NEW S \in P PROVE \E j \in 1 .. len : printed[j] = S
  <2>1. /\ S \in K /\ Rank(S, comb_n, comb_k) \in Nat /\ Rank(S, comb_n, comb_k) < q
    BY <1>1, RankType DEF Printed
  <2>2. Rank(S, comb_n, comb_k) < len
    <3>1. CASE comb_pc = "broken"
      BY <1>1, <2>1, <3>1
    <3>2. CASE comb_pc = "done"
      <4>1. ~ ColexLess(index, S)
        BY <1>1, <2>1, <3>2, LastChoice
      <4>2. S = index \/ ColexLess(S, index)
        BY <1>1, <2>1, <4>1, ColexTotal DEF KSubsets
      <4>3. Rank(S, comb_n, comb_k) = Rank(index, comb_n, comb_k)
              \/ Rank(S, comb_n, comb_k) < Rank(index, comb_n, comb_k)
        BY <1>1, <2>1, <4>2, RankMonotone
      <4>4. Rank(index, comb_n, comb_k) = len - 1
        BY <1>1, <1>2, <1>3, <3>2
      <4> QED BY <1>2, <2>1, <4>3, <4>4
    <3> QED BY <3>1, <3>2
  <2>3. PICK j \in 1 .. len : j = Rank(S, comb_n, comb_k) + 1
    BY <1>2, <2>1, <2>2
  <2>4. Rank(printed[j], comb_n, comb_k) = Rank(S, comb_n, comb_k)
    BY <1>3, <2>1, <2>3
  <2> QED BY <1>1, <1>3, <2>1, <2>4, RankInjective
<1>6. {printed[j] : j \in DOMAIN printed} = P
  BY <1>2, <1>4, <1>5
<1>7. IsFiniteSet(P)
  BY <1>1, PrintedWithinQuota
<1>8. f \in Bijection(1 .. len, P)
  <2>1. f \in [1 .. len -> P]
    BY <1>4
  <2>2. \A a, b \in 1 .. len : f[a] = f[b] => a = b
    <3> SUFFICES ASSUME NEW a \in 1 .. len, NEW b \in 1 .. len, f[a] = f[b] PROVE a = b
      OBVIOUS
    <3>1. a - 1 = b - 1
      BY <1>3
    <3> QED BY <1>2, <3>1
  <2>3. \A S \in P : \E j \in 1 .. len : f[j] = S
    BY <1>5
  <2> HIDE DEF f, P
  <2> QED BY <2>1, <2>2, <2>3 DEF Bijection, Injection, Surjection, IsInjective
<1>9. IsFiniteSet(1 .. len) /\ Cardinality(1 .. len) = len
  <2>1. PICK l \in Nat : l = len
    BY <1>2
  <2>2. IsFiniteSet(1 .. l) /\ Cardinality(1 .. l) = IF 1 > l THEN 0 ELSE l - 1 + 1
    BY FS_Interval
  <2> QED BY <2>1, <2>2, <1>2
<1> HIDE DEF f, P, len
<1>10. Cardinality(1 .. len) = Cardinality(P)
  <2>1. \E g : g \in Bijection(1 .. len, P)
    BY <1>8
  <2>2. ExistsBijection(1 .. len, P)
    BY <2>1 DEF ExistsBijection
  <2> QED BY <1>7, <1>9, <2>2, FS_Bijection
<1> QED BY <1>6, <1>9, <1>10 DEF P, len

(* When Comb's loop ends, the choices printed, each once, are the first    *)
(* ones the budget pays for: what CreatePattern counts on.                 *)
THEOREM PrintsTheFirst == CombSpec => []PrintsFirstChoices
<1> QED BY CombInvariance, EndsWithFirst, PTL

-----------------------------------------------------------------------------
(* Comb's loop ends.                                                       *)

FindsItsMove == comb_pc = "loop" => hasDone \/ Movable # {}

LEMMA MoveThere ==
  ASSUME CombInv, comb_pc = "loop", ~ hasDone
  PROVE  Movable # {}
<1> DEFINE R == comb_n - comb_k .. comb_n - 1
<1>1. /\ comb_n \in Nat /\ comb_k \in Nat /\ comb_k <= comb_n
      /\ index \in KSubsets(comb_n, comb_k)
  BY DEF CombInv
<1>2. PICK d \in R : d \notin index
  BY DEF hasDone
<1>3. \A x \in index : x \in Nat /\ x <= comb_n - 1
  <2>1. index \subseteq 0 .. comb_n - 1
    BY <1>1, ChoiceFacts
  <2> QED BY <1>1, <2>1
<1>4. R \in KSubsets(comb_n, comb_k)
  BY <1>1, RightEnd
<1>5. PICK x \in index : x < comb_n - comb_k
  <2> SUFFICES ASSUME \A x \in index : ~ (x < comb_n - comb_k) PROVE FALSE
    OBVIOUS
  <2>1. \A x \in index : x \in R
    BY <1>1, <1>3
  <2>2. index = R
    <3> HIDE DEF R
    <3> QED BY <1>1, <1>4, <2>1, SameSize
  <2> QED BY <1>2, <2>2
<1> DEFINE T == {z \in x .. d : z \notin index}
<1>6. T \subseteq Nat /\ T # {}
  <2>1. d \in x .. d
    BY <1>1, <1>2, <1>3, <1>5
  <2>2. \A z \in T : z \in Nat
    BY <1>3
  <2> QED BY <1>2, <2>1, <2>2
<1>7. PICK z \in T : \A w \in T : z <= w
  <2> HIDE DEF T
  <2> QED BY <1>6, Least
<1>8. z \in Nat /\ z # x /\ z - 1 \in x .. d /\ z - 1 < z /\ d \in Int /\ d <= comb_n - 1
  BY <1>1, <1>2, <1>3, <1>7
<1>9. z - 1 \in index
  BY <1>7, <1>8
<1>10. z - 1 \in Movable
  BY <1>1, <1>3, <1>7, <1>8, <1>9 DEF Movable
<1> QED BY <1>10

(* Comb's loop always finds a one with a zero to its right, unless all are *)
(* at the right end: the search in the array never comes up with nothing.  *)
THEOREM AlwaysFindsAMove == CombSpec => []FindsItsMove
<1>1. CombInv => FindsItsMove
  BY MoveThere DEF FindsItsMove
<1> QED BY <1>1, CombInvariance, PTL

(* How many steps there are left at most.                                  *)
CombLeft ==
  CASE comb_pc = "start" -> Quota(comb_limit) + 1
    [] comb_pc = "loop"  -> Quota(comb_limit) - Len(printed) + 1
    [] OTHER             -> 0

CombComesNearer == [][CombLeft' < CombLeft /\ CombLeft \in Nat /\ CombLeft' \in Nat]_combVars

(* Every step of Comb leaves fewer to make than before, so that a loop     *)
(* which always finds its move ends.                                       *)
THEOREM CombRunsDown == CombSpec => CombComesNearer
<1>1. ASSUME CombInv, CombInv', [CombNext]_combVars
      PROVE  [CombLeft' < CombLeft /\ CombLeft \in Nat /\ CombLeft' \in Nat]_combVars
  <2>1. comb_limit \in Nat /\ Quota(comb_limit) \in Nat /\ Quota(comb_limit) >= 1
    BY <1>1, QuotaType DEF CombInv
  <2>2. CASE First
    <3>1. printed' = <<index'>> /\ comb_limit' = comb_limit
          /\ comb_pc = "start" /\ comb_pc' = "loop"
      BY <2>2 DEF First, combParams
    <3>2. Len(printed') = 1
      BY <3>1
    <3> QED BY <2>1, <3>1, <3>2 DEF CombLeft
  <2>3. CASE Step
    <3>1. printed' = Append(printed, index') /\ comb_limit' = comb_limit
          /\ comb_pc = "loop" /\ comb_pc' = "loop"
      BY <2>3 DEF Step, combParams
    <3>2. printed \in Seq(KSubsets(comb_n, comb_k))
      BY <1>1, <3>1 DEF CombInv
    <3>3. Len(printed') = Len(printed) + 1 /\ Len(printed) \in Nat
      BY <3>1, <3>2
    <3>4. Len(printed') <= Quota(comb_limit)
      BY <1>1, <3>1 DEF CombInv
    <3> QED BY <2>1, <3>1, <3>3, <3>4 DEF CombLeft
  <2>4. CASE Break \/ Finish
    <3>1. comb_pc = "loop" /\ comb_pc' \in {"broken", "done"}
      BY <2>4 DEF Break, Finish
    <3>2. Len(printed) \in Nat /\ Len(printed) <= Quota(comb_limit)
      BY <1>1, <3>1 DEF CombInv
    <3> QED BY <2>1, <3>1, <3>2 DEF CombLeft
  <2> QED BY <1>1, <2>2, <2>3, <2>4 DEF CombNext
<1> QED BY <1>1, CombInvariance, PTL DEF CombSpec, CombComesNearer

-----------------------------------------------------------------------------
(* The budget of the patterns.                                             *)

half == n \div 2

(* What a round adds at most.                                              *)
PerRound == 2 * pattern_up_limit + (IF pattern_up_limit = 0 THEN 4 ELSE 2)

(* How many patterns there can be so far: a round's for each round ended,  *)
(* four for each choice of this one, two for each draw.                    *)
WithinPlan ==
  /\ pc = "round" => pattern_num <= PerRound * k
  /\ pc = "comb" => pattern_num <= PerRound * k + 4 * choice /\ choice <= Choices
  /\ pc = "extreme" => pattern_num <= PerRound * half + 2 * i
  /\ pc = "random" => pattern_num <= PerRound * half + 2 * pattern_up_limit + 2 * i
  /\ pc = "done" => pattern_num <= PerRound * half + 4 * pattern_up_limit

LEMMA Products ==
  ASSUME NEW a \in Nat, NEW b \in Nat, NEW c \in Nat
  PROVE  /\ a * b \in Nat /\ a * (b + 1) = a * b + a
         /\ b <= c => a * b <= a * c
OBVIOUS

LEMMA PushesFew ==
  ASSUME NEW made, Counted(made), NEW x
  PROVE  PushBoth(made, x).num \in Nat /\ PushBoth(made, x).num <= made.num + 2
<1>1. Counted(Push(made, x))
  BY PushCounts
<1>2. made.num \in Nat /\ Push(made, x).num \in Nat
  BY <1>1, CountedTypes
<1>3. \A m : m.num \in Nat => \A y : Push(m, y).num = m.num \/ Push(m, y).num = m.num + 1
  BY DEF Push
<1>4. PushBoth(made, x).num <= made.num + 2 /\ PushBoth(made, x).num \in Nat
  <2> DEFINE once == Push(made, x)
  <2>1. once.num = made.num \/ once.num = made.num + 1
    BY <1>2, <1>3
  <2>2. once.num \in Nat
    BY <1>2
  <2> HIDE DEF once
  <2>3. Push(once, flip(x)).num = once.num \/ Push(once, flip(x)).num = once.num + 1
    BY <1>3, <2>2
  <2>4. PushBoth(made, x) = Push(once, flip(x))
    BY DEF PushBoth, once
  <2> QED BY <1>2, <2>1, <2>2, <2>3, <2>4
<1> QED BY <1>4

LEMMA PlanTypes ==
  ASSUME IInv
  PROVE  /\ n \in Nat /\ k \in Nat /\ half \in Nat /\ k <= half
         /\ pattern_up_limit \in Nat /\ PerRound \in Nat
         /\ choice \in Nat /\ i \in Nat /\ i <= pattern_up_limit /\ pattern_num \in Nat
         /\ Choices \in Nat /\ 4 * Choices <= PerRound
<1>1. /\ n \in Nat /\ k \in Nat /\ half \in Nat /\ k <= half
      /\ pattern_up_limit \in Nat /\ PerRound \in Nat
      /\ choice \in Nat /\ i \in Nat /\ i <= pattern_up_limit /\ pattern_num \in Nat
  BY VectorFacts, LimitsAssumption DEF IInv, TypeOK, half, PerRound
<1>2. PICK c \in Nat : c = Choices /\ c <= Quota(pattern_up_limit)
  BY <1>1, PrintedWithinQuota DEF Choices
<1>3. 4 * Quota(pattern_up_limit) <= PerRound
  BY <1>1 DEF Quota, PerRound
<1>4. Quota(pattern_up_limit) \in Nat
  BY <1>1, QuotaType
<1> QED BY <1>1, <1>2, <1>3, <1>4

LEMMA PlanStep == IInv /\ WithinPlan /\ [Next]_vars => WithinPlan'
<1> SUFFICES ASSUME IInv, WithinPlan, [Next]_vars PROVE WithinPlan'
  OBVIOUS
<1> USE DEF params
<1>0. /\ n \in Nat /\ k \in Nat /\ half \in Nat /\ k <= half
      /\ pattern_up_limit \in Nat /\ PerRound \in Nat
      /\ choice \in Nat /\ i \in Nat /\ i <= pattern_up_limit /\ pattern_num \in Nat
      /\ Choices \in Nat /\ 4 * Choices <= PerRound
  BY PlanTypes
<1>a. /\ PerRound * k \in Nat /\ PerRound * half \in Nat
      /\ PerRound * (k + 1) = PerRound * k + PerRound
      /\ PerRound * k <= PerRound * half
  BY <1>0, Products
<1>b. UNCHANGED params
  BY DEF Next, StartRound, printRes, EndRound, EndRounds, Draw, EndLoop, vars
<1>c. PerRound' = PerRound /\ half' = half /\ pattern_up_limit' = pattern_up_limit
  BY <1>b DEF PerRound, half, n
<1> HIDE DEF params
<1>1. CASE StartRound
  <2>1. choice' = 0 /\ k' = k /\ pattern_num' = pattern_num /\ pc = "round" /\ pc' = "comb"
    BY <1>1 DEF StartRound
  <2>2. Choices' = Choices
    BY <1>b, <2>1 DEF Choices, n, params
  <2>3. pattern_num <= PerRound * k
    BY <2>1 DEF WithinPlan
  <2> QED BY <1>0, <1>a, <1>c, <2>1, <2>2, <2>3 DEF WithinPlan
<1>2. CASE printRes
  <2>1. /\ choice' = choice + 1 /\ k' = k /\ pc = "comb" /\ pc' = "comb"
        /\ choice < Choices
    BY <1>2 DEF printRes
  <2>2. Choices' = Choices
    BY <1>b, <2>1 DEF Choices, n, params
  <2>3. PICK S \in KSubsets(n, k) :
          LET once  == PushBoth(Made, Ordered(S))
              twice == IF two_order THEN PushBoth(once, Mirrored(S)) ELSE once
          IN  pattern_num' = twice.num
    BY <1>2 DEF printRes
  <2> DEFINE once  == PushBoth(Made, Ordered(S))
             more  == PushBoth(once, Mirrored(S))
  <2>4. Counted(Made) /\ Made.num = pattern_num
    BY DEF IInv, Made
  <2>5. Counted(once) /\ once.num \in Nat /\ once.num <= pattern_num + 2
    BY <2>4, PushBothCounts, PushesFew
  <2>6. pattern_num' = more.num \/ pattern_num' = once.num
    BY <2>3
  <2> HIDE DEF once
  <2>7. more.num \in Nat /\ more.num <= once.num + 2
    BY <2>5, PushesFew
  <2> HIDE DEF more
  <2>8. pattern_num' \in Nat /\ pattern_num' <= pattern_num + 4
    BY <1>0, <2>5, <2>6, <2>7
  <2>9. pattern_num <= PerRound * k + 4 * choice
    BY <2>1 DEF WithinPlan
  <2> QED BY <1>0, <1>a, <1>c, <2>1, <2>2, <2>8, <2>9 DEF WithinPlan
<1>3. CASE EndRound
  <2>1. k' = k + 1 /\ pattern_num' = pattern_num /\ pc = "comb" /\ pc' = "round"
        /\ choice >= Choices
    BY <1>3 DEF EndRound
  <2>2. pattern_num <= PerRound * k + 4 * choice /\ choice <= Choices
    BY <2>1 DEF WithinPlan
  <2> QED BY <1>0, <1>a, <1>c, <2>1, <2>2 DEF WithinPlan
<1>4. CASE EndRounds
  <2>1. pattern_num' = pattern_num /\ pc = "round" /\ pc' = "extreme" /\ i' = i
    BY <1>4 DEF EndRounds
  <2>2. pattern_num <= PerRound * k
    BY <2>1 DEF WithinPlan
  <2> QED BY <1>0, <1>a, <1>c, <2>1, <2>2 DEF WithinPlan
<1>5. CASE Draw
  <2>1. pattern_num' = pattern_num + 2 /\ i' = i + 1 /\ pc' = pc /\ pc \in {"extreme", "random"}
    BY <1>5 DEF Draw, Drawing
  <2> QED BY <1>0, <1>a, <1>c, <2>1 DEF WithinPlan
<1>6. CASE EndLoop
  <2>1. /\ pattern_num' = pattern_num /\ i' = 0 /\ i = pattern_up_limit
        /\ \/ pc = "extreme" /\ pc' = "random"
           \/ pc = "random" /\ pc' = "done"
    BY <1>0, <1>6 DEF EndLoop
  <2> QED BY <1>0, <1>a, <1>c, <2>1 DEF WithinPlan
<1>7. CASE UNCHANGED vars
  <2>1. Choices' = Choices
    BY <1>7 DEF vars, Choices, n
  <2> QED BY <1>7, <1>c, <2>1 DEF vars, WithinPlan
<1> QED BY <1>1, <1>2, <1>3, <1>4, <1>5, <1>6, <1>7 DEF Next

LEMMA PlanAlways == Spec => [](IInv /\ WithinPlan)
<1>1. Init => WithinPlan
  <2> SUFFICES ASSUME Init PROVE WithinPlan
    OBVIOUS
  <2>1. PerRound \in Nat
    BY InitInv, PlanTypes
  <2> QED BY <2>1 DEF Init, WithinPlan
<1> QED BY <1>1, Invariance, PlanStep, PTL DEF Spec

(* No more patterns are created than Timing_function plans with, but for   *)
(* two a round, or four when the limit is 0: Comb stops at its budget, and *)
(* printRes and the random loops push no more than they account for.       *)
THEOREM StaysInBudget == Spec => []BudgetKept
<1>1. ASSUME IInv, WithinPlan PROVE BudgetKept
  <2>1. /\ k \in Nat /\ half \in Nat /\ k <= half
        /\ pattern_up_limit \in Nat /\ PerRound \in Nat
        /\ choice \in Nat /\ i \in Nat /\ i <= pattern_up_limit /\ pattern_num \in Nat
        /\ Choices \in Nat /\ 4 * Choices <= PerRound
    BY <1>1, PlanTypes
  <2>2. /\ PerRound * k \in Nat /\ PerRound * half \in Nat
        /\ PerRound * (k + 1) = PerRound * k + PerRound
        /\ PerRound * k <= PerRound * half
        /\ k + 1 <= half => PerRound * (k + 1) <= PerRound * half
    <3>1. k + 1 \in Nat
      BY <2>1
    <3> QED BY <2>1, <3>1, Products
  <2>3. pattern_num <= PerRound * half + 4 * pattern_up_limit
    <3>1. CASE pc = "comb"
      <4>1. k + 1 <= half
        BY <1>1, <2>1, <3>1 DEF IInv, half
      <4> QED BY <1>1, <2>1, <2>2, <3>1, <4>1 DEF WithinPlan
    <3>2. CASE pc \in {"round", "extreme", "random", "done"}
      BY <1>1, <2>1, <2>2, <3>2 DEF WithinPlan
    <3> QED BY <1>1, <3>1, <3>2 DEF IInv, TypeOK
  <2>4. PerRound * half + 4 * pattern_up_limit
          = 2 * pattern_up_limit * (half + 2) + (IF pattern_up_limit = 0 THEN 4 ELSE 2) * half
    BY <2>1 DEF PerRound
  <2> QED BY <2>3, <2>4 DEF BudgetKept, half
<1> QED BY <1>1, PlanAlways, PTL

-----------------------------------------------------------------------------
(* Whether CreatePattern ends.                                             *)

FindsItsChoice ==
  pc = "comb" /\ choice < Choices =>
    \E S \in KSubsets(n, k) :
      /\ Rank(S, n, k) = choice
      /\ \A T \in KSubsets(n, k) : Rank(T, n, k) = choice => T = S

(* As long as choices of the round are left, there is exactly one for      *)
(* printRes to print next, the one Comb comes to.                          *)
THEOREM AlwaysOneChoice == Spec => []FindsItsChoice
<1>1. ASSUME IInv, pc = "comb", choice < Choices
      PROVE  \E S \in KSubsets(n, k) :
               /\ Rank(S, n, k) = choice
               /\ \A T \in KSubsets(n, k) : Rank(T, n, k) = choice => T = S
  <2>1. n \in Nat /\ k \in Nat /\ pattern_up_limit \in Nat /\ choice \in Nat
    BY <1>1, PlanTypes
  <2>2. PICK S \in Printed(n, k, pattern_up_limit) : Rank(S, n, k) = choice
    BY <1>1, <2>1, RankOnto DEF Choices
  <2>3. S \in KSubsets(n, k)
    BY DEF Printed
  <2> QED BY <2>1, <2>2, <2>3, RankInjective
<1>2. IInv => FindsItsChoice
  BY <1>1 DEF FindsItsChoice
<1> QED BY <1>2, Invariance, PTL

LEMMA SettingsFinite ==
  ASSUME IInv
  PROVE  IsFiniteSet(SUBSET real) /\ Settings \in Nat
<1>1. real \in SUBSET InputIds
  BY VectorFacts DEF IInv
<1>2. IsFiniteSet(real)
  BY <1>1, InputsAssumption, FS_Subset
<1>3. IsFiniteSet(SUBSET real)
  BY <1>2, FS_SUBSET
<1> QED BY <1>3, FS_CardinalityType DEF Settings

UnseenLeft ==
  Drawing /\ Settings >= 2 * (pattern_up_limit + 1) * (n \div 2 + 2) =>
    (SUBSET real) \ ppp # {}

(* If the real inputs have the settings EndsWithRoom asks for, a random    *)
(* loop that goes on always has a pattern left that has not been seen.     *)
THEOREM RoomSuffices == Spec => []UnseenLeft
<1>1. ASSUME IInv, WithinPlan, Drawing, (SUBSET real) \ ppp = {},
             Settings >= 2 * (pattern_up_limit + 1) * (n \div 2 + 2)
      PROVE  FALSE
  <2>1. /\ half \in Nat /\ pattern_up_limit \in Nat /\ PerRound \in Nat
        /\ i \in Nat /\ pattern_num \in Nat /\ i < pattern_up_limit
    BY <1>1, PlanTypes DEF Drawing
  <2>2. Settings \in Nat /\ Settings <= pattern_num
    <3>1. IsFiniteSet(ppp) /\ pattern_num = Cardinality(ppp)
      BY <1>1 DEF IInv, Counted, Made
    <3>2. SUBSET real \in SUBSET ppp
      BY <1>1
    <3>3. Cardinality(SUBSET real) <= Cardinality(ppp)
      BY <3>1, <3>2, FS_Subset
    <3> QED BY <1>1, <3>1, <3>3, SettingsFinite DEF Settings
  <2>3. PerRound * half \in Nat /\ PerRound = 2 * pattern_up_limit + 2
    BY <2>1, Products DEF PerRound
  <2>4. pattern_num <= PerRound * half + 2 * pattern_up_limit + 2 * i
    BY <1>1, <2>1, <2>3 DEF WithinPlan, Drawing
  <2>5. 2 * (pattern_up_limit + 1) * (half + 2) = PerRound * half + 4 * pattern_up_limit + 4
    BY <2>1, <2>3
  <2>6. Settings >= PerRound * half + 4 * pattern_up_limit + 4
    BY <1>1, <2>5 DEF half
  <2> QED BY <2>1, <2>2, <2>3, <2>4, <2>6
<1>2. IInv /\ WithinPlan => UnseenLeft
  BY <1>1 DEF UnseenLeft
<1> QED BY <1>2, PlanAlways, PTL

Seen == ppp \intersect SUBSET real

(* Every draw uses up a setting of the real inputs.                        *)
UsedUp ==
  /\ pc \in {"round", "comb"} => i = 0
  /\ pc = "extreme" => Cardinality(Seen) >= i
  /\ pc = "random" => Cardinality(Seen) >= pattern_up_limit + i
  /\ pc = "done" => Cardinality(Seen) >= 2 * pattern_up_limit

LEMMA SeenFinite ==
  ASSUME IInv PROVE IsFiniteSet(Seen) /\ Cardinality(Seen) \in Nat
<1>1. IsFiniteSet(ppp)
  BY DEF IInv, Counted, Made
<1> QED BY <1>1, FS_Subset, FS_CardinalityType DEF Seen

LEMMA UsedUpStep == IInv /\ UsedUp /\ [Next]_vars => UsedUp'
<1> SUFFICES ASSUME IInv, UsedUp, [Next]_vars PROVE UsedUp'
  OBVIOUS
<1> USE DEF params
<1>0. /\ pattern_up_limit \in Nat /\ i \in Nat /\ i <= pattern_up_limit
      /\ Cardinality(Seen) \in Nat
  BY PlanTypes, SeenFinite
<1>1. CASE StartRound \/ printRes \/ EndRound
  BY <1>1 DEF StartRound, printRes, EndRound, UsedUp
<1>2. CASE EndRounds
  <2>1. pc = "round" /\ pc' = "extreme" /\ i' = i
    BY <1>2 DEF EndRounds
  <2>2. Seen' = Seen
    BY <1>2 DEF EndRounds, Seen, real, n
  <2> QED BY <1>0, <2>1, <2>2 DEF UsedUp
<1>3. CASE Draw
  <2>1. PICK z \in (SUBSET real) \ ppp : ppp' = ppp \union {z, flip(z)}
    BY <1>3 DEF Draw
  <2>2. /\ i' = i + 1 /\ pc' = pc /\ pattern_up_limit' = pattern_up_limit
        /\ real' = real /\ pc \in {"extreme", "random"}
    BY <1>3 DEF Draw, Drawing, real, n
  <2>3. IInv'
    BY NextInv
  <2>4. IsFiniteSet(Seen') /\ Cardinality(Seen') \in Nat
    <3>1. IsFiniteSet(ppp')
      BY <2>3 DEF IInv, Counted, Made
    <3> QED BY <3>1, FS_Subset, FS_CardinalityType DEF Seen
  <2>5. Seen \union {z} \in SUBSET Seen' /\ z \notin Seen
    BY <2>1, <2>2 DEF Seen
  <2>6. Cardinality(Seen \union {z}) = Cardinality(Seen) + 1
    BY <2>5, SeenFinite, FS_AddElement
  <2>7. Cardinality(Seen \union {z}) <= Cardinality(Seen')
    BY <2>4, <2>5, FS_Subset
  <2>8. Cardinality(Seen') >= Cardinality(Seen) + 1
    BY <1>0, <2>4, <2>6, <2>7
  <2> QED BY <1>0, <2>2, <2>4, <2>8 DEF UsedUp
<1>4. CASE EndLoop
  <2>1. /\ i' = 0 /\ i = pattern_up_limit /\ pattern_up_limit' = pattern_up_limit
        /\ \/ pc = "extreme" /\ pc' = "random"
           \/ pc = "random" /\ pc' = "done"
    BY <1>0, <1>4 DEF EndLoop
  <2>2. Seen' = Seen
    BY <1>4 DEF EndLoop, Seen, real, n
  <2> QED BY <1>0, <2>1, <2>2 DEF UsedUp
<1>5. CASE UNCHANGED vars
  <2>1. Seen' = Seen
    BY <1>5 DEF vars, Seen, real, n
  <2> QED BY <1>5, <2>1 DEF vars, UsedUp
<1> QED BY <1>1, <1>2, <1>3, <1>4, <1>5 DEF Next

NeverDone == Settings < 2 * pattern_up_limit => pc # "done"

(* If the real inputs have fewer settings than the two random loops want   *)
(* patterns, CreatePattern never returns, however the numbers fall.        *)
THEOREM TooFewSettingsNeverEnd == Spec => []NeverDone
<1>1. Init => UsedUp
  BY DEF Init, UsedUp
<1>2. ASSUME IInv, UsedUp, Settings < 2 * pattern_up_limit, pc = "done" PROVE FALSE
  <2>1. Seen \in SUBSET SUBSET real /\ Cardinality(Seen) \in Nat
    BY <1>2, SeenFinite DEF Seen
  <2>2. Cardinality(Seen) <= Settings /\ Settings \in Nat
    BY <1>2, <2>1, SettingsFinite, FS_Subset DEF Settings
  <2>3. pattern_up_limit \in Nat
    BY <1>2, PlanTypes
  <2> QED BY <1>2, <2>1, <2>2, <2>3 DEF UsedUp
<1>3. IInv /\ UsedUp => NeverDone
  BY <1>2 DEF NeverDone
<1> QED BY <1>1, <1>3, Invariance, UsedUpStep, PTL DEF Spec

(* How many steps there are left at most.                                  *)
RoundSteps == Quota(pattern_up_limit) + 2

Left ==
  CASE pc = "round"   -> RoundSteps * (half - k) + 2 * pattern_up_limit + 4
    [] pc = "comb"    -> RoundSteps * (half - k) - choice - 1 + 2 * pattern_up_limit + 4
    [] pc = "extreme" -> 2 * pattern_up_limit - i + 2
    [] pc = "random"  -> pattern_up_limit - i + 1
    [] OTHER          -> 0

ComesNearer == [][Left' < Left /\ Left \in Nat /\ Left' \in Nat]_vars

LEMMA LeftType ==
  ASSUME IInv, WithinPlan
  PROVE  Left \in Nat /\ RoundSteps \in Nat /\ Choices + 2 <= RoundSteps
<1>1. /\ k \in Nat /\ half \in Nat /\ k <= half /\ n \in Nat
      /\ pattern_up_limit \in Nat /\ choice \in Nat /\ i \in Nat /\ i <= pattern_up_limit
      /\ Choices \in Nat
  BY PlanTypes
<1>2. RoundSteps \in Nat /\ Choices + 2 <= RoundSteps
  <2>1. Quota(pattern_up_limit) \in Nat
    BY <1>1, QuotaType
  <2>2. Choices <= Quota(pattern_up_limit)
    BY <1>1, PrintedWithinQuota DEF Choices
  <2> QED BY <1>1, <2>1, <2>2 DEF RoundSteps
<1>3. PICK d \in Nat : d = half - k
  BY <1>1
<1>4. RoundSteps * d \in Nat
  BY <1>2, Products
<1>5. CASE pc = "comb"
  <2>1. k < half /\ choice <= Choices
    BY <1>5 DEF IInv, WithinPlan, half
  <2>2. 1 <= d
    BY <1>1, <1>3, <2>1
  <2>3. RoundSteps * 1 <= RoundSteps * d
    BY <1>2, <2>2, Products
  <2> QED BY <1>1, <1>2, <1>3, <1>4, <1>5, <2>1, <2>3 DEF Left
<1>6. CASE pc # "comb"
  BY <1>1, <1>2, <1>3, <1>4, <1>6 DEF Left
<1> QED BY <1>2, <1>5, <1>6

(* Every step of CreatePattern, draws of seen patterns aside, leaves fewer *)
(* to make than before; so it ends where the draws do not run out.         *)
THEOREM RunsDown == Spec => ComesNearer
<1>0. IInv /\ WithinPlan => Left \in Nat
  BY LeftType
<1>1. ASSUME IInv /\ WithinPlan, Left \in Nat, (Left \in Nat)', [Next]_vars
      PROVE  [Left' < Left /\ Left \in Nat /\ Left' \in Nat]_vars
  <2> USE DEF params
  <2>1. /\ k \in Nat /\ half \in Nat /\ k <= half /\ n \in Nat
        /\ pattern_up_limit \in Nat /\ choice \in Nat /\ i \in Nat
        /\ i <= pattern_up_limit /\ Choices \in Nat
    BY <1>1, PlanTypes
  <2>2. Left \in Nat /\ RoundSteps \in Nat /\ Choices + 2 <= RoundSteps
    BY <1>1, LeftType
  <2>3. Left' \in Nat
    BY <1>1
  <2>4. /\ RoundSteps * (half - k) \in Int
        /\ RoundSteps * (half - (k + 1)) = RoundSteps * (half - k) - RoundSteps
    BY <2>1, <2>2
  <2>5. ASSUME Next PROVE /\ pattern_up_limit' = pattern_up_limit /\ half' = half
                          /\ RoundSteps' = RoundSteps
    <3>1. UNCHANGED params
      BY <2>5 DEF Next, StartRound, printRes, EndRound, EndRounds, Draw, EndLoop
    <3> QED BY <3>1 DEF half, n, RoundSteps
  <2>6. CASE StartRound
    <3>1. pc = "round" /\ pc' = "comb" /\ k' = k /\ choice' = 0
      BY <2>6 DEF StartRound
    <3> QED BY <2>1, <2>2, <2>3, <2>4, <2>5, <2>6, <3>1 DEF Left, Next
  <2>7. CASE printRes
    <3>1. pc = "comb" /\ pc' = "comb" /\ k' = k /\ choice' = choice + 1
      BY <2>7 DEF printRes
    <3> QED BY <2>1, <2>2, <2>3, <2>4, <2>5, <2>7, <3>1 DEF Left, Next
  <2>8. CASE EndRound
    <3>1. pc = "comb" /\ pc' = "round" /\ k' = k + 1
      BY <2>8 DEF EndRound
    <3>2. choice <= Choices
      BY <1>1, <3>1 DEF WithinPlan
    <3> QED BY <2>1, <2>2, <2>3, <2>4, <2>5, <2>8, <3>1, <3>2 DEF Left, Next
  <2>9. CASE EndRounds
    <3>1. pc = "round" /\ pc' = "extreme" /\ i' = i /\ k = half
      BY <2>1, <2>9 DEF EndRounds, half
    <3>2. RoundSteps * (half - k) = 0
      BY <2>1, <2>2, <3>1
    <3> QED BY <2>1, <2>2, <2>3, <2>5, <2>9, <3>1, <3>2 DEF Left, Next
  <2>10. CASE Draw
    <3>1. pc \in {"extreme", "random"} /\ pc' = pc /\ i' = i + 1
      BY <2>10 DEF Draw, Drawing
    <3> QED BY <2>1, <2>2, <2>3, <2>5, <2>10, <3>1 DEF Left, Next
  <2>11. CASE EndLoop
    <3>1. /\ i' = 0 /\ i = pattern_up_limit
          /\ \/ pc = "extreme" /\ pc' = "random"
             \/ pc = "random" /\ pc' = "done"
      BY <2>1, <2>11 DEF EndLoop
    <3> QED BY <2>1, <2>2, <2>3, <2>5, <2>11, <3>1 DEF Left, Next
  <2> QED BY <1>1, <2>6, <2>7, <2>8, <2>9, <2>10, <2>11 DEF Next
<1> QED BY <1>0, <1>1, PlanAlways, PTL DEF Spec, ComesNearer
=============================================================================
