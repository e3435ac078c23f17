-------------------------- MODULE FixNetworkProofs --------------------------
(***************************************************************************)
(* Proofs about FixNetwork, for every set of inputs, every number of       *)
(* outputs, every pair of circuit and oracle and every choice of tests.    *)
(*                                                                         *)
(* The inductive invariant says that the correction files hold exactly the *)
(* faults of the tests.  A correction is 1 (or 0) on a pattern exactly     *)
(* when some fault has the same real inputs, and the properties follow by  *)
(* cases on what the oracle and the circuit say.                           *)
(***************************************************************************)
EXTENDS FixNetwork, FunctionTheorems, FiniteSetTheorems, TLAPS

(* The row of a fault covers the patterns with the same real inputs.       *)
LEMMA FaultCubeCovers ==
  ASSUME NEW real \in SUBSET InputIds, NEW p \in AllPatterns, NEW q
  PROVE  /\ FaultCube(real, p) \in CubesOn(InputIds)
         /\ Covers(FaultCube(real, p), q) <=> \A k \in real : p[k] = q[k]
<1>1. \A k \in InputIds : p[k] \in Bit /\ p[k] # "-"
  BY DEF AllPatterns, PatternsOn, Bit
<1> QED BY <1>1 DEF FaultCube, Covers, CubesOn

LEMMA FaultCubesType ==
  ASSUME TypeOK, NEW o \in POs, NEW T \in SUBSET AllPatterns, NEW bit
  PROVE  FaultCubes(o, T, bit) \in SUBSET CubesOn(InputIds)
<1>1. realPI_to_PO[o] \in SUBSET InputIds
  BY DEF TypeOK
<1>2. \A p \in T : FaultCube(realPI_to_PO[o], p) \in CubesOn(InputIds)
  BY <1>1, FaultCubeCovers
<1> QED BY <1>2 DEF FaultCubes

(* The patterns of the random loops and of printRes are patterns.          *)
LEMMA TestSetsType ==
  ASSUME NEW real, NEW T \in TestSets(real) PROVE T \in SUBSET AllPatterns
<1>1. \A A : Setting(A) \in AllPatterns
  BY DEF Setting, AllPatterns, PatternsOn, Bit
<1> QED BY <1>1 DEF TestSets

(* Gates of bits are bits.                                                 *)
LEMMA MixedType ==
  ASSUME TypeOK, NEW o \in POs, NEW p \in AllPatterns
  PROVE  Mixed(o, p) \in Bit
<1>1. main[o][p] \in Bit
  BY CircuitsAssumption DEF TypeOK
<1> QED BY <1>1 DEF Mixed, Or, And, Bit

-----------------------------------------------------------------------------
LEMMA InitIInv == Init => IInv
<1> SUFFICES ASSUME Init PROVE IInv
  OBVIOUS
<1>1. TypeOK
  <2>1. main \in [POs -> [AllPatterns -> Bit]]
    BY CircuitsAssumption DEF Init
  <2> QED BY <2>1, NumPOAssumption DEF Init, TypeOK
<1>2. \A bit : \A o \in POs : FaultCubes(o, {}, bit) = {}
  BY DEF FaultCubes
<1> QED BY <1>1, <1>2 DEF Init, IInv

LEMMA NextIInv == ASSUME IInv, [Next]_vars PROVE IInv'
<1> USE NumPOAssumption DEF IInv
<1>1. CASE Skip
  <2>1. TypeOK'
    BY <1>1 DEF Skip, given, TypeOK, POs
  <2> QED BY <1>1, <2>1 DEF Skip, given, FaultCubes
<1>2. CASE FixOutput
  <2>1. PICK T \in TestSets(realPI_to_PO[po]) :
          /\ tested' = [tested EXCEPT ![po] = T]
          /\ fault0' = [fault0 EXCEPT ![po] = FaultCubes(po, T, "1")]
          /\ fault1' = [fault1 EXCEPT ![po] = FaultCubes(po, T, "0")]
    BY <1>2 DEF FixOutput
  <2>2. po \in POs /\ po \in notTruth
    BY <1>2 DEF FixOutput, TypeOK
  <2>3. /\ T \in SUBSET AllPatterns
        /\ FaultCubes(po, T, "1") \in SUBSET CubesOn(InputIds)
        /\ FaultCubes(po, T, "0") \in SUBSET CubesOn(InputIds)
    BY <2>1, <2>2, TestSetsType, FaultCubesType
  <2>4. TypeOK'
    BY <1>2, <2>1, <2>2, <2>3 DEF FixOutput, given, TypeOK, POs
  <2>5. ASSUME NEW o \in POs
        PROVE  /\ fault0'[o] = FaultCubes(o, tested[o], "1")'
               /\ fault1'[o] = FaultCubes(o, tested[o], "0")'
    <3>1. /\ FaultCubes(o, tested[o], "1")' = FaultCubes(o, tested'[o], "1")
          /\ FaultCubes(o, tested[o], "0")' = FaultCubes(o, tested'[o], "0")
      BY <1>2 DEF FixOutput, given, FaultCubes
    <3>2. CASE o = po
      BY <3>1, <3>2, <2>1, <2>2 DEF TypeOK
    <3>3. CASE o # po
      BY <3>1, <3>3, <2>1, <2>2 DEF TypeOK
    <3> QED BY <3>2, <3>3
  <2>6. ASSUME NEW o \in POs \ notTruth PROVE tested'[o] = {}
    BY <2>1, <2>2 DEF TypeOK
  <2> QED BY <1>2, <2>4, <2>5, <2>6 DEF FixOutput, given
<1>3. CASE MixVerilog
  <2>1. main \in [POs -> [AllPatterns -> Bit]]
    BY CircuitsAssumption DEF TypeOK
  <2>2. result' \in [POs -> [AllPatterns -> Bit]]
    BY <1>3, <2>1, MixedType DEF MixVerilog
  <2>3. TypeOK'
    BY <1>3, <2>2 DEF MixVerilog, given, TypeOK
  <2>4. \A o \in POs : \A p \in AllPatterns : result'[o][p] = Mixed(o, p)
    <3>1. CASE \A o \in POs : fault0[o] = {} /\ fault1[o] = {}
      BY <1>3, <3>1 DEF MixVerilog, Mixed
    <3>2. CASE ~ \A o \in POs : fault0[o] = {} /\ fault1[o] = {}
      BY <1>3, <3>2 DEF MixVerilog
    <3> QED BY <3>1, <3>2
  <2>5. \A o \in POs : \A p \in AllPatterns : Mixed(o, p)' = Mixed(o, p)
    BY <1>3 DEF MixVerilog, given, Mixed, Wrong0, Wrong1, CoveredBy
  <2> QED BY <1>3, <2>3, <2>4, <2>5 DEF MixVerilog, given, FaultCubes
<1>4. CASE UNCHANGED vars
  <2>1. TypeOK'
    BY <1>4 DEF vars, TypeOK
  <2> QED BY <1>4, <2>1 DEF vars, FaultCubes, Mixed, Wrong0, Wrong1, CoveredBy
<1> QED BY <1>1, <1>2, <1>3, <1>4 DEF Next

THEOREM Invariance == Spec => []IInv
BY InitIInv, NextIInv, PTL DEF Spec

(* Every cube and every function the calls pass on is well formed.         *)
THEOREM TypeCorrect == Spec => []TypeOK
<1>1. IInv => TypeOK
  BY DEF IInv
<1> QED BY <1>1, Invariance, PTL

-----------------------------------------------------------------------------
(* What the corrections compute, in terms of the tests.                    *)
LEMMA Corrections ==
  ASSUME IInv, NEW o \in POs, NEW p \in AllPatterns
  PROVE  /\ CoveredBy(fault0[o], p) <=>
              \E q \in tested[o] : oracle[o][q] = "1" /\ main[o][q] # "1"
                                   /\ SameReal(o, q, p)
         /\ CoveredBy(fault1[o], p) <=>
              \E q \in tested[o] : oracle[o][q] = "0" /\ main[o][q] # "0"
                                   /\ SameReal(o, q, p)
<1>1. tested[o] \subseteq AllPatterns /\ realPI_to_PO[o] \in SUBSET InputIds
  BY DEF IInv, TypeOK
<1>2. ASSUME NEW bit
      PROVE  CoveredBy(FaultCubes(o, tested[o], bit), p) <=>
               \E q \in tested[o] : oracle[o][q] = bit /\ main[o][q] # bit
                                    /\ SameReal(o, q, p)
  BY <1>1, FaultCubeCovers DEF CoveredBy, FaultCubes, SameReal
<1> QED BY <1>2 DEF IInv

(* The four ways to join the gates compute one function: first the or with *)
(* _wrong1, then the and with _wrong0.                                     *)
LEMMA MixedFunction ==
  ASSUME IInv, NEW o \in POs, NEW p \in AllPatterns
  PROVE  Mixed(o, p) = IF CoveredBy(fault1[o], p) THEN "0"
                       ELSE IF CoveredBy(fault0[o], p) THEN "1"
                       ELSE main[o][p]
<1>1. main[o][p] \in Bit
  BY CircuitsAssumption DEF IInv, TypeOK
<1>2. /\ fault0[o] = {} => ~ CoveredBy(fault0[o], p)
      /\ fault1[o] = {} => ~ CoveredBy(fault1[o], p)
  BY DEF CoveredBy
<1> QED BY <1>1, <1>2 DEF Mixed, Or, And, Wrong0, Wrong1, Bit

(* Oracle, circuit and result speak in bits.                               *)
LEMMA BitValues ==
  ASSUME IInv, NEW o \in POs, NEW p \in tested[o]
  PROVE  p \in AllPatterns /\ oracle[o][p] \in Bit /\ main[o][p] \in Bit
BY CircuitsAssumption DEF IInv, TypeOK

(* Patterns with the same real inputs get the same corrections.            *)
LEMMA SameCorrections ==
  ASSUME IInv, NEW o \in POs, NEW p \in AllPatterns, NEW q \in AllPatterns,
         SameReal(o, p, q), main[o][p] = main[o][q]
  PROVE  Mixed(o, p) = Mixed(o, q)
<1>1. \A x : SameReal(o, x, p) <=> SameReal(o, x, q)
  BY DEF SameReal
<1>2. /\ CoveredBy(fault0[o], p) <=> CoveredBy(fault0[o], q)
      /\ CoveredBy(fault1[o], p) <=> CoveredBy(fault1[o], q)
  BY <1>1, Corrections
<1> QED BY <1>2, MixedFunction

(* A tested pattern is corrected where it was wrong, and the other         *)
(* correction does not reach it.                                           *)
LEMMA IInvTestedFixed == IInv => TestedFixed
<1> SUFFICES ASSUME IInv, pc = "done", NEW o \in POs, RealSuffices(o),
                    NEW p \in tested[o]
             PROVE  result[o][p] = oracle[o][p]
  BY DEF TestedFixed
<1>1. p \in AllPatterns /\ oracle[o][p] \in Bit /\ main[o][p] \in Bit
  BY BitValues
<1>2. result[o][p] = Mixed(o, p)
  BY <1>1 DEF IInv
<1>3. \A q \in tested[o] : SameReal(o, q, p) => oracle[o][q] = oracle[o][p]
  BY DEF RealSuffices
<1>4. SameReal(o, p, p)
  BY DEF SameReal
<1>5. CASE oracle[o][p] = "1"
  <2>1. ~ CoveredBy(fault1[o], p)
    BY <1>1, <1>3, <1>5, Corrections
  <2>2. main[o][p] = "1" \/ CoveredBy(fault0[o], p)
    BY <1>1, <1>4, <1>5, Corrections
  <2> QED BY <1>1, <1>2, <1>5, <2>1, <2>2, MixedFunction
<1>6. CASE oracle[o][p] = "0"
  <2>1. ~ CoveredBy(fault0[o], p)
    BY <1>1, <1>3, <1>6, Corrections
  <2>2. main[o][p] = "0" \/ CoveredBy(fault1[o], p)
    BY <1>1, <1>4, <1>6, Corrections
  <2> QED BY <1>1, <1>2, <1>6, <2>1, <2>2, MixedFunction
<1> QED BY <1>1, <1>5, <1>6 DEF Bit

(* After fixing, an output whose real inputs suffice is right on every     *)
(* pattern it was tested on.                                               *)
THEOREM FixesWhatItTested == Spec => []TestedFixed
BY IInvTestedFixed, Invariance, PTL

(* A 1 for a 0 is corrected whatever the oracle depends on.                *)
THEOREM CorrectsEveryFault1 == Spec => []Fault1AlwaysFixed
<1>1. IInv => Fault1AlwaysFixed
  <2> SUFFICES ASSUME IInv, pc = "done", NEW o \in POs, NEW p \in tested[o],
                      oracle[o][p] = "0", main[o][p] = "1"
               PROVE  result[o][p] = "0"
    BY DEF Fault1AlwaysFixed
  <2>1. p \in AllPatterns
    BY BitValues
  <2>2. CoveredBy(fault1[o], p)
    BY <2>1, Corrections DEF SameReal
  <2> QED BY <2>1, <2>2, MixedFunction DEF IInv
<1> QED BY <1>1, Invariance, PTL

(* A changed value comes from a correction, and that from a faulty test.   *)
LEMMA IInvLocal == IInv => CorrectionsAreLocal
<1> SUFFICES ASSUME IInv, pc = "done", NEW o \in POs, NEW p \in AllPatterns,
                    result[o][p] # main[o][p]
             PROVE  \E q \in tested[o] : /\ SameReal(o, p, q)
                                         /\ main[o][q] # oracle[o][q]
                                         /\ oracle[o][q] = result[o][p]
  BY DEF CorrectionsAreLocal
<1>1. result[o][p] = Mixed(o, p)
  BY DEF IInv
<1>2. \A q : SameReal(o, q, p) => SameReal(o, p, q)
  BY DEF SameReal
<1>3. CASE CoveredBy(fault1[o], p)
  BY <1>1, <1>2, <1>3, Corrections, MixedFunction
<1>4. CASE ~ CoveredBy(fault1[o], p) /\ CoveredBy(fault0[o], p)
  BY <1>1, <1>2, <1>4, Corrections, MixedFunction
<1>5. CASE ~ CoveredBy(fault1[o], p) /\ ~ CoveredBy(fault0[o], p)
  BY <1>1, <1>5, MixedFunction
<1> QED BY <1>3, <1>4, <1>5

(* Where the result differs from the circuit, a test was wrong in that     *)
(* direction on the same real inputs.                                      *)
THEOREM CorrectionsStayLocal == Spec => []CorrectionsAreLocal
BY IInvLocal, Invariance, PTL

(* A correction that would break a right value contradicts a test.         *)
LEMMA LocalAddsNone == IInv /\ CorrectionsAreLocal => NoNewErrors
<1> SUFFICES ASSUME IInv, CorrectionsAreLocal, pc = "done", NEW o \in POs,
                    RealSufficesAlways(o), NEW p \in AllPatterns,
                    main[o][p] = oracle[o][p], result[o][p] # oracle[o][p]
             PROVE  FALSE
  BY DEF NoNewErrors
<1>1. PICK q \in tested[o] : /\ SameReal(o, p, q)
                             /\ oracle[o][q] = result[o][p]
  BY DEF CorrectionsAreLocal
<1>2. q \in AllPatterns
  BY DEF IInv, TypeOK
<1> QED BY <1>1, <1>2 DEF RealSufficesAlways

(* Where the real inputs suffice, what was right stays right.              *)
THEOREM AddsNoErrors == Spec => []NoNewErrors
BY LocalAddsNone, Invariance, CorrectionsStayLocal, PTL

-----------------------------------------------------------------------------
(* The inputs an output is not taken to depend on are all 0 in a test      *)
(* pattern, or all 1: at most two of them share their real inputs.         *)
Outside(o, p, bit) == \A k \in InputIds \ realPI_to_PO[o] : p[k] = bit

OutsideEqual ==
  \A o \in POs : \A p \in tested[o] : Outside(o, p, "0") \/ Outside(o, p, "1")

LEMMA OutsideKept == IInv /\ OutsideEqual /\ [Next]_vars => OutsideEqual'
<1> SUFFICES ASSUME IInv, OutsideEqual, [Next]_vars PROVE OutsideEqual'
  OBVIOUS
<1>1. CASE Skip \/ MixVerilog \/ UNCHANGED vars
  BY <1>1 DEF Skip, MixVerilog, vars, given, OutsideEqual, Outside
<1>2. CASE FixOutput
  <2>1. PICK T \in TestSets(realPI_to_PO[po]) : tested' = [tested EXCEPT ![po] = T]
    BY <1>2 DEF FixOutput
  <2>2. realPI_to_PO' = realPI_to_PO
    BY <1>2 DEF FixOutput, given
  <2>3. \A p \in T : Outside(po, p, "0") \/ Outside(po, p, "1")
    <3>1. PICK made \in TestSetsOf(InputIds, realPI_to_PO[po]) : T = {Setting(x) : x \in made}
      BY DEF TestSets
    <3> SUFFICES ASSUME NEW x \in made
                 PROVE  Outside(po, Setting(x), "0") \/ Outside(po, Setting(x), "1")
      BY <3>1
    <3>2. \/ x \subseteq realPI_to_PO[po]
          \/ InputIds \ x \subseteq realPI_to_PO[po]
      BY DEF TestSetsOf
    <3> QED BY <3>2 DEF Setting, Outside
  <2>4. ASSUME NEW o \in POs, NEW p \in tested'[o]
        PROVE  Outside(o, p, "0") \/ Outside(o, p, "1")
    <3>1. CASE o = po
      BY <2>1, <2>3, <2>4, <3>1 DEF IInv, TypeOK
    <3>2. CASE o # po
      BY <2>1, <2>4, <3>2 DEF IInv, TypeOK, OutsideEqual
    <3> QED BY <3>1, <3>2
  <2> QED BY <2>2, <2>4 DEF OutsideEqual, Outside
<1> QED BY <1>1, <1>2 DEF Next

LEMMA TwoAtMost ==
  ASSUME IInv, OutsideEqual, NEW o \in POs, NEW p \in tested[o],
         NEW q \in tested[o], NEW r \in tested[o],
         SameReal(o, p, r), SameReal(o, q, r), p # r, q # r
  PROVE  p = q
<1>1. p \in [InputIds -> Bit] /\ q \in [InputIds -> Bit] /\ r \in [InputIds -> Bit]
  BY DEF IInv, TypeOK, AllPatterns, PatternsOn
<1>2. ASSUME NEW bit, NEW x \in tested[o], NEW y \in tested[o], SameReal(o, x, r),
             SameReal(o, y, r), Outside(o, x, bit), Outside(o, y, bit)
      PROVE  x = y
  <2>1. x \in [InputIds -> Bit] /\ y \in [InputIds -> Bit]
    BY DEF IInv, TypeOK, AllPatterns, PatternsOn
  <2>2. \A k \in InputIds : x[k] = y[k]
    BY <1>2 DEF SameReal, Outside
  <2> QED BY <2>1, <2>2
<1>3. SameReal(o, r, r)
  BY DEF SameReal
<1>4. Outside(o, r, "0") => Outside(o, p, "1") /\ Outside(o, q, "1")
  BY <1>2, <1>3 DEF OutsideEqual
<1>5. Outside(o, r, "1") => Outside(o, p, "0") /\ Outside(o, q, "0")
  BY <1>2, <1>3 DEF OutsideEqual
<1> QED BY <1>2, <1>4, <1>5 DEF OutsideEqual

(* A test pattern that gets worse has a partner that gets better: the one  *)
(* whose correction it got.                                                *)
LEMMA PartnerImproves ==
  ASSUME IInv, CorrectionsAreLocal, pc = "done", NEW o \in POs,
         NEW p \in Right(main, o) \ Right(result, o)
  PROVE  \E q \in Right(result, o) \ Right(main, o) : SameReal(o, p, q) /\ p # q
<1>1. /\ p \in tested[o] /\ p \in AllPatterns
      /\ main[o][p] = oracle[o][p] /\ result[o][p] # oracle[o][p]
  BY DEF Right, IInv, TypeOK
<1>2. PICK q \in tested[o] : /\ SameReal(o, p, q)
                             /\ main[o][q] # oracle[o][q]
                             /\ oracle[o][q] = result[o][p]
  BY <1>1 DEF CorrectionsAreLocal
<1>3. /\ q \in AllPatterns
      /\ oracle[o][q] \in Bit /\ main[o][q] \in Bit
      /\ oracle[o][p] \in Bit
      /\ result[o][p] = Mixed(o, p) /\ result[o][q] = Mixed(o, q)
  BY <1>1, BitValues DEF IInv
<1>4. SameReal(o, q, q) /\ SameReal(o, q, p)
      /\ \A x : SameReal(o, x, q) => SameReal(o, x, p)
  BY <1>2 DEF SameReal
<1>5. CASE oracle[o][q] = "0"
  <2>1. CoveredBy(fault1[o], q)
    BY <1>2, <1>3, <1>4, <1>5, Corrections
  <2> QED BY <1>1, <1>2, <1>3, <1>5, <2>1, MixedFunction DEF Right
<1>6. CASE oracle[o][q] = "1"
  <2>1. CoveredBy(fault0[o], q)
    BY <1>2, <1>3, <1>4, <1>6, Corrections
  <2>2. ~ CoveredBy(fault1[o], p)
    BY <1>1, <1>2, <1>3, <1>6, MixedFunction
  <2>3. ~ CoveredBy(fault1[o], q)
    BY <1>1, <1>3, <1>4, <2>2, Corrections
  <2> QED BY <1>1, <1>2, <1>3, <1>6, <2>1, <2>3, MixedFunction DEF Right
<1> QED BY <1>3, <1>5, <1>6 DEF Bit

(* There are finitely many patterns: a pattern is the set of its ones.      *)
LEMMA PatternsFinite == IsFiniteSet(AllPatterns)
<1> DEFINE f == [p \in AllPatterns |-> {k \in InputIds : p[k] = "1"}]
<1>1. f \in [AllPatterns -> SUBSET InputIds]
  OBVIOUS
<1>2. ASSUME NEW p \in AllPatterns, NEW q \in AllPatterns, f[p] = f[q] PROVE p = q
  <2>1. p \in [InputIds -> Bit] /\ q \in [InputIds -> Bit]
    BY DEF AllPatterns, PatternsOn
  <2>2. {k \in InputIds : p[k] = "1"} = {k \in InputIds : q[k] = "1"}
    BY <1>2
  <2>3. \A k \in InputIds : p[k] = q[k]
    BY <2>1, <2>2 DEF Bit
  <2> QED BY <2>1, <2>3
<1>3. f \in Injection(AllPatterns, SUBSET InputIds)
  <2> HIDE DEF f
  <2> QED BY <1>1, <1>2 DEF Injection, IsInjective
<1>4. IsFiniteSet(SUBSET InputIds)
  BY InputsAssumption, FS_SUBSET
<1> HIDE DEF f
<1> QED BY <1>3, <1>4, FS_Injection

(* The accuracy on the test patterns never drops: partners are different.  *)
THEOREM NeverWorseOnTests == Spec => []AccuracyNeverDrops
<1>1. Init => OutsideEqual
  BY DEF Init, OutsideEqual
<1>2. ASSUME IInv, OutsideEqual, CorrectionsAreLocal PROVE AccuracyNeverDrops
  <2> SUFFICES ASSUME pc = "done", NEW o \in POs
               PROVE  Cardinality(Right(result, o)) >= Cardinality(Right(main, o))
    BY DEF AccuracyNeverDrops
  <2> DEFINE Kept == Right(main, o) \cap Right(result, o)
             Lost == Right(main, o) \ Right(result, o)
             Won  == Right(result, o) \ Right(main, o)
             Partner(p, q) == SameReal(o, p, q) /\ p # q
             f == [p \in Lost |-> CHOOSE q \in Won : Partner(p, q)]
  <2>1. IsFiniteSet(Right(main, o)) /\ IsFiniteSet(Right(result, o))
    <3>1. IsFiniteSet(tested[o])
      BY <1>2, PatternsFinite, FS_Subset DEF IInv, TypeOK
    <3> QED BY <3>1, FS_Subset DEF Right
  <2>2. ASSUME NEW p \in Lost PROVE f[p] \in Won /\ Partner(p, f[p])
    <3>1. \E q \in Won : Partner(p, q)
      BY <1>2, PartnerImproves
    <3> HIDE DEF Won, Partner
    <3> QED BY <3>1
  <2>3. ASSUME NEW p \in Lost, NEW q \in Lost, f[p] = f[q] PROVE p = q
    <3>1. p \in tested[o] /\ q \in tested[o] /\ f[p] \in tested[o]
      BY <2>2 DEF Right
    <3>2. Partner(p, f[p]) /\ Partner(q, f[p])
      BY <2>2, <2>3
    <3> HIDE DEF f
    <3> QED BY <1>2, <3>1, <3>2, TwoAtMost
  <2>4. f \in Injection(Lost, Won)
    <3>1. f \in [Lost -> Won]
      BY <2>2
    <3> HIDE DEF f
    <3> QED BY <2>3, <3>1 DEF Injection, IsInjective
  <2>5. IsFiniteSet(Lost) /\ IsFiniteSet(Won) /\ IsFiniteSet(Kept)
    BY <2>1, FS_Subset, FS_Difference
  <2>6. Cardinality(Lost) <= Cardinality(Won)
    <3> HIDE DEF f
    <3> QED BY <2>4, <2>5, FS_Injection
  <2>7. /\ Right(main, o) = Kept \union Lost /\ Kept \cap Lost = {}
        /\ Right(result, o) = Kept \union Won /\ Kept \cap Won = {}
    OBVIOUS
  <2> HIDE DEF Kept, Lost, Won
  <2>8. /\ Cardinality(Kept \union Lost) = Cardinality(Kept) + Cardinality(Lost)
        /\ Cardinality(Kept \union Won) = Cardinality(Kept) + Cardinality(Won)
    <3>1. /\ Cardinality(Kept \cap Lost) = 0 /\ Cardinality(Kept \cap Won) = 0
          /\ Cardinality(Kept) \in Nat /\ Cardinality(Lost) \in Nat
          /\ Cardinality(Won) \in Nat
      BY <2>5, <2>7, FS_EmptySet, FS_CardinalityType
    <3>2. Cardinality(Kept \union Lost)
            = Cardinality(Kept) + Cardinality(Lost) - Cardinality(Kept \cap Lost)
      BY <2>5, FS_Union
    <3>3. Cardinality(Kept \union Won)
            = Cardinality(Kept) + Cardinality(Won) - Cardinality(Kept \cap Won)
      BY <2>5, FS_Union
    <3> QED BY <3>1, <3>2, <3>3
  <2> QED BY <2>5, <2>6, <2>7, <2>8, FS_CardinalityType
<1> QED BY <1>1, <1>2, Invariance, OutsideKept, CorrectionsStayLocal, PTL DEF Spec
=============================================================================
