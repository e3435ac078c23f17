----------------------------- MODULE FixNetwork -----------------------------
(***************************************************************************)
(* FixNetwork and MixVerilog, for all outputs: each output whose truth     *)
(* table was too large is simulated on test patterns, the patterns it gets *)
(* wrong become the cubes of two small correction circuits, and the        *)
(* corrections are joined to the circuit with an or and an and gate.       *)
(*                                                                         *)
(* Tools are taken to work here (Lrg is about their failures): ncverilog   *)
(* evaluates the circuit, iogen the oracle, and abc keeps functions.       *)
(***************************************************************************)
EXTENDS Integers, FiniteSets, Patterns, TestSets

CONSTANTS
  InputIds,  (* the primary inputs                                         *)
  NumPO,     (* output_num                                                 *)
  Circuits   (* the functions of the inputs an output may have             *)

AllPatterns == PatternsOn(InputIds)

POs == 1 .. NumPO

ASSUME InputsAssumption == IsFiniteSet(InputIds)
ASSUME NumPOAssumption == NumPO \in Nat
ASSUME CircuitsAssumption == Circuits \subseteq [AllPatterns -> Bit]

VARIABLES
  oracle,       (* iogen's function of each output (external)              *)
  main,         (* the function beyond_before_fix_circuit.v computes       *)
  realPI_to_PO, (* the inputs each output is taken to depend on            *)
  notTruth,     (* not_truth_table_PO                                      *)
  po,           (* the output FixNetwork is called for next                *)
  tested,       (* iogen_input_patterns of each output fixed so far        *)
  fault0,       (* the cubes of beyond_PO<i>fault0.blif, {} for no file    *)
  fault1,       (* the cubes of beyond_PO<i>fault1.blif, {} for no file    *)
  result,       (* the function of each output of the mixed circuit        *)
  pc            (* "fix" or "done"                                         *)

vars == <<oracle, main, realPI_to_PO, notTruth, po, tested, fault0, fault1,
          result, pc>>

given == <<oracle, main, realPI_to_PO, notTruth>>

-----------------------------------------------------------------------------
(* What CreatePattern may have made, as rows of beyond_fix_in_pat.txt.     *)
Setting(ones) == [k \in InputIds |-> IF k \in ones THEN "1" ELSE "0"]

TestSets(real) == {{Setting(x) : x \in T} : T \in TestSetsOf(InputIds, real)}

(* Faulty variant: the zeros of the pattern are dropped too.               *)
FaultCubeOnesOnly(real, p) ==
  [k \in InputIds |-> IF k \in real /\ p[k] = "1" THEN "1" ELSE "-"]

(* The row of a fault: the inputs not in real are don't-cares.             *)
FaultCube(real, p) == [k \in InputIds |-> IF k \in real THEN p[k] ELSE "-"]

(* Faulty variant: the patterns on which both answers are the same.        *)
CubesAgreeing(o, T, bit) ==
  {FaultCube(realPI_to_PO[o], p) :
     p \in {q \in T : oracle[o][q] = bit /\ main[o][q] = bit}}

(* The patterns iogen answers with bit and the circuit with the other bit. *)
FaultCubes(o, T, bit) ==
  {FaultCube(realPI_to_PO[o], p) :
     p \in {q \in T : oracle[o][q] = bit /\ main[o][q] # bit}}

-----------------------------------------------------------------------------
Init ==
  /\ oracle \in [POs -> Circuits]
  /\ main \in [POs -> Circuits]
  /\ realPI_to_PO \in [POs -> SUBSET InputIds]
  /\ notTruth \in SUBSET POs
  /\ po = 1
  /\ tested = [o \in POs |-> {}]
  /\ fault0 = [o \in POs |-> {}]
  /\ fault1 = [o \in POs |-> {}]
  /\ result = main
  /\ pc = "fix"

(* Main's loop passes over the outputs that are not in the list.           *)
Skip ==
  /\ pc = "fix"
  /\ po \in POs \ notTruth
  /\ po' = po + 1
  /\ UNCHANGED <<given, tested, fault0, fault1, result, pc>>

(* Faulty variant: the corrections of the output before are written again. *)
FixOutputStale ==
  /\ pc = "fix"
  /\ po \in notTruth
  /\ \E T \in TestSets(realPI_to_PO[po]) :
       /\ tested' = [tested EXCEPT ![po] = T]
       /\ fault0' = [fault0 EXCEPT ![po] = UNION {fault0[o] : o \in 1 .. po - 1}
                                             \union FaultCubes(po, T, "1")]
       /\ fault1' = [fault1 EXCEPT ![po] = FaultCubes(po, T, "0")]
  /\ po' = po + 1
  /\ UNCHANGED <<given, result, pc>>

(* One call of FixNetwork.                                                 *)
FixOutput ==
  /\ pc = "fix"
  /\ po \in notTruth
  /\ \E T \in TestSets(realPI_to_PO[po]) :
       /\ tested' = [tested EXCEPT ![po] = T]
       /\ fault0' = [fault0 EXCEPT ![po] = FaultCubes(po, T, "1")]
       /\ fault1' = [fault1 EXCEPT ![po] = FaultCubes(po, T, "0")]
  /\ po' = po + 1
  /\ UNCHANGED <<given, result, pc>>

(* The correction circuits: _wrong1 is 1 on the rows of fault0, _wrong0 is *)
(* 0 on the rows of fault1 (a .names table that lists its off-set).        *)
CoveredBy(cubes, p) == \E c \in cubes : Covers(c, p)

Wrong1(o, p) == IF CoveredBy(fault0[o], p) THEN "1" ELSE "0"

Wrong0(o, p) == IF CoveredBy(fault1[o], p) THEN "0" ELSE "1"

Or(a, b) == IF a = "1" \/ b = "1" THEN "1" ELSE "0"

And(a, b) == IF a = "1" /\ b = "1" THEN "1" ELSE "0"

(* Faulty variant: the gates joined the other way round.                   *)
MixedAndFirst(o, p) ==
  IF fault0[o] = {} /\ fault1[o] = {} THEN main[o][p]
  ELSE IF fault1[o] = {} THEN Or(main[o][p], Wrong1(o, p))
  ELSE IF fault0[o] = {} THEN And(main[o][p], Wrong0(o, p))
  ELSE Or(And(main[o][p], Wrong0(o, p)), Wrong1(o, p))

(* Faulty variant: every or gate is given the first output's wire.         *)
MixedFirstWire(o, p) ==
  IF fault0[1] = {} /\ fault1[o] = {} THEN main[o][p]
  ELSE And(Or(main[o][p], Wrong1(1, p)), Wrong0(o, p))

(* The gates MixVerilog writes for output o, by fault_status[o].           *)
Mixed(o, p) ==
  IF fault0[o] = {} /\ fault1[o] = {} THEN main[o][p]
  ELSE IF fault1[o] = {} THEN Or(main[o][p], Wrong1(o, p))
  ELSE IF fault0[o] = {} THEN And(main[o][p], Wrong0(o, p))
  ELSE And(Or(main[o][p], Wrong1(o, p)), Wrong0(o, p))

(* With no fault anywhere the circuit is copied and only renamed.          *)
MixVerilog ==
  /\ pc = "fix"
  /\ po = NumPO + 1
  /\ result' = IF \A o \in POs : fault0[o] = {} /\ fault1[o] = {}
               THEN main
               ELSE [o \in POs |-> [p \in AllPatterns |-> Mixed(o, p)]]
  /\ pc' = "done"
  /\ UNCHANGED <<given, po, tested, fault0, fault1>>

Next == Skip \/ FixOutput \/ MixVerilog

Spec == Init /\ [][Next]_vars

-----------------------------------------------------------------------------
(* Properties.                                                             *)

(* Type correctness.                                                       *)
TypeOK ==
  /\ oracle \in [POs -> Circuits]
  /\ main \in [POs -> Circuits]
  /\ realPI_to_PO \in [POs -> SUBSET InputIds]
  /\ notTruth \in SUBSET POs
  /\ po \in 1 .. NumPO + 1
  /\ tested \in [POs -> SUBSET AllPatterns]
  /\ fault0 \in [POs -> SUBSET CubesOn(InputIds)]
  /\ fault1 \in [POs -> SUBSET CubesOn(InputIds)]
  /\ result \in [POs -> [AllPatterns -> Bit]]
  /\ pc \in {"fix", "done"}

SameReal(o, p, q) == \A k \in realPI_to_PO[o] : p[k] = q[k]

(* The dummy inputs of o really are dummies, as far as o was tested.       *)
RealSuffices(o) ==
  \A p, q \in tested[o] : SameReal(o, p, q) => oracle[o][p] = oracle[o][q]

(* What the three theorems about the mixed circuit rest on: the correction *)
(* files always hold exactly the faults of the tests, and the mixed        *)
(* circuit is the gates' function of them.                                 *)
IInv ==
  /\ TypeOK
  /\ \A o \in POs : /\ fault0[o] = FaultCubes(o, tested[o], "1")
                    /\ fault1[o] = FaultCubes(o, tested[o], "0")
  /\ \A o \in POs \ notTruth : tested[o] = {}
  /\ pc = "done" => \A o \in POs : \A p \in AllPatterns : result[o][p] = Mixed(o, p)

(* After fixing, an output is right on every pattern it was tested on, if  *)
(* the inputs it was taken to depend on suffice: the two corrections never *)
(* get in each other's way.                                                *)
TestedFixed ==
  pc = "done" =>
    \A o \in POs : RealSuffices(o) =>
      \A p \in tested[o] : result[o][p] = oracle[o][p]

(* Even if they do not suffice, a pattern on which the circuit gave 1 for  *)
(* 0 is corrected: the and gate comes last.                                *)
Fault1AlwaysFixed ==
  pc = "done" =>
    \A o \in POs : \A p \in tested[o] :
      oracle[o][p] = "0" /\ main[o][p] = "1" => result[o][p] = "0"

(* A correction reaches no further than the don't-cares: where the result  *)
(* differs from the circuit, some tested pattern with the same real inputs *)
(* was wrong in that very direction.  An output that was not fixed has no  *)
(* tested patterns, and is left alone whatever was done to the others.     *)
CorrectionsAreLocal ==
  pc = "done" =>
    \A o \in POs : \A p \in AllPatterns :
      result[o][p] # main[o][p] =>
        \E q \in tested[o] :
          /\ SameReal(o, p, q)
          /\ main[o][q] # oracle[o][q]
          /\ oracle[o][q] = result[o][p]

(* If the real inputs do suffice, a pattern the circuit had right stays    *)
(* right, tested or not: corrections that reach untested patterns, through *)
(* don't-cares, can only help.                                             *)
RealSufficesAlways(o) ==
  \A p, q \in AllPatterns : SameReal(o, p, q) => oracle[o][p] = oracle[o][q]

NoNewErrors ==
  pc = "done" =>
    \A o \in POs : RealSufficesAlways(o) =>
      \A p \in AllPatterns : main[o][p] = oracle[o][p] => result[o][p] = oracle[o][p]

Right(circuit, o) == {p \in tested[o] : circuit[o][p] = oracle[o][p]}

(* What verify_ncverilog prints as accuracy before and after, taken on the *)
(* test patterns, never gets worse, real inputs sufficient or not: at most *)
(* two test patterns of an output share their real inputs.                 *)
AccuracyNeverDrops ==
  pc = "done" =>
    \A o \in POs : Cardinality(Right(result, o)) >= Cardinality(Right(main, o))
=============================================================================
