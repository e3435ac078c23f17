------------------------------- MODULE Learn -------------------------------
(***************************************************************************)
(* The learner from the black box to the circuit: main first builds a      *)
(* constant or a table for every output (TruthTable), and what comes out   *)
(* of that, right or wrong, is what FixNetwork tests and MixVerilog mixes  *)
(* (FixNetwork).  The two share the circuit and realPI_to_PO.              *)
(***************************************************************************)
EXTENDS TruthTable

(* FixNetwork's variables; fixed is its loop variable.                     *)
VARIABLES notTruth, fixed, tested, fault0, fault1, result, fixing

(* The circuit to be fixed may be anything.                                *)
Fix == INSTANCE FixNetwork WITH
         Circuits <- [AllPatterns -> Bit], po <- fixed, pc <- fixing

buildVars == <<classifyPO, real_info, po, up_limit, kept, answered, rows,
               used, read, fresh, pc>>

sharedVars == <<oracle, main, realPI_to_PO>>

fixVars == <<notTruth, fixed, tested, fault0, fault1, result, fixing>>

learnVars == <<buildVars, sharedVars, fixVars>>

LearnInit ==
  /\ Init
  /\ notTruth \in SUBSET POs
  /\ fixed = 1
  /\ tested = [o \in POs |-> {}]
  /\ fault0 = [o \in POs |-> {}]
  /\ fault1 = [o \in POs |-> {}]
  /\ result = <<>>
  /\ fixing = "wait"

BuildStep ==
  /\ fixing = "wait"
  /\ Next
  /\ UNCHANGED fixVars

(* abc makes Verilog of the tables if every output is driven (external).   *)
StartFixing ==
  /\ fixing = "wait"
  /\ pc = "done"
  /\ DOMAIN main = POs
  /\ result' = main
  /\ fixing' = "fix"
  /\ UNCHANGED <<buildVars, sharedVars, notTruth, fixed, tested, fault0, fault1>>

FixStep ==
  /\ Fix!Next
  /\ UNCHANGED buildVars

LearnNext == BuildStep \/ StartFixing \/ FixStep

LearnSpec == LearnInit /\ [][LearnNext]_learnVars

-----------------------------------------------------------------------------
(* Properties.                                                             *)

Right(o, p) == result[o][p] = oracle[o][p]

(* An output iogen answered whose kept inputs suffice leaves the learner   *)
(* exact: fixing does no harm, even where the log of dummy inputs names    *)
(* the wrong real ones.                                                    *)
ExactStaysExact ==
  fixing = "done" =>
    \A o \in Learnt \cap fresh :
      KeptSuffice(o, AllPatterns) => result[o] = oracle[o]

SameReal(o, p, q) == \A k \in RealInputs(o) : p[k] = q[k]

RealSuffices(o) ==
  \A p, q \in AllPatterns : SameReal(o, p, q) => oracle[o][p] = oracle[o][q]

(* What the output's own constant or table says of a pattern.              *)
Guess(o, p) ==
  IF classifyPO[o] = 2 THEN oracle[o][DummiesOne(p, used[o])]
  ELSE IF classifyPO[o] = 0 THEN "0" ELSE "1"

(* Every error of the delivered circuit has an explanation, if the real    *)
(* inputs in the log suffice: the constant, or the black box with the      *)
(* dropped inputs at 1, is wrong there, and no test had the same real      *)
(* inputs.  In particular an output whose real inputs were tested in all   *)
(* settings is exact.                                                      *)
ErrorsExplained ==
  fixing = "done" =>
    \A o \in POs : (classifyPO[o] # 2 \/ o \in fresh) /\ RealSuffices(o) =>
      \A p \in AllPatterns : ~ Right(o, p) =>
        /\ Guess(o, p) # oracle[o][p]
        /\ \A q \in tested[o] : ~ SameReal(o, p, q)

(* The inductive invariant: fixing starts from a complete blif, and keeps  *)
(* its own invariant about that circuit.                                   *)
LearnInv ==
  /\ IInv
  /\ fixing \in {"wait", "fix", "done"}
  /\ fixing = "wait" =>
       /\ fixed = 1
       /\ notTruth \in SUBSET POs
       /\ tested = [o \in POs |-> {}]
       /\ fault0 = [o \in POs |-> {}]
       /\ fault1 = [o \in POs |-> {}]
  /\ fixing # "wait" => pc = "done" /\ DOMAIN main = POs /\ Fix!IInv
=============================================================================
