---------------------------- MODULE ConstOutput ----------------------------
(***************************************************************************)
(* CheckConstOutput of src/classifyoutput.cpp: draw pattern_num distinct   *)
(* random patterns, have iogen answer them, and call an output constant    *)
(* when too few of its answers differ.                                     *)
(***************************************************************************)
EXTENDS Integers, FiniteSets, Patterns

CONSTANTS
  InputNum,      (* input_num                                              *)
  Outputs,       (* the primary outputs                                    *)
  PatternNums,   (* PATTERN_NUMS; 200000 in the code                       *)
  ThresholdNum,  (* OUT_THREDHOLD is ThresholdNum / ThresholdDen;          *)
  ThresholdDen   (* 2 / 1000 in the code                                   *)

Ids == 0 .. InputNum - 1

AllPatterns == PatternsOn(Ids)

ASSUME InputNumAssumption == InputNum \in Nat
ASSUME PatternNumsAssumption == PatternNums \in Nat
ASSUME ThresholdAssumption ==
  /\ ThresholdNum \in Nat
  /\ ThresholdDen \in Nat \ {0}
  /\ 2 * ThresholdNum <= ThresholdDen

VARIABLES
  oracle,      (* iogen: the output bit of every pattern (external)        *)
  ppp,         (* the patterns drawn                                       *)
  i,           (* the loop counter                                         *)
  pc,          (* "draw", "ask" or "done"                                  *)
  answers,     (* per output, the drawn patterns iogen answered 1          *)
  classifyPO   (* 0 and 1 constant, 2 neither                              *)

vars == <<oracle, ppp, i, pc, answers, classifyPO>>

(* The columns of the in_pat file are written from the last bit down under *)
(* the names from the first input up.                                      *)
Row(p) == [k \in Ids |-> p[InputNum - 1 - k]]

Init ==
  /\ oracle \in [Outputs -> [AllPatterns -> Bit]]
  /\ ppp = {}
  /\ i = 0
  /\ pc = "draw"
  /\ answers = [o \in Outputs |-> {}]
  /\ classifyPO = [o \in Outputs |-> 2]

(* One draw; "i--" makes up for one that has been seen.                    *)
Draw(p) ==
  /\ pc = "draw"
  /\ i < PatternNums
  /\ ppp' = ppp \union {p}
  /\ i' = IF p \in ppp THEN i ELSE i + 1
  /\ UNCHANGED <<oracle, pc, answers, classifyPO>>

(* Faulty variant: the loop is left one pattern too late.                  *)
AskTooLate ==
  /\ pc = "draw"
  /\ i = PatternNums + 1
  /\ answers' = [o \in Outputs |-> {p \in ppp : oracle[o][Row(p)] = "1"}]
  /\ pc' = "ask"
  /\ UNCHANGED <<oracle, ppp, i, classifyPO>>

(* Faulty variant: an input column is read as the output's.                *)
AskReadingInput ==
  /\ pc = "draw"
  /\ i = PatternNums
  /\ answers' = [o \in Outputs |-> {p \in ppp : Row(p)[0] = "1"}]
  /\ pc' = "ask"
  /\ UNCHANGED <<oracle, ppp, i, classifyPO>>

(* The file is written, iogen answers it and the answers are read.  That a *)
(* failing iogen leaves none, or those of a run before, is Lrg's matter.   *)
Ask ==
  /\ pc = "draw"
  /\ i = PatternNums
  /\ answers' = [o \in Outputs |-> {p \in ppp : oracle[o][Row(p)] = "1"}]
  /\ pc' = "ask"
  /\ UNCHANGED <<oracle, ppp, i, classifyPO>>

(* Faulty variant: no margin for rare ones below, all of it above.         *)
ClassSwapped(ones) ==
  IF ones = 0 \/ ones * ThresholdDen > (ThresholdDen - ThresholdNum) * PatternNums
  THEN 0
  ELSE IF ones = PatternNums \/ ones * ThresholdDen < ThresholdNum * PatternNums
       THEN 1
       ELSE 2

Class(ones) ==
  IF ones = 0 \/ ones * ThresholdDen < ThresholdNum * PatternNums
  THEN 0
  ELSE IF ones = PatternNums
          \/ ones * ThresholdDen > (ThresholdDen - ThresholdNum) * PatternNums
       THEN 1
       ELSE 2

Classify ==
  /\ pc = "ask"
  /\ classifyPO' = [o \in Outputs |-> Class(Cardinality(answers[o]))]
  /\ pc' = "done"
  /\ UNCHANGED <<oracle, ppp, i, answers>>

Next == (\E p \in AllPatterns : Draw(p)) \/ Ask \/ Classify

(* rand() draws every pattern again and again, so that one not seen yet    *)
(* turns up in the end: the strongest assumption the loop can rely on.     *)
Spec ==
  /\ Init
  /\ [][Next]_vars
  /\ \A p \in AllPatterns : WF_vars(Draw(p))
  /\ WF_vars(Ask \/ Classify)

-----------------------------------------------------------------------------
(* Properties.                                                             *)

(* Type correctness, with the loop counter counting distinct patterns.     *)
TypeOK ==
  /\ oracle \in [Outputs -> [AllPatterns -> Bit]]
  /\ ppp \subseteq AllPatterns
  /\ i \in 0 .. PatternNums
  /\ i = Cardinality(ppp)
  /\ pc \in {"draw", "ask", "done"}
  /\ answers \in [Outputs -> SUBSET ppp]
  /\ classifyPO \in [Outputs -> 0 .. 2]

Differing(o, bit) == {p \in AllPatterns : oracle[o][p] # bit}

(* An output replaced by a constant is wrong on fewer patterns than the    *)
(* threshold allows among those drawn, plus those never drawn: repeated    *)
(* draws and the reversed columns do not spoil the estimate.               *)
WrongAtMost(o, bit) ==
  LET unseen == Cardinality(AllPatterns) - PatternNums
      wrong  == Cardinality(Differing(o, bit))
  IN  wrong <= unseen
      \/ (wrong - unseen) * ThresholdDen < ThresholdNum * PatternNums

ConstantErrorBound ==
  pc = "done" =>
    \A o \in Outputs :
      /\ classifyPO[o] = 0 => WrongAtMost(o, "0")
      /\ classifyPO[o] = 1 => WrongAtMost(o, "1")

(* An output that is learnt, not replaced, has been seen with both values, *)
(* so its truth table has an on-set and an off-set.                        *)
LearntTakesBothValues ==
  pc = "done" =>
    \A o \in Outputs :
      classifyPO[o] = 2 => Differing(o, "0") # {} /\ Differing(o, "1") # {}

(* The outputs get classified.                                             *)
ClassificationEnds == <>(pc = "done")
=============================================================================
