--------------------------- MODULE CreatePattern ---------------------------
(***************************************************************************)
(* CreatePattern of src/fixnetwork.cpp: the test patterns of one output.   *)
(* Patterns with few ones come first, from Comb, then random ones; every   *)
(* pattern comes with its complement, and ppp keeps repetitions out.  A    *)
(* pattern is the set of the inputs that are 1.                            *)
(***************************************************************************)
EXTENDS Subsets, TestSets, Sequences

CONSTANTS
  InputIds,  (* the primary inputs                                         *)
  Vectors,   (* the values realPI_to_PO[output_index] may have             *)
  Limits     (* the values pattern_up_limit may have                       *)

ASSUME InputsAssumption == IsFiniteSet(InputIds) /\ InputIds # {}
ASSUME VectorsAssumption == Vectors \subseteq Seq(InputIds)
ASSUME LimitsAssumption == Limits \subseteq Nat

VARIABLES
  realPI,            (* realPI_to_PO[output_index], in order               *)
  pattern_up_limit,  (* the parameter                                      *)
  k,                 (* the round, which is the number of ones             *)
  over_limit,        (* has a round had more choices than the limit?       *)
  two_order,         (* does printRes add the mirrored choice as well?     *)
  choice,            (* the choices of this round printed so far           *)
  i,                 (* the random patterns of this loop found so far      *)
  ppp,               (* the patterns created                               *)
  pattern_num,       (* iogen_input_patterns.size()                        *)
  pc                 (* "round", "comb", "extreme", "random" or "done"     *)

vars == <<realPI, pattern_up_limit, k, over_limit, two_order, choice, i, ppp,
          pattern_num, pc>>

params == <<realPI, pattern_up_limit>>

n == Len(realPI)

real == {realPI[j] : j \in 1 .. n}

flip(x) == InputIds \ x

-----------------------------------------------------------------------------
Init ==
  /\ realPI \in Vectors
  /\ pattern_up_limit \in Limits
  /\ k = 0
  /\ over_limit = FALSE
  /\ two_order = FALSE
  /\ choice = 0
  /\ i = 0
  /\ ppp = {}
  /\ pattern_num = 0
  /\ pc = "round"

(* Faulty variant: over_limit is not set, and every round counts.          *)
CompareAlways ==
  /\ two_order' = (Cardinality(KSubsets(n, k)) > pattern_up_limit)
  /\ UNCHANGED over_limit

(* Once a round is over the limit the combinations are no longer counted.  *)
(* result is local to the round, so that all later rounds compare a        *)
(* variable never set: two_order is anything there.                        *)
Compare ==
  IF over_limit
  THEN two_order' \in BOOLEAN /\ UNCHANGED over_limit
  ELSE /\ two_order' = (Cardinality(KSubsets(n, k)) > pattern_up_limit)
       /\ over_limit' = two_order'

StartRound ==
  /\ pc = "round"
  /\ k < n \div 2
  /\ Compare
  /\ choice' = 0
  /\ pc' = "comb"
  /\ UNCHANGED <<params, k, i, ppp, pattern_num>>

(* Faulty variant: Comb does not stop at its budget.                       *)
ChoicesUnlimited == Cardinality(KSubsets(n, k))

(* The number of choices Comb hands to printRes in this round; Comb.tla    *)
(* shows which they are.                                                   *)
Choices == Cardinality(Printed(n, k, pattern_up_limit))

Ordered(S) == {realPI[j + 1] : j \in S}

Mirrored(S) == {realPI[n - j] : j \in S}

(* A pattern seen before is not pushed again.                              *)
Push(made, x) ==
  IF x \in made.seen THEN made
  ELSE [seen |-> made.seen \union {x}, num |-> made.num + 1]

(* Faulty variant: the complement is forgotten.                            *)
PushAlone(made, x) == Push(made, x)

PushBoth(made, x) == Push(Push(made, x), flip(x))

Made == [seen |-> ppp, num |-> pattern_num]

(* printRes, for the next choice of Comb.                                  *)
printRes ==
  /\ pc = "comb"
  /\ choice < Choices
  /\ \E S \in KSubsets(n, k) :
       /\ Rank(S, n, k) = choice
       /\ LET once  == PushBoth(Made, Ordered(S))
              twice == IF two_order THEN PushBoth(once, Mirrored(S)) ELSE once
          IN  ppp' = twice.seen /\ pattern_num' = twice.num
  /\ choice' = choice + 1
  /\ UNCHANGED <<params, k, over_limit, two_order, i, pc>>

(* Faulty variant: neither the loop variable nor the ones are counted up.  *)
EndRoundSameOnes ==
  /\ pc = "comb"
  /\ choice >= Choices
  /\ pc' = "round"
  /\ UNCHANGED <<params, k, over_limit, two_order, choice, i, ppp, pattern_num>>

(* The loop variable j and the number of ones k go up together: one        *)
(* counter stands for both, j being 0 when k is 0.                         *)
EndRound ==
  /\ pc = "comb"
  /\ choice >= Choices
  /\ k' = k + 1
  /\ pc' = "round"
  /\ UNCHANGED <<params, over_limit, two_order, choice, i, ppp, pattern_num>>

EndRounds ==
  /\ pc = "round"
  /\ k >= n \div 2
  /\ pc' = "extreme"
  /\ UNCHANGED <<params, k, over_limit, two_order, choice, i, ppp, pattern_num>>

Drawing == pc \in {"extreme", "random"} /\ i < pattern_up_limit

(* Faulty variant: seen patterns are accepted too.                         *)
DrawSeen ==
  /\ Drawing
  /\ \E z \in SUBSET real :
       /\ ppp' = ppp \union {z, flip(z)}
       /\ pattern_num' = pattern_num + 2
  /\ i' = i + 1
  /\ UNCHANGED <<params, k, over_limit, two_order, choice, pc>>

(* Draws of seen patterns are thrown away (i--) and change nothing; the    *)
(* first one not seen is pushed, its complement too, without another look. *)
Draw ==
  /\ Drawing
  /\ \E z \in (SUBSET real) \ ppp :
       /\ ppp' = ppp \union {z, flip(z)}
       /\ pattern_num' = pattern_num + 2
  /\ i' = i + 1
  /\ UNCHANGED <<params, k, over_limit, two_order, choice, pc>>

EndLoop ==
  /\ pc \in {"extreme", "random"}
  /\ i >= pattern_up_limit
  /\ i' = 0
  /\ pc' = IF pc = "extreme" THEN "random" ELSE "done"
  /\ UNCHANGED <<params, k, over_limit, two_order, choice, ppp, pattern_num>>

Next == StartRound \/ printRes \/ EndRound \/ EndRounds \/ Draw \/ EndLoop

(* One thread runs the function, and as long as there is a pattern not     *)
(* seen yet, rand() comes to one sooner or later.                          *)
Spec == Init /\ [][Next]_vars /\ WF_vars(Next)

-----------------------------------------------------------------------------
(* Properties.                                                             *)

(* Type correctness.                                                       *)
TypeOK ==
  /\ realPI \in Vectors
  /\ pattern_up_limit \in Limits
  /\ k \in 0 .. n \div 2
  /\ over_limit \in BOOLEAN
  /\ two_order \in BOOLEAN
  /\ choice \in Nat
  /\ i \in 0 .. pattern_up_limit
  /\ ppp \in SUBSET SUBSET InputIds
  /\ pattern_num \in Nat
  /\ pc \in {"round", "comb", "extreme", "random", "done"}

(* No pattern is simulated twice, although the random loops push the       *)
(* complement without looking it up.                                       *)
NoDuplicates == pattern_num = Cardinality(ppp)

(* The patterns are settings of the real inputs, all others 0, and the     *)
(* complements of these settings, none without the other: FixNetwork.tla   *)
(* may be given such a set and no other.                                   *)
IsTestSet == ppp \in TestSetsOf(InputIds, real)

(* Timing_function plans with 2 * pattern_up_limit patterns for each of    *)
(* the n / 2 rounds and the two random loops.  The plan is overrun by two  *)
(* patterns a round, four when the time has run out and the limit is 0.    *)
BudgetKept ==
  pattern_num <= 2 * pattern_up_limit * (n \div 2 + 2)
                   + (IF pattern_up_limit = 0 THEN 4 ELSE 2) * (n \div 2)

(* combinator counts the choices of a round one by one, in an int.  It     *)
(* counts at most n times the limit, since it is not called again after a  *)
(* round with more choices than the limit; Timing.tla shows that this fits *)
(* an int.                                                                 *)
CountBounded ==
  pc = "round" /\ k < n \div 2 /\ ~ over_limit =>
    Cardinality(KSubsets(n, k)) <= IF k = 0 THEN 1 ELSE pattern_up_limit * n

Settings == Cardinality(SUBSET real)

(* If that many settings exist, both random loops find enough patterns     *)
(* they have not seen, and the function returns; if not, it may go on      *)
(* drawing for ever.                                                       *)
EndsWithRoom ==
  (Settings >= 2 * (pattern_up_limit + 1) * (n \div 2 + 2)) ~> (pc = "done")
=============================================================================
