-------------------------------- MODULE Comb --------------------------------
(***************************************************************************)
(* Comb of src/fixnetwork.cpp: enumerate the ways to choose k of n inputs  *)
(* by moving ones to the right, until all are at the right end or the      *)
(* budget of patterns, two for each choice, is used up.  CreatePattern is  *)
(* the caller; its variables of the same names are other ones.             *)
(***************************************************************************)
EXTENDS Subsets, Sequences

CONSTANTS
  MaxN,     (* bound: the largest n tried                                  *)
  MaxLimit  (* bound: the largest pattern_up_limit tried                   *)

ASSUME BoundsAssumption == MaxN \in Nat /\ MaxLimit \in Nat

VARIABLES
  comb_n, comb_k,  (* the parameters n and k                               *)
  comb_limit,      (* the parameter pattern_up_limit, the budget           *)
  index,           (* the positions at which the array index is true       *)
  pattern_size,    (* the budget used up                                   *)
  printed,         (* the choices handed to printRes, in order             *)
  comb_pc          (* "start", "loop", "broken" or "done"                  *)

combVars == <<comb_n, comb_k, comb_limit, index, pattern_size, printed, comb_pc>>

combParams == <<comb_n, comb_k, comb_limit>>

(* CreatePattern calls Comb with k below n / 2 only.                       *)
CombInit ==
  /\ comb_n \in 2 .. MaxN
  /\ comb_k \in 0 .. comb_n \div 2 - 1
  /\ comb_limit \in 0 .. MaxLimit
  /\ index = {}
  /\ pattern_size = 0
  /\ printed = <<>>
  /\ comb_pc = "start"

(* The first choice is printed whatever the budget.                        *)
First ==
  /\ comb_pc = "start"
  /\ index' = 0 .. comb_k - 1
  /\ printed' = <<index'>>
  /\ pattern_size' = 2
  /\ comb_pc' = "loop"
  /\ UNCHANGED combParams

hasDone == \A j \in comb_n - comb_k .. comb_n - 1 : j \in index

(* The first one with a zero to its right moves there, and the ones before *)
(* it are pushed back to the left end.                                     *)
Movable == {j \in 0 .. comb_n - 2 : j \in index /\ j + 1 \notin index}

Swap(j) == j = CHOOSE m \in Movable : \A o \in Movable : m <= o

(* Faulty variant: the ones before stay where they are.                    *)
MovedOnly(j) == (index \ {j}) \union {j + 1}

Moved(j) ==
  LET before == {m \in index : m < j}
  IN  (0 .. Cardinality(before) - 1) \union {j + 1} \union {m \in index : m > j}

(* Faulty variant: the budget is compared the other way at the limit.      *)
StepOneMore ==
  /\ comb_pc = "loop"
  /\ ~ hasDone
  /\ pattern_size <= comb_limit
  /\ \E j \in Movable : Swap(j) /\ index' = Moved(j)
  /\ printed' = Append(printed, index')
  /\ pattern_size' = pattern_size + 2
  /\ UNCHANGED <<combParams, comb_pc>>

Step ==
  /\ comb_pc = "loop"
  /\ ~ hasDone
  /\ pattern_size < comb_limit
  /\ \E j \in Movable : Swap(j) /\ index' = Moved(j)
  /\ printed' = Append(printed, index')
  /\ pattern_size' = pattern_size + 2
  /\ UNCHANGED <<combParams, comb_pc>>

(* Past the budget the choice is still advanced, but not printed.          *)
Break ==
  /\ comb_pc = "loop"
  /\ ~ hasDone
  /\ pattern_size >= comb_limit
  /\ \E j \in Movable : Swap(j) /\ index' = Moved(j)
  /\ comb_pc' = "broken"
  /\ UNCHANGED <<combParams, pattern_size, printed>>

(* Faulty variant: the end of the enumeration is not noticed.              *)
FinishNever ==
  /\ comb_pc = "loop"
  /\ hasDone
  /\ UNCHANGED combVars

Finish ==
  /\ comb_pc = "loop"
  /\ hasDone
  /\ comb_pc' = "done"
  /\ UNCHANGED <<combParams, index, pattern_size, printed>>

CombNext == First \/ Step \/ Break \/ Finish

(* One thread runs the loop to its end.                                    *)
CombSpec == CombInit /\ [][CombNext]_combVars /\ WF_combVars(CombNext)

-----------------------------------------------------------------------------
(* Properties.                                                             *)

(* The loop goes through the choices in colexicographic order and leaves   *)
(* none out: nothing lies between one and the next.                        *)
NextChoice ==
  [][comb_pc = "loop" /\ index' # index =>
       /\ ColexLess(index, index')
       /\ \A S \in KSubsets(comb_n, comb_k) :
            ~ (ColexLess(index, S) /\ ColexLess(S, index'))]_combVars

(* When the loop ends, the choices printed, each once, are the first ones  *)
(* the budget pays for, and all of them if the budget suffices.  This is   *)
(* what CreatePattern is modelled with.                                    *)
PrintsFirstChoices ==
  comb_pc \in {"broken", "done"} =>
    LET first == Printed(comb_n, comb_k, comb_limit)
    IN  {printed[j] : j \in DOMAIN printed} = first /\ Len(printed) = Cardinality(first)

(* The inductive invariant: what is printed is numbered from 0 without     *)
(* gaps, and the last number is that of the choice the array holds.        *)
CombInv ==
  /\ {comb_n, comb_k, comb_limit} \subseteq Nat /\ comb_k <= comb_n
  /\ comb_pc \in {"start", "loop", "broken", "done"}
  /\ comb_pc # "start" =>
       /\ index \in KSubsets(comb_n, comb_k)
       /\ printed \in Seq(KSubsets(comb_n, comb_k)) /\ printed # <<>>
       /\ \A j \in DOMAIN printed : Rank(printed[j], comb_n, comb_k) = j - 1
       /\ pattern_size = 2 * Len(printed)
       /\ Len(printed) <= Quota(comb_limit)
  /\ comb_pc \in {"loop", "done"} => index = printed[Len(printed)]
  /\ comb_pc = "broken" => Len(printed) = Quota(comb_limit)
  /\ comb_pc = "done" => hasDone

(* The loop, which finds its next move or never ends, ends.                *)
Terminates == <>(comb_pc \in {"broken", "done"})
=============================================================================
