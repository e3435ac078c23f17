------------------------------- MODULE SatOpt -------------------------------
(***************************************************************************)
(* SATOptimization of src/satopt.cpp for one primary output: the rows that *)
(* iogen answered become a table, and every on-set row is expanded bit by  *)
(* bit into a cube that no off-set row contradicts.                        *)
(*                                                                         *)
(* Positions are 0 .. real_PI_num - 1: the code drops the dummy inputs     *)
(* while it reads.  The hash map is walked in no particular order, and     *)
(* std::sort leaves ties in no particular order: both are choices here.    *)
(***************************************************************************)
EXTENDS Integers, FiniteSets, FiniteSetsExt, Functions, Patterns

CONSTANTS
  RealPINum,  (* real_PI_num, the number of non-dummy inputs               *)
  Rows        (* the distinct input rows of beyond_to_satOpt.txt           *)

Ids == 0 .. RealPINum - 1

Str == PatternsOn(Ids)

ASSUME RealPINumAssumption == RealPINum \in Nat
ASSUME RowsAssumption == Rows \subseteq Str /\ IsFiniteSet(Rows)

VARIABLES
  patterns,         (* the map from input row to output bit                *)
  inputOrder,       (* pairs (input id, weight), permuted by every sort    *)
  todo,             (* on-set rows the loop over the map has not reached   *)
  input_pat,        (* the reordered row being expanded                    *)
  dc_string,        (* its expansion so far, in the same order             *)
  i,                (* the next position to try to drop                    *)
  result_patterns,  (* the cubes found, in the original input order        *)
  pc                (* "scan" the map, "expand" a row, or "done"           *)

vars == <<patterns, inputOrder, todo, input_pat, dc_string, i,
          result_patterns, pc>>

-----------------------------------------------------------------------------
(* Tallies and the two string permutations.                                *)

(* The code tallies the rows of the file, repeated ones again; here each   *)
(* row of the table counts once.  A file iogen answered lists them equally *)
(* often (SettingsEquallyOften of TruthTable), which scales all weights    *)
(* alike; and the proofs use of a weight only that it is an integer.       *)
Count(id, bit, out) ==
  Cardinality({p \in Rows : p[id] = bit /\ patterns[p] = out})

(* Rows that agree with their output bit at id, minus those that differ.   *)
Weight(id) ==
  (Count(id, "1", "1") + Count(id, "0", "0"))
    - (Count(id, "0", "1") + Count(id, "1", "0"))

(* The sign flip of Reorder, applied before the sort and undone after it.  *)
FlipSigns(order, pat) ==
  [k \in Ids |-> IF pat[order[k].first] = "1"
                 THEN [first |-> order[k].first, second |-> - order[k].second]
                 ELSE order[k]]

Permuted(order, perm) == [k \in Ids |-> order[perm[k]]]

(* The outcomes of std::sort with sort_func: descending, ties anyhow.      *)
Sorted(order) ==
  {s \in {Permuted(order, perm) : perm \in Bijection(Ids, Ids)} :
     \A j, k \in Ids : j < k => s[j].second >= s[k].second}

Reorder(order, pat) == [k \in Ids |-> pat[order[k].first]]

PositionOf(order, id) == CHOOSE k \in Ids : order[k].first = id

Order_back(order, str) == [id \in Ids |-> str[PositionOf(order, id)]]

-----------------------------------------------------------------------------
(* Faulty variant: the look-up loop's parity test the other way round.     *)
QueriesOtherHalf(str, record_bit) ==
  {q \in Str : Covers(str, q) /\ q[Max(DontCares(str))] = record_bit}

(* Faulty variant: no half is skipped.                                     *)
QueriesBothHalves(str, record_bit) == {q \in Str : Covers(str, q)}

(* The look-ups one trial makes: every filling of the don't-cares of str   *)
(* whose last don't-care bit differs from the bit just dropped.  The other *)
(* half, skipped "for speed up", was looked up by the trials before.       *)
Queries(str, record_bit) ==
  {q \in Str : Covers(str, q) /\ q[Max(DontCares(str))] # record_bit}

Fails(str, record_bit) ==
  \E q \in Queries(str, record_bit) :
    LET row == Order_back(inputOrder, q)
    IN  row \in Rows /\ patterns[row] = "0"

AlreadyCovered(p) == \E c \in result_patterns : Covers(c, p)

-----------------------------------------------------------------------------
Init ==
  /\ patterns \in [Rows -> Bit]
  /\ inputOrder = [k \in Ids |-> [first |-> k, second |-> Weight(k)]]
  /\ todo = {p \in Rows : patterns[p] = "1"}
  /\ input_pat = [k \in Ids |-> "0"]
  /\ dc_string = input_pat
  /\ i = 0
  /\ result_patterns = {}
  /\ pc = "scan"

(* Faulty variant: skip stays true once there is a cube to compare with.   *)
SkipRowOnAnyCube(p) ==
  /\ pc = "scan"
  /\ p \in todo
  /\ result_patterns # {}
  /\ todo' = todo \ {p}
  /\ UNCHANGED <<patterns, inputOrder, input_pat, dc_string, i,
                 result_patterns, pc>>

(* A row an earlier cube already covers is not handled again.              *)
SkipRow(p) ==
  /\ pc = "scan"
  /\ p \in todo
  /\ AlreadyCovered(p)
  /\ todo' = todo \ {p}
  /\ UNCHANGED <<patterns, inputOrder, input_pat, dc_string, i,
                 result_patterns, pc>>

(* Faulty variants of StartRow: the signs are not turned back; covered     *)
(* rows are expanded again.                                                *)
StartRowKeepingSigns(p) ==
  /\ pc = "scan"
  /\ p \in todo
  /\ ~ AlreadyCovered(p)
  /\ todo' = todo \ {p}
  /\ \E order \in Sorted(FlipSigns(inputOrder, p)) :
       inputOrder' = order /\ input_pat' = Reorder(order, p)
  /\ dc_string' = input_pat'
  /\ i' = 0
  /\ pc' = "expand"
  /\ UNCHANGED <<patterns, result_patterns>>

StartRowAlways(p) ==
  /\ pc = "scan"
  /\ p \in todo
  /\ todo' = todo \ {p}
  /\ \E order \in Sorted(FlipSigns(inputOrder, p)) :
       inputOrder' = FlipSigns(order, p) /\ input_pat' = Reorder(order, p)
  /\ dc_string' = input_pat'
  /\ i' = 0
  /\ pc' = "expand"
  /\ UNCHANGED <<patterns, result_patterns>>

(* Reorder sorts inputOrder by the row's signed weights, then turns the    *)
(* signs back; the row is rewritten in that order.                         *)
StartRow(p) ==
  /\ pc = "scan"
  /\ p \in todo
  /\ ~ AlreadyCovered(p)
  /\ todo' = todo \ {p}
  /\ \E order \in Sorted(FlipSigns(inputOrder, p)) :
       /\ inputOrder' = FlipSigns(order, p)
       /\ input_pat' = Reorder(order, p)
  /\ dc_string' = input_pat'
  /\ i' = 0
  /\ pc' = "expand"
  /\ UNCHANGED <<patterns, result_patterns>>

(* Faulty variant: a conflict goes back to the same bit.                   *)
ExpandBitWithoutAdvance ==
  /\ pc = "expand"
  /\ i < RealPINum
  /\ LET trial == [dc_string EXCEPT ![i] = "-"]
     IN  IF Fails(trial, dc_string[i])
         THEN UNCHANGED <<dc_string, i>>
         ELSE dc_string' = trial /\ i' = i + 1
  /\ UNCHANGED <<patterns, inputOrder, todo, input_pat, result_patterns, pc>>

(* One round of the expansion loop: drop bit i, put it back on a conflict. *)
ExpandBit ==
  /\ pc = "expand"
  /\ i < RealPINum
  /\ LET trial == [dc_string EXCEPT ![i] = "-"]
     IN  dc_string' = IF Fails(trial, dc_string[i])
                      THEN [trial EXCEPT ![i] = input_pat[i]]
                      ELSE trial
  /\ i' = i + 1
  /\ UNCHANGED <<patterns, inputOrder, todo, input_pat, result_patterns, pc>>

PushResult ==
  /\ pc = "expand"
  /\ i = RealPINum
  /\ result_patterns' = result_patterns \union {Order_back(inputOrder, dc_string)}
  /\ pc' = "scan"
  /\ UNCHANGED <<patterns, inputOrder, todo, input_pat, dc_string, i>>

(* The map is exhausted: beyond_to_abcOpt.txt is written.                  *)
WriteFile ==
  /\ pc = "scan"
  /\ todo = {}
  /\ pc' = "done"
  /\ UNCHANGED <<patterns, inputOrder, todo, input_pat, dc_string, i,
                 result_patterns>>

Next ==
  \/ \E p \in Rows : SkipRow(p) \/ StartRow(p)
  \/ ExpandBit
  \/ PushResult
  \/ WriteFile

(* One thread runs the function to its end.                                *)
Spec == Init /\ [][Next]_vars /\ WF_vars(Next)

-----------------------------------------------------------------------------
(* Properties.                                                             *)

Order == [Ids -> [first : Ids, second : Int]]

IsPermutation(order) ==
  /\ \A j, k \in Ids : order[j].first = order[k].first => j = k
  /\ \A id \in Ids : \E k \in Ids : order[k].first = id

(* Type correctness.  It includes that inputOrder always names every input *)
(* once, whatever the sorts did to it.                                     *)
TypeOK ==
  /\ patterns \in [Rows -> Bit]
  /\ inputOrder \in Order
  /\ IsPermutation(inputOrder)
  /\ todo \subseteq {p \in Rows : patterns[p] = "1"}
  /\ input_pat \in Str
  /\ dc_string \in CubesOn(Ids)
  /\ i \in 0 .. RealPINum
  /\ result_patterns \subseteq CubesOn(Ids)
  /\ pc \in {"scan", "expand", "done"}

OffSet == {p \in Rows : patterns[p] = "0"}

OnSet == {p \in Rows : patterns[p] = "1"}

(* No cube of the result contradicts the simulation: although half of the  *)
(* look-ups are skipped, no off-set row is ever covered.                   *)
NoOffsetCovered ==
  \A c \in result_patterns : \A p \in OffSet : ~ Covers(c, p)

(* No cube is larger than it need be: putting a don't-care at any of its   *)
(* literals would cover an off-set row.  One pass over the bits is enough. *)
ResultsArePrime ==
  \A c \in result_patterns : \A k \in Literals(c) :
    \E p \in OffSet : Covers([c EXCEPT ![k] = "-"], p)

(* When the file is written every on-set row is covered, although rows are *)
(* skipped as soon as some earlier cube matches them.                      *)
OnsetCoveredWhenDone ==
  pc = "done" => \A p \in OnSet : AlreadyCovered(p)

(* What the loop over the bits keeps true of the row it is expanding: the  *)
(* bits not tried yet are the row's own; nothing dropped so far lets an    *)
(* off-set row in; a bit that was put back had to be; and the row itself   *)
(* still is an on-set row no earlier cube covers.                          *)
Matches(cube, p) == Covers(cube, Reorder(inputOrder, p))

ExpandInv ==
  pc = "expand" =>
    /\ \A k \in Ids : k >= i => dc_string[k] = input_pat[k]
    /\ \A p \in OffSet : ~ Matches(dc_string, p)
    /\ \A k \in Ids : k < i /\ dc_string[k] # "-" =>
         \E p \in OffSet : Matches([dc_string EXCEPT ![k] = "-"], p)
    /\ \E p \in OnSet : ~ AlreadyCovered(p) /\ Matches(dc_string, p)

(* No on-set row is lost: the walk has yet to reach it, a cube covers it,  *)
(* or it is in the cube under construction.                                *)
OnsetAccounted ==
  \A p \in OnSet :
    p \in todo \/ AlreadyCovered(p) \/ (pc = "expand" /\ Matches(dc_string, p))

DoneInv == pc = "done" => todo = {}

(* The inductive invariant behind the three safety properties.             *)
IInv ==
  /\ TypeOK
  /\ ExpandInv
  /\ OnsetAccounted
  /\ DoneInv
  /\ NoOffsetCovered
  /\ ResultsArePrime

(* "Turn back the count": sorting for one row never changes the weight an  *)
(* input has for the next row.                                             *)
WeightOf(order, id) == order[PositionOf(order, id)].second

WeightsKept ==
  [][\A id \in Ids : WeightOf(inputOrder', id) = WeightOf(inputOrder, id)]_vars

(* The settings that may still be looked up for the row being expanded:    *)
(* those with the bits put back so far that the cube does not match yet.   *)
YetToLookUp ==
  {q \in Str : /\ ~ Covers(dc_string, q)
               /\ \A k \in Ids : k < i /\ dc_string[k] # "-" => q[k] = dc_string[k]}

LookedUp == Queries([dc_string EXCEPT ![i] = "-"], dc_string[i])

(* "For speed up": no setting of the inputs is looked up twice for a row,  *)
(* although the trials overlap and their number doubles with every bit     *)
(* dropped.  What a trial looks up was not looked up before, and will not  *)
(* be again, whether the bit is dropped or put back.                       *)
LooksUpOnce ==
  [][ExpandBit => /\ LookedUp \subseteq YetToLookUp
                  /\ YetToLookUp' \subseteq YetToLookUp \ LookedUp]_vars

(* The expansion loop and the walk over the map end.                       *)
Terminates == <>(pc = "done")

(* The detailed algorithm implements the abstract cover.                   *)
Cover == INSTANCE SopCover WITH table <- patterns,
                                cubes <- result_patterns,
                                done  <- (pc = "done")

ImplementsCover == Cover!Spec
=============================================================================
