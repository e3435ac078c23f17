---------------------------- MODULE SatOptProofs ----------------------------
(***************************************************************************)
(* Proofs about SatOpt, for every number of inputs and every set of rows.  *)
(*                                                                         *)
(* The argument has two layers.  The first is about the permutation the    *)
(* sorts apply: inputOrder always names every input exactly once, so       *)
(* Reorder and Order_back undo each other, and a cube matches a row in the *)
(* sorted order exactly when it does in the original one.  The second is   *)
(* the expansion: the half of the look-ups that is skipped concerns rows   *)
(* that the cube already excluded before the last bit was dropped.         *)
(***************************************************************************)
EXTENDS SatOpt, FiniteSetTheorems, TLAPS

(* Weights are integers: the tallies count rows of a finite file.          *)
LEMMA WeightType == \A id \in Ids : patterns \in [Rows -> Bit] => Weight(id) \in Int
<1> SUFFICES ASSUME NEW id \in Ids PROVE Weight(id) \in Int
  OBVIOUS
<1>1. ASSUME NEW b, NEW o PROVE Count(id, b, o) \in Nat
  <2>1. {p \in Rows : p[id] = b /\ patterns[p] = o} \subseteq Rows
    OBVIOUS
  <2>2. IsFiniteSet({p \in Rows : p[id] = b /\ patterns[p] = o})
    BY <2>1, RowsAssumption, FS_Subset
  <2> QED BY <2>2, FS_CardinalityType DEF Count
<1> QED BY <1>1 DEF Weight

(* A sign flip keeps the inputs in place.                                  *)
LEMMA FlipSignsFacts ==
  ASSUME NEW order \in Order, NEW pat \in Str
  PROVE  /\ FlipSigns(order, pat) \in Order
         /\ \A k \in Ids : FlipSigns(order, pat)[k].first = order[k].first
BY DEF FlipSigns, Order

(* A sort permutes the pairs.                                              *)
LEMMA SortedFacts ==
  ASSUME NEW order \in Order, IsPermutation(order), NEW s \in Sorted(order)
  PROVE  s \in Order /\ IsPermutation(s)
<1>1. PICK perm \in Bijection(Ids, Ids) : s = Permuted(order, perm)
  BY DEF Sorted
<1>2. /\ perm \in [Ids -> Ids]
      /\ \A a, b \in Ids : perm[a] = perm[b] => a = b
      /\ \A b \in Ids : \E a \in Ids : perm[a] = b
  BY <1>1 DEF Bijection, Injection, Surjection, IsInjective
<1>3. s = [k \in Ids |-> order[perm[k]]]
  BY <1>1 DEF Permuted
<1>4. s \in Order
  BY <1>2, <1>3 DEF Order
<1>5. ASSUME NEW id \in Ids PROVE \E k \in Ids : s[k].first = id
  <2>1. PICK b \in Ids : order[b].first = id
    BY DEF IsPermutation
  <2>2. PICK a \in Ids : perm[a] = b
    BY <1>2
  <2> QED BY <2>1, <2>2, <1>3
<1>6. ASSUME NEW j \in Ids, NEW k \in Ids, s[j].first = s[k].first PROVE j = k
  BY <1>2, <1>3, <1>6 DEF IsPermutation
<1> QED BY <1>4, <1>5, <1>6 DEF IsPermutation

(* Renaming the weights, but not the inputs, keeps a permutation one.      *)
LEMMA SameFirsts ==
  ASSUME NEW order, NEW other, IsPermutation(order),
         \A k \in Ids : other[k].first = order[k].first
  PROVE  IsPermutation(other)
BY DEF IsPermutation

(* The order Reorder leaves behind.                                        *)
LEMMA ReorderKeepsOrder ==
  ASSUME NEW order \in Order, IsPermutation(order), NEW pat \in Str,
         NEW s \in Sorted(FlipSigns(order, pat))
  PROVE  /\ s \in Order
         /\ FlipSigns(s, pat) \in Order
         /\ IsPermutation(FlipSigns(s, pat))
         /\ \A k \in Ids : FlipSigns(s, pat)[k].first = s[k].first
<1>1. FlipSigns(order, pat) \in Order /\ IsPermutation(FlipSigns(order, pat))
  BY FlipSignsFacts, SameFirsts
<1>2. s \in Order /\ IsPermutation(s)
  BY <1>1, SortedFacts
<1>3. /\ FlipSigns(s, pat) \in Order
      /\ \A k \in Ids : FlipSigns(s, pat)[k].first = s[k].first
  BY <1>2, FlipSignsFacts
<1> QED BY <1>2, <1>3, SameFirsts

(* PositionOf inverts an order.                                            *)
LEMMA PositionOfFacts ==
  ASSUME NEW order, IsPermutation(order), NEW id \in Ids
  PROVE  PositionOf(order, id) \in Ids /\ order[PositionOf(order, id)].first = id
<1>1. \E k \in Ids : order[k].first = id
  BY DEF IsPermutation
<1> QED BY <1>1 DEF PositionOf

(* Reorder and Order_back undo each other.                                 *)
LEMMA OrderBackCube ==
  ASSUME NEW order \in Order, IsPermutation(order), NEW str \in CubesOn(Ids)
  PROVE  Order_back(order, str) \in CubesOn(Ids)
BY PositionOfFacts DEF Order_back, CubesOn

LEMMA OrderBackInvertsReorder ==
  ASSUME NEW order \in Order, IsPermutation(order), NEW pat \in Str
  PROVE  /\ Reorder(order, pat) \in Str
         /\ Order_back(order, Reorder(order, pat)) = pat
<1>1. Reorder(order, pat) \in Str
  BY DEF Reorder, Order, Str, PatternsOn
<1>2. \A id \in Ids : Order_back(order, Reorder(order, pat))[id] = pat[id]
  BY PositionOfFacts DEF Order_back, Reorder
<1>3. DOMAIN Order_back(order, Reorder(order, pat)) = Ids
      /\ DOMAIN pat = Ids
  BY DEF Order_back, Str, PatternsOn
<1>4. Order_back(order, Reorder(order, pat))
        = [id \in Ids |-> Order_back(order, Reorder(order, pat))[id]]
  BY DEF Order_back
<1>5. pat = [id \in Ids |-> pat[id]]
  BY DEF Str, PatternsOn
<1> QED BY <1>1, <1>2, <1>4, <1>5

(* A cube matches a row in one order exactly when it does in the other.    *)
LEMMA CoversOrderBack ==
  ASSUME NEW order \in Order, IsPermutation(order),
         NEW str \in CubesOn(Ids), NEW pat \in Str
  PROVE  Covers(Order_back(order, str), pat) <=> Covers(str, Reorder(order, pat))
<1>1. DOMAIN Order_back(order, str) = Ids /\ DOMAIN str = Ids
  BY DEF Order_back, CubesOn
<1>2. ASSUME Covers(Order_back(order, str), pat), NEW k \in Ids
      PROVE  str[k] = "-" \/ str[k] = Reorder(order, pat)[k]
  <2>1. order[k].first \in Ids
    BY DEF Order
  <2>2. PositionOf(order, order[k].first) = k
    BY <2>1, PositionOfFacts DEF IsPermutation
  <2>3. Order_back(order, str)[order[k].first] = str[k]
    BY <2>1, <2>2 DEF Order_back
  <2> QED BY <1>1, <1>2, <2>1, <2>3 DEF Covers, Reorder
<1>3. ASSUME Covers(str, Reorder(order, pat)), NEW id \in Ids
      PROVE  Order_back(order, str)[id] = "-" \/ Order_back(order, str)[id] = pat[id]
  <2>1. PositionOf(order, id) \in Ids /\ order[PositionOf(order, id)].first = id
    BY PositionOfFacts
  <2> QED BY <1>1, <1>3, <2>1 DEF Covers, Reorder, Order_back
<1> QED BY <1>1, <1>2, <1>3 DEF Covers

-----------------------------------------------------------------------------
(* The last don't-care of a cube whose bits from b on are untouched, once  *)
(* b itself is dropped, is b: that is what the parity test of the look-up  *)
(* loop relies on.                                                         *)
LEMMA LastDontCare ==
  ASSUME NEW b \in Ids, NEW cube \in CubesOn(Ids),
         \A k \in Ids : k >= b => cube[k] # "-"
  PROVE  Max(DontCares([cube EXCEPT ![b] = "-"])) = b
<1> DEFINE D == DontCares([cube EXCEPT ![b] = "-"])
<1>1. D \subseteq Ids /\ b \in D /\ \A k \in D : k <= b
  BY DEF DontCares, CubesOn, Ids
<1> HIDE DEF D
<1>2. Ids \subseteq Int
  BY RealPINumAssumption DEF Ids
<1>3. \E x \in D : \A y \in D : x >= y
  BY <1>1, <1>2
<1>4. Max(D) \in D /\ \A y \in D : Max(D) >= y
  BY <1>3 DEF Max
<1>5. \A m \in D : (\A y \in D : m >= y) => m = b
  <2> SUFFICES ASSUME NEW m \in D, m >= b PROVE m = b
    BY <1>1
  <2>1. m \in Int /\ b \in Int /\ m <= b
    BY <1>1, <1>2
  <2> QED BY <2>1
<1>6. Max(D) = b
  BY <1>4, <1>5
<1> QED BY <1>6 DEF D

(* A longer cube matches what the shorter one matched.                     *)
LEMMA DropWidens ==
  ASSUME NEW b, NEW cube, NEW pat, Covers(cube, pat)
  PROVE  Covers([cube EXCEPT ![b] = "-"], pat)
BY DEF Covers

(* A trial that finds no conflict keeps every off-set row out, although it *)
(* looks only at rows whose bit i is not the one dropped: the others would *)
(* have matched before.                                                    *)
LEMMA TrialSound ==
  ASSUME TypeOK, ExpandInv, pc = "expand", i < RealPINum,
         NEW trial, trial = [dc_string EXCEPT ![i] = "-"],
         ~ Fails(trial, dc_string[i]),
         NEW p \in OffSet
  PROVE  ~ Covers(trial, Reorder(inputOrder, p))
<1> DEFINE s == Reorder(inputOrder, p)
<1>1. i \in Ids /\ p \in Rows /\ p \in Str /\ patterns[p] = "0"
  BY RowsAssumption, RealPINumAssumption DEF TypeOK, Ids, OffSet
<1>2. /\ inputOrder \in Order /\ IsPermutation(inputOrder)
      /\ dc_string \in CubesOn(Ids) /\ input_pat \in Str
  BY DEF TypeOK
<1>3. s \in Str /\ Order_back(inputOrder, s) = p
  BY <1>1, <1>2, OrderBackInvertsReorder
<1>4. Max(DontCares(trial)) = i
  <2>1. \A k \in Ids : k >= i => dc_string[k] # "-"
    BY <1>2 DEF ExpandInv, Str, PatternsOn, Bit
  <2> QED BY <2>1, <1>1, <1>2, LastDontCare
<1>5. SUFFICES ASSUME Covers(trial, s) PROVE FALSE
  OBVIOUS
<1>6. CASE s[i] # dc_string[i]
  <2>1. s \in Queries(trial, dc_string[i])
    BY <1>3, <1>4, <1>5, <1>6 DEF Queries
  <2> QED BY <2>1, <1>1, <1>3 DEF Fails
<1>7. CASE s[i] = dc_string[i]
  <2>1. Covers(dc_string, s)
    BY <1>1, <1>2, <1>5, <1>7 DEF Covers, CubesOn
  <2> QED BY <2>1, <1>1 DEF ExpandInv, Matches
<1> QED BY <1>6, <1>7

(* A trial that fails has found an off-set row the longer cube would let   *)
(* in: the bit put back is needed.                                         *)
LEMMA FailureWitness ==
  ASSUME TypeOK, NEW trial, NEW bit, Fails(trial, bit)
  PROVE  \E p \in OffSet : Covers(trial, Reorder(inputOrder, p))
<1>1. PICK q \in Queries(trial, bit) :
        /\ Order_back(inputOrder, q) \in Rows
        /\ patterns[Order_back(inputOrder, q)] = "0"
  BY DEF Fails
<1>2. q \in Str /\ Covers(trial, q)
  BY <1>1 DEF Queries
<1>3. Reorder(inputOrder, Order_back(inputOrder, q)) = q
  <2>1. inputOrder \in Order /\ IsPermutation(inputOrder)
    BY DEF TypeOK
  <2>2. ASSUME NEW k \in Ids PROVE Reorder(inputOrder, Order_back(inputOrder, q))[k] = q[k]
    <3>1. inputOrder[k].first \in Ids
      BY <2>1 DEF Order
    <3>2. PositionOf(inputOrder, inputOrder[k].first) = k
      BY <2>1, <3>1, PositionOfFacts DEF IsPermutation
    <3> QED BY <3>1, <3>2 DEF Reorder, Order_back
  <2>3. Reorder(inputOrder, Order_back(inputOrder, q))
          = [k \in Ids |-> Reorder(inputOrder, Order_back(inputOrder, q))[k]]
    BY DEF Reorder
  <2>4. q = [k \in Ids |-> q[k]]
    BY <1>2 DEF Str, PatternsOn
  <2> QED BY <2>2, <2>3, <2>4
<1>4. Order_back(inputOrder, q) \in OffSet
  BY <1>1 DEF OffSet
<1> QED BY <1>2, <1>3, <1>4

-----------------------------------------------------------------------------
(* The state a run starts in satisfies the inductive invariant.            *)
LEMMA InitIInv == Init => IInv
<1> SUFFICES ASSUME Init PROVE IInv
  OBVIOUS
<1>1. TypeOK
  <2>1. \A k \in Ids : Weight(k) \in Int
    BY WeightType DEF Init
  <2>2. inputOrder \in Order /\ IsPermutation(inputOrder)
    BY <2>1 DEF Init, Order, IsPermutation
  <2>3. input_pat \in Str /\ dc_string \in CubesOn(Ids)
    BY DEF Init, Str, PatternsOn, CubesOn, Bit
  <2> QED BY <2>2, <2>3, RealPINumAssumption DEF Init, TypeOK
<1>2. ExpandInv /\ DoneInv /\ NoOffsetCovered /\ ResultsArePrime
  BY DEF Init, ExpandInv, DoneInv, NoOffsetCovered, ResultsArePrime
<1>3. OnsetAccounted
  BY DEF Init, OnsetAccounted, OnSet
<1> QED BY <1>1, <1>2, <1>3 DEF IInv

(* A row is covered or not whatever happens to the sort and the loop, as   *)
(* long as the table and the results stay.                                 *)
LEMMA StartRowIInv == ASSUME IInv, NEW p \in Rows, StartRow(p) PROVE IInv'
<1> USE RealPINumAssumption, RowsAssumption DEF IInv
<1>1. PICK order \in Sorted(FlipSigns(inputOrder, p)) :
        /\ inputOrder' = FlipSigns(order, p)
        /\ input_pat' = Reorder(order, p)
  BY DEF StartRow
<1>2. p \in Str /\ p \in OnSet /\ patterns \in [Rows -> Bit]
  BY DEF StartRow, TypeOK, OnSet
<1>3. inputOrder \in Order /\ IsPermutation(inputOrder)
  BY DEF TypeOK
<1>4. /\ order \in Order
      /\ inputOrder' \in Order
      /\ IsPermutation(inputOrder')
      /\ \A k \in Ids : inputOrder'[k].first = order[k].first
  BY <1>1, <1>2, <1>3, ReorderKeepsOrder
<1>5. input_pat' = Reorder(inputOrder', p)
  BY <1>1, <1>4 DEF Reorder
<1>6. input_pat' \in Str /\ Order_back(inputOrder', input_pat') = p
  BY <1>2, <1>4, <1>5, OrderBackInvertsReorder
<1>7. dc_string' = input_pat' /\ dc_string' \in CubesOn(Ids)
  BY <1>6 DEF StartRow, Str, PatternsOn, CubesOn, Bit
<1>8. TypeOK'
  BY <1>4, <1>6, <1>7 DEF StartRow, TypeOK, Permuted, IsPermutation, Order
<1>9. ASSUME NEW q \in Str
      PROVE  Matches(dc_string, q)' <=> q = p
  <2>1. Covers(dc_string', Reorder(inputOrder', q)) <=> Covers(p, q)
    BY <1>4, <1>6, <1>7, CoversOrderBack
  <2>2. Covers(p, q) <=> p = q
    <3>1. \A k \in Ids : p[k] # "-"
      BY <1>2 DEF Str, PatternsOn, Bit
    <3>2. (\A k \in Ids : p[k] = q[k]) <=> p = q
      BY <1>2, <1>9 DEF Str, PatternsOn
    <3> QED BY <1>2, <3>1, <3>2 DEF Covers, Str, PatternsOn
  <2> QED BY <2>1, <2>2 DEF Matches
<1>10. OffSet' = OffSet /\ OnSet' = OnSet
  BY DEF StartRow, OffSet, OnSet
<1>11. ExpandInv'
  <2>1. \A q \in OffSet : q # p /\ q \in Str
    BY <1>2 DEF OffSet, OnSet
  <2>2. \A q \in OffSet' : ~ Matches(dc_string, q)'
    BY <1>9, <1>10, <2>1
  <2>3. i' = 0 /\ \A k \in Ids : ~ (k < i')
    BY DEF StartRow, Ids
  <2>4. ~ AlreadyCovered(p)' /\ Matches(dc_string, p)'
    BY <1>2, <1>9 DEF StartRow, AlreadyCovered
  <2> QED BY <2>2, <2>3, <2>4, <1>2, <1>7, <1>10 DEF ExpandInv
<1>12. OnsetAccounted'
  <2> SUFFICES ASSUME NEW q \in OnSet
               PROVE  \/ q \in todo'
                      \/ AlreadyCovered(q)'
                      \/ pc' = "expand" /\ Matches(dc_string, q)'
    BY <1>10 DEF OnsetAccounted
  <2>1. CASE q = p
    BY <2>1, <1>2, <1>9 DEF StartRow
  <2>2. CASE q # p
    BY <2>2 DEF StartRow, OnsetAccounted, AlreadyCovered
  <2> QED BY <2>1, <2>2
<1>13. DoneInv' /\ NoOffsetCovered' /\ ResultsArePrime'
  BY <1>10 DEF StartRow, DoneInv, NoOffsetCovered, ResultsArePrime
<1> QED BY <1>8, <1>11, <1>12, <1>13

LEMMA ExpandBitIInv == ASSUME IInv, ExpandBit PROVE IInv'
<1> USE DEF IInv
<1> DEFINE trial == [dc_string EXCEPT ![i] = "-"]
<1>1. /\ i \in Ids /\ i' = i + 1 /\ i < RealPINum /\ i \in Int
      /\ dc_string \in CubesOn(Ids) /\ input_pat \in Str
      /\ trial \in CubesOn(Ids) /\ dc_string[i] = input_pat[i]
  BY RealPINumAssumption DEF ExpandBit, TypeOK, Ids, CubesOn, ExpandInv
<1>2. Fails(trial, dc_string[i]) => dc_string' = dc_string
  BY <1>1 DEF ExpandBit, CubesOn
<1>3. ~ Fails(trial, dc_string[i]) => dc_string' = trial
  BY DEF ExpandBit
<1>4. dc_string' \in CubesOn(Ids)
  BY <1>1, <1>2, <1>3
<1>5. TypeOK'
  BY <1>1, <1>4, RealPINumAssumption DEF ExpandBit, TypeOK, IsPermutation
<1>6. UNCHANGED <<patterns, inputOrder, todo, input_pat, result_patterns, pc>>
      /\ pc = "expand" /\ OffSet' = OffSet /\ OnSet' = OnSet
  BY DEF ExpandBit, OffSet, OnSet
<1>7. \A k \in Ids : k >= i' => dc_string'[k] = input_pat'[k]
  <2> SUFFICES ASSUME NEW k \in Ids, k >= i + 1 PROVE dc_string'[k] = input_pat[k]
    BY <1>1, <1>6
  <2>1. k >= i /\ k # i
    BY <1>1, RealPINumAssumption DEF Ids
  <2>2. dc_string'[k] = dc_string[k]
    BY <2>1, <1>1, <1>2, <1>3 DEF CubesOn
  <2> QED BY <2>1, <2>2, <1>6 DEF ExpandInv
<1>8. \A p \in OffSet' : ~ Matches(dc_string, p)'
  <2>1. CASE Fails(trial, dc_string[i])
    BY <2>1, <1>2, <1>6 DEF ExpandInv, Matches, Reorder
  <2>2. CASE ~ Fails(trial, dc_string[i])
    BY <2>2, <1>1, <1>3, <1>6, TrialSound DEF Matches, Reorder
  <2> QED BY <2>1, <2>2
<1>9. \A k \in Ids : k < i' /\ dc_string'[k] # "-" =>
         \E p \in OffSet' : Matches([dc_string EXCEPT ![k] = "-"], p)'
  <2> SUFFICES ASSUME NEW k \in Ids, k < i + 1, dc_string'[k] # "-"
               PROVE  \E p \in OffSet : Covers([dc_string' EXCEPT ![k] = "-"], Reorder(inputOrder, p))
    BY <1>1, <1>6 DEF Matches, Reorder
  <2>1. CASE k = i
    <3>1. Fails(trial, dc_string[i]) /\ dc_string' = dc_string
      BY <2>1, <1>1, <1>2, <1>3 DEF CubesOn
    <3> QED BY <3>1, <2>1, FailureWitness
  <2>2. CASE k # i
    <3>1. k < i /\ dc_string[k] # "-"
      BY <2>2, <1>1, <1>2, <1>3, RealPINumAssumption DEF Ids, CubesOn
    <3>2. PICK p \in OffSet : Covers([dc_string EXCEPT ![k] = "-"], Reorder(inputOrder, p))
      BY <3>1, <1>6 DEF ExpandInv, Matches
    <3>3. CASE dc_string' = dc_string
      BY <3>2, <3>3
    <3>4. CASE dc_string' = trial
      <4>1. [dc_string' EXCEPT ![k] = "-"]
              = [[dc_string EXCEPT ![k] = "-"] EXCEPT ![i] = "-"]
        BY <3>4, <2>2, <1>1 DEF CubesOn
      <4> QED BY <4>1, <3>2, DropWidens
    <3> QED BY <3>3, <3>4, <1>2, <1>3
  <2> QED BY <2>1, <2>2
<1>10. ExpandInv'
  <2>1. PICK p \in OnSet : ~ AlreadyCovered(p) /\ Matches(dc_string, p)
    BY <1>6 DEF ExpandInv
  <2>2. ~ AlreadyCovered(p)' /\ Covers(dc_string', Reorder(inputOrder, p))
    BY <2>1, <1>2, <1>3, <1>6, DropWidens DEF AlreadyCovered, Matches
  <2>3. Matches(dc_string, p)'
    BY <2>2, <1>6 DEF Matches, Reorder
  <2> QED BY <2>2, <2>3, <1>6, <1>7, <1>8, <1>9 DEF ExpandInv
<1>11. OnsetAccounted'
  <2> SUFFICES ASSUME NEW p \in OnSet, p \notin todo, ~ AlreadyCovered(p)
               PROVE  Covers(dc_string', Reorder(inputOrder, p))
    BY <1>6 DEF OnsetAccounted, AlreadyCovered, Matches, Reorder
  <2>1. Covers(dc_string, Reorder(inputOrder, p))
    BY DEF OnsetAccounted, Matches
  <2> QED BY <2>1, <1>2, <1>3, DropWidens
<1>12. DoneInv' /\ NoOffsetCovered' /\ ResultsArePrime'
  BY <1>6 DEF DoneInv, NoOffsetCovered, ResultsArePrime
<1> QED BY <1>5, <1>10, <1>11, <1>12

(* A finished cube joins the results: what ExpandInv says of it in the     *)
(* sorted order is what the results need in the original one.              *)
LEMMA PushResultIInv == ASSUME IInv, PushResult PROVE IInv'
<1> USE DEF IInv
<1> DEFINE cube == Order_back(inputOrder, dc_string)
<1>1. /\ inputOrder \in Order /\ IsPermutation(inputOrder)
      /\ dc_string \in CubesOn(Ids) /\ cube \in CubesOn(Ids)
  BY OrderBackCube DEF TypeOK
<1>2. /\ UNCHANGED <<patterns, inputOrder, todo, input_pat, dc_string, i>>
      /\ result_patterns' = result_patterns \union {cube}
      /\ pc = "expand" /\ pc' = "scan" /\ OffSet' = OffSet /\ OnSet' = OnSet
      /\ \A k \in Ids : k < i
  BY RealPINumAssumption DEF PushResult, OffSet, OnSet, Ids
<1>3. OffSet \subseteq Str /\ OnSet \subseteq Str
  BY RowsAssumption DEF OffSet, OnSet
<1>4. \A p \in Str : Covers(cube, p) <=> Matches(dc_string, p)
  BY <1>1, CoversOrderBack DEF Matches
<1>5. \A p \in OffSet : ~ Covers(cube, p)
  BY <1>2, <1>3, <1>4 DEF ExpandInv
<1>6. ASSUME NEW id \in Literals(cube)
      PROVE  \E p \in OffSet : Covers([cube EXCEPT ![id] = "-"], p)
  <2>1. id \in Ids /\ cube[id] # "-"
    BY <1>6, <1>1 DEF Literals, DontCares, CubesOn
  <2>2. PICK k \in Ids : k = PositionOf(inputOrder, id) /\ inputOrder[k].first = id
    BY <1>1, <2>1, PositionOfFacts
  <2>3. dc_string[k] # "-"
    BY <2>1, <2>2 DEF Order_back
  <2>4. PICK p \in OffSet : Matches([dc_string EXCEPT ![k] = "-"], p)
    BY <1>2, <2>3 DEF ExpandInv
  <2>5. [dc_string EXCEPT ![k] = "-"] \in CubesOn(Ids)
    BY <1>1 DEF CubesOn
  <2>6. Order_back(inputOrder, [dc_string EXCEPT ![k] = "-"])
          = [cube EXCEPT ![id] = "-"]
    <3>1. \A j \in Ids : PositionOf(inputOrder, j) \in Ids
                         /\ (PositionOf(inputOrder, j) = k <=> j = id)
      BY <1>1, <2>2, PositionOfFacts
    <3> QED BY <3>1, <1>1, <2>1 DEF Order_back, CubesOn
  <2> QED BY <1>1, <1>3, <2>4, <2>5, <2>6, CoversOrderBack DEF Matches
<1>7. TypeOK'
  BY <1>1, <1>2 DEF TypeOK, IsPermutation
<1>8. ExpandInv' /\ DoneInv'
  BY <1>2 DEF ExpandInv, DoneInv
<1>9. NoOffsetCovered'
  BY <1>2, <1>5 DEF NoOffsetCovered
<1>10. ResultsArePrime'
  BY <1>2, <1>6 DEF ResultsArePrime
<1>11. OnsetAccounted'
  <2> SUFFICES ASSUME NEW p \in OnSet, p \notin todo PROVE AlreadyCovered(p)'
    BY <1>2 DEF OnsetAccounted
  <2>1. AlreadyCovered(p) \/ Matches(dc_string, p)
    BY DEF OnsetAccounted
  <2> QED BY <1>2, <1>3, <1>4, <2>1 DEF AlreadyCovered
<1> QED BY <1>7, <1>8, <1>9, <1>10, <1>11

LEMMA SkipRowIInv == ASSUME IInv, NEW p \in Rows, SkipRow(p) PROVE IInv'
<1> USE DEF IInv
<1>1. /\ UNCHANGED <<patterns, inputOrder, input_pat, dc_string, i, result_patterns, pc>>
      /\ pc = "scan" /\ OffSet' = OffSet /\ OnSet' = OnSet
  BY DEF SkipRow, OffSet, OnSet
<1>2. TypeOK'
  BY <1>1 DEF SkipRow, TypeOK, IsPermutation
<1>3. ExpandInv' /\ DoneInv' /\ NoOffsetCovered' /\ ResultsArePrime'
  BY <1>1 DEF ExpandInv, DoneInv, NoOffsetCovered, ResultsArePrime
<1>4. OnsetAccounted'
  BY <1>1 DEF SkipRow, OnsetAccounted, AlreadyCovered
<1> QED BY <1>2, <1>3, <1>4

LEMMA WriteFileIInv == ASSUME IInv, WriteFile PROVE IInv'
<1> USE DEF IInv
<1>1. /\ UNCHANGED <<patterns, inputOrder, todo, input_pat, dc_string, i, result_patterns>>
      /\ pc = "scan" /\ pc' = "done" /\ todo = {}
      /\ OffSet' = OffSet /\ OnSet' = OnSet
  BY DEF WriteFile, OffSet, OnSet
<1>2. TypeOK'
  BY <1>1 DEF TypeOK, IsPermutation
<1>3. ExpandInv' /\ DoneInv' /\ NoOffsetCovered' /\ ResultsArePrime'
  BY <1>1 DEF ExpandInv, DoneInv, NoOffsetCovered, ResultsArePrime
<1>4. OnsetAccounted'
  BY <1>1 DEF OnsetAccounted, AlreadyCovered
<1> QED BY <1>2, <1>3, <1>4

LEMMA StutterIInv == ASSUME IInv, UNCHANGED vars PROVE IInv'
<1> USE DEF IInv
<1>1. /\ UNCHANGED <<patterns, inputOrder, todo, input_pat, dc_string, i,
                    result_patterns, pc>>
      /\ OffSet' = OffSet /\ OnSet' = OnSet
  BY DEF vars, OffSet, OnSet
<1>2. TypeOK'
  BY <1>1 DEF TypeOK, IsPermutation
<1>3. ExpandInv'
  BY <1>1 DEF ExpandInv, Matches, Reorder, AlreadyCovered
<1>4. DoneInv' /\ NoOffsetCovered' /\ ResultsArePrime'
  BY <1>1 DEF DoneInv, NoOffsetCovered, ResultsArePrime
<1>5. OnsetAccounted'
  BY <1>1 DEF OnsetAccounted, AlreadyCovered, Matches, Reorder
<1> QED BY <1>2, <1>3, <1>4, <1>5

(* Every reachable state of every instance satisfies the inductive         *)
(* invariant of the expansion.                                             *)
THEOREM Invariance == Spec => []IInv
<1>1. Init => IInv
  BY InitIInv
<1>2. IInv /\ [Next]_vars => IInv'
  BY StartRowIInv, ExpandBitIInv, PushResultIInv, SkipRowIInv, WriteFileIInv,
     StutterIInv DEF Next
<1> QED BY <1>1, <1>2, PTL DEF Spec

(* Whatever the sorts do, inputOrder names every input exactly once, and   *)
(* the expansion works on cubes of real_PI_num signs.                      *)
THEOREM TypeCorrect == Spec => []TypeOK
<1>1. IInv => TypeOK
  BY DEF IInv
<1> QED BY <1>1, Invariance, PTL

(* No cube SATOptimization writes contradicts a simulated off-set row.     *)
THEOREM NeverCoversOffset == Spec => []NoOffsetCovered
<1>1. IInv => NoOffsetCovered
  BY DEF IInv
<1> QED BY <1>1, Invariance, PTL

(* One pass over the bits leaves no literal that could still be dropped.   *)
THEOREM AlwaysPrime == Spec => []ResultsArePrime
<1>1. IInv => ResultsArePrime
  BY DEF IInv
<1> QED BY <1>1, Invariance, PTL

(* The file is written only when every simulated on-set row is covered.    *)
THEOREM CoversOnset == Spec => []OnsetCoveredWhenDone
<1>1. IInv => OnsetCoveredWhenDone
  BY DEF IInv, OnsetAccounted, DoneInv, OnsetCoveredWhenDone
<1> QED BY <1>1, Invariance, PTL

(* The table, completed: what the file's cubes compute when it is written. *)
Computed == [p \in Str |-> IF AlreadyCovered(p) THEN "1" ELSE "0"]

CompletesTable == pc = "done" => Computed \in CoversOf(Ids, patterns)

(* beyond_to_abcOpt.txt computes the output bit of every simulated row, on *)
(* and off: what TruthTable.tla takes SATOptimization to deliver.          *)
THEOREM DeliversTable == Spec => []CompletesTable
<1>1. ASSUME IInv, OnsetCoveredWhenDone PROVE CompletesTable
  <2> SUFFICES ASSUME pc = "done" PROVE Computed \in CoversOf(Ids, patterns)
    BY DEF CompletesTable
  <2>1. DOMAIN patterns = Rows /\ \A p \in Rows : patterns[p] \in Bit
    BY <1>1 DEF IInv, TypeOK
  <2>2. Computed \in [PatternsOn(Ids) -> Bit]
    BY DEF Computed, Str, Bit
  <2>3. ASSUME NEW p \in Rows PROVE Computed[p] = patterns[p]
    <3>1. p \in Str
      BY RowsAssumption
    <3>2. Computed[p] = IF AlreadyCovered(p) THEN "1" ELSE "0"
      BY <3>1 DEF Computed
    <3>3. CASE patterns[p] = "1"
      <4>1. AlreadyCovered(p)
        BY <1>1, <3>3 DEF OnsetCoveredWhenDone, OnSet
      <4> QED BY <3>2, <3>3, <4>1
    <3>4. CASE patterns[p] = "0"
      <4>1. ~ AlreadyCovered(p)
        BY <1>1, <3>4 DEF IInv, NoOffsetCovered, OffSet, AlreadyCovered
      <4> QED BY <3>2, <3>4, <4>1
    <3> QED BY <2>1, <3>3, <3>4 DEF Bit
  <2> QED BY <2>1, <2>2, <2>3 DEF CoversOf
<1> QED BY <1>1, Invariance, CoversOnset, PTL

-----------------------------------------------------------------------------
(* The look-ups.  A trial asks for what dropping the bit adds to the cube. *)
LEMMA TrialAsks ==
  ASSUME IInv, pc = "expand", i < RealPINum
  PROVE  /\ i \in Ids
         /\ \A q \in LookedUp : /\ q \in Str
                                /\ Covers([dc_string EXCEPT ![i] = "-"], q)
                                /\ q[i] # dc_string[i]
<1>1. i \in Ids
  BY RealPINumAssumption DEF IInv, TypeOK, Ids
<1>2. dc_string \in CubesOn(Ids) /\ input_pat \in Str
  BY DEF IInv, TypeOK
<1>3. \A k \in Ids : k >= i => dc_string[k] # "-"
  BY <1>2 DEF IInv, ExpandInv, Str, PatternsOn, Bit
<1>4. Max(DontCares([dc_string EXCEPT ![i] = "-"])) = i
  BY <1>1, <1>2, <1>3, LastDontCare
<1> QED BY <1>1, <1>4 DEF LookedUp, Queries

LEMMA ExpandBitLooksUpOnce ==
  ASSUME IInv, ExpandBit
  PROVE  LookedUp \subseteq YetToLookUp /\ YetToLookUp' \subseteq YetToLookUp \ LookedUp
<1> DEFINE trial == [dc_string EXCEPT ![i] = "-"]
<1>1. /\ pc = "expand" /\ i < RealPINum /\ i' = i + 1
      /\ dc_string' = trial \/ dc_string' = [trial EXCEPT ![i] = input_pat[i]]
  BY DEF ExpandBit
<1>2. /\ i \in Ids
      /\ \A q \in LookedUp : q \in Str /\ Covers(trial, q) /\ q[i] # dc_string[i]
  BY <1>1, TrialAsks
<1>3. dc_string \in CubesOn(Ids) /\ input_pat \in Str
  BY DEF IInv, TypeOK
<1>4. dc_string[i] = input_pat[i] /\ dc_string[i] # "-"
  <2>1. i >= i
    BY <1>2 DEF Ids
  <2> QED BY <1>1, <1>2, <1>3, <2>1 DEF IInv, ExpandInv, Str, PatternsOn, Bit
<1>5. DOMAIN dc_string = Ids /\ DOMAIN trial = Ids
  BY <1>3 DEF CubesOn
<1>6. /\ \A k \in Ids \ {i} : trial[k] = dc_string[k] /\ dc_string'[k] = dc_string[k]
      /\ trial[i] = "-"
  BY <1>1, <1>2, <1>5
<1>7. dc_string' = trial \/ dc_string' = dc_string
  <2>1. CASE dc_string' = [trial EXCEPT ![i] = input_pat[i]]
    <3>1. DOMAIN dc_string' = Ids /\ \A k \in Ids : dc_string'[k] = dc_string[k]
      BY <1>2, <1>4, <1>5, <1>6, <2>1
    <3>2. dc_string' = [k \in Ids |-> dc_string'[k]]
      BY <1>5, <2>1
    <3>3. dc_string = [k \in Ids |-> dc_string[k]]
      BY <1>3 DEF CubesOn
    <3> QED BY <3>1, <3>2, <3>3
  <2> QED BY <1>1, <2>1
<1> HIDE DEF trial
<1>8. \A k \in Ids : k < i' <=> k < i \/ k = i
  BY <1>1, <1>2, RealPINumAssumption DEF Ids
<1>9. ASSUME NEW q \in LookedUp PROVE q \in YetToLookUp
  <2>1. q \in Str /\ Covers(trial, q) /\ q[i] # dc_string[i]
    BY <1>2
  <2>2. ~ Covers(dc_string, q)
    BY <1>2, <1>4, <1>5, <2>1 DEF Covers
  <2>3. ASSUME NEW k \in Ids, k < i, dc_string[k] # "-" PROVE q[k] = dc_string[k]
    <3>1. k # i
      BY <1>2, <2>3 DEF Ids
    <3> QED BY <1>5, <1>6, <2>1, <2>3, <3>1 DEF Covers
  <2> QED BY <2>1, <2>2, <2>3 DEF YetToLookUp
<1>10. ASSUME NEW q \in YetToLookUp' PROVE q \in YetToLookUp /\ q \notin LookedUp
  <2>1. /\ q \in Str /\ ~ Covers(dc_string', q)
        /\ \A k \in Ids : k < i' /\ dc_string'[k] # "-" => q[k] = dc_string'[k]
    BY <1>10 DEF YetToLookUp
  <2>2. ~ Covers(dc_string, q)
    BY <1>5, <1>6, <1>7, <2>1 DEF Covers
  <2>3. ASSUME NEW k \in Ids, k < i, dc_string[k] # "-" PROVE q[k] = dc_string[k]
    <3>1. k # i
      BY <1>2, <2>3 DEF Ids
    <3>2. k < i' /\ dc_string'[k] = dc_string[k]
      BY <1>6, <1>8, <2>3, <3>1
    <3> QED BY <2>1, <2>3, <3>2
  <2>4. q \in YetToLookUp
    BY <2>1, <2>2, <2>3 DEF YetToLookUp
  <2>5. ASSUME q \in LookedUp PROVE FALSE
    <3>1. Covers(trial, q) /\ q[i] # dc_string[i]
      BY <1>2, <2>5
    <3>2. dc_string' = dc_string
      BY <1>7, <2>1, <3>1
    <3>3. q[i] = dc_string[i]
      BY <1>2, <1>4, <1>8, <2>1, <3>2
    <3> QED BY <3>1, <3>3
  <2> QED BY <2>4, <2>5
<1> QED BY <1>9, <1>10

(* For a row, no setting of the inputs is looked up twice: half of each    *)
(* trial's are skipped "for speed up", and they are just those that were   *)
(* looked up, or known, before.                                            *)
THEOREM NeverLooksUpTwice == Spec => LooksUpOnce
<1> DEFINE Once == ExpandBit => /\ LookedUp \subseteq YetToLookUp
                               /\ YetToLookUp' \subseteq YetToLookUp \ LookedUp
<1>1. IInv => Once
  BY ExpandBitLooksUpOnce
<1> QED BY <1>1, Invariance, PTL DEF Spec, LooksUpOnce

-----------------------------------------------------------------------------
(* The signs Reorder turned before the sort are turned back after it, so   *)
(* the weights the next row is sorted by are the ones that were counted.   *)
LEMMA ReorderKeepsWeights ==
  ASSUME NEW order \in Order, IsPermutation(order), NEW pat \in Str,
         NEW s \in Sorted(FlipSigns(order, pat)), NEW id \in Ids
  PROVE  WeightOf(FlipSigns(s, pat), id) = WeightOf(order, id)
<1> DEFINE flipped == FlipSigns(order, pat)
<1> DEFINE after == FlipSigns(s, pat)
<1>1. PICK perm \in Bijection(Ids, Ids) : s = Permuted(flipped, perm)
  BY DEF Sorted
<1>2. perm \in [Ids -> Ids]
  BY DEF Bijection, Injection
<1>3. PICK k \in Ids : k = PositionOf(after, id) /\ after[k].first = id
  BY ReorderKeepsOrder, PositionOfFacts
<1>4. after[k] = order[perm[k]]
  <2>1. order[perm[k]] \in [first : Ids, second : Int]
    BY <1>2 DEF Order
  <2>2. s[k] = flipped[perm[k]]
    BY <1>1 DEF Permuted
  <2>3. flipped[perm[k]].first = order[perm[k]].first
    BY <1>2, FlipSignsFacts
  <2> QED BY <1>2, <2>1, <2>2, <2>3 DEF FlipSigns
<1>5. order[perm[k]].first = id
  BY <1>3, <1>4
<1>6. PositionOf(order, id) = perm[k]
  BY <1>2, <1>5, PositionOfFacts DEF IsPermutation
<1> QED BY <1>3, <1>4, <1>6 DEF WeightOf

THEOREM WeightsNeverChange == Spec => WeightsKept
<1> DEFINE Kept == \A id \in Ids : WeightOf(inputOrder', id) = WeightOf(inputOrder, id)
<1>1. IInv /\ [Next]_vars => [Kept]_vars
  <2> SUFFICES ASSUME IInv, Next PROVE Kept
    OBVIOUS
  <2>1. ASSUME NEW p \in Rows, StartRow(p) PROVE Kept
    <3>1. PICK order \in Sorted(FlipSigns(inputOrder, p)) : inputOrder' = FlipSigns(order, p)
      BY <2>1 DEF StartRow
    <3>2. p \in Str /\ inputOrder \in Order /\ IsPermutation(inputOrder)
      BY RowsAssumption DEF IInv, TypeOK
    <3> QED BY <3>1, <3>2, ReorderKeepsWeights
  <2>2. ASSUME UNCHANGED inputOrder PROVE Kept
    BY <2>2
  <2> QED BY <2>1, <2>2 DEF Next, SkipRow, ExpandBit, PushResult, WriteFile
<1> QED BY <1>1, Invariance, PTL DEF Spec, WeightsKept

(* The expansion implements the abstract cover: pushing a result adds a    *)
(* prime implicant that covers a row no earlier one covers, writing the    *)
(* file hands over a complete cover, and everything else is invisible.     *)
THEOREM Refinement == Spec => ImplementsCover
<1>1. Init => Cover!Init
  BY DEF Init, Cover!Init, Bit, Cover!Bit
<1> USE DEF Bit, CubesOn, Covers, DontCares, Literals, Cover!Bit, Cover!CubesOn,
            Cover!Covers, Cover!DontCares, Cover!Literals
<1>2. IInv /\ IInv' /\ [Next]_vars => [Cover!Next]_Cover!vars
  <2> SUFFICES ASSUME IInv, IInv', [Next]_vars PROVE [Cover!Next]_Cover!vars
    OBVIOUS
  <2>1. ASSUME PushResult PROVE Cover!Next
    <3> DEFINE cube == Order_back(inputOrder, dc_string)
    <3>1. /\ cube \in CubesOn(Ids) /\ result_patterns' = result_patterns \union {cube}
          /\ pc = "expand" /\ pc' = "scan" /\ UNCHANGED patterns
          /\ OffSet' = OffSet
      BY <2>1, OrderBackCube DEF PushResult, IInv, TypeOK, OffSet
    <3>2. PICK p \in OnSet : ~ AlreadyCovered(p) /\ Matches(dc_string, p)
      BY <3>1 DEF IInv, ExpandInv
    <3>3. Covers(cube, p)
      BY <3>2, RowsAssumption, CoversOrderBack DEF IInv, TypeOK, OnSet, Matches
    <3>4. Cover!Prime(cube)
      BY <3>1 DEF IInv, NoOffsetCovered, ResultsArePrime, Cover!Prime,
                  Cover!Implicant, Cover!OffSet, OffSet
    <3>5. Cover!AddCube(cube)
      BY <3>1, <3>2, <3>3, <3>4 DEF Cover!AddCube, Cover!OnSet, OnSet, AlreadyCovered
    <3> QED BY <3>1, <3>5 DEF Cover!Next
  <2>2. ASSUME WriteFile PROVE Cover!Next
    <3>1. \A p \in OnSet : AlreadyCovered(p)
      BY <2>2 DEF WriteFile, IInv, OnsetAccounted
    <3> QED BY <2>2, <3>1 DEF WriteFile, AlreadyCovered, OnSet, Cover!Next,
                              Cover!HandOver, Cover!OnSet
  <2>3. ASSUME UNCHANGED <<patterns, result_patterns>>, (pc' = "done") = (pc = "done")
        PROVE  UNCHANGED Cover!vars
    BY <2>3 DEF Cover!vars
  <2>4. ASSUME NEW p \in Rows, SkipRow(p) \/ StartRow(p) PROVE UNCHANGED Cover!vars
    BY <2>3, <2>4 DEF SkipRow, StartRow
  <2>5. ASSUME ExpandBit \/ UNCHANGED vars PROVE UNCHANGED Cover!vars
    BY <2>3, <2>5 DEF ExpandBit, vars
  <2> QED BY <2>1, <2>2, <2>4, <2>5 DEF Next
<1> QED BY <1>1, <1>2, Invariance, PTL DEF Spec, ImplementsCover, Cover!Spec

-----------------------------------------------------------------------------
(* Whether SATOptimization ends.                                           *)

Before(order, j, k) ==
  order[j].second > order[k].second \/ (order[j].second = order[k].second /\ j < k)

Place(order, k) == Cardinality({j \in Ids : Before(order, j, k)})

LEMMA IdsFinite == IsFiniteSet(Ids) /\ Cardinality(Ids) = RealPINum
<1>1. 0 \in Int /\ RealPINum - 1 \in Int
  BY RealPINumAssumption
<1>2. IsFiniteSet(Ids) /\ Cardinality(Ids) = IF 0 > RealPINum - 1 THEN 0 ELSE RealPINum - 1 - 0 + 1
  BY <1>1, FS_Interval DEF Ids
<1> QED BY <1>2, RealPINumAssumption

(* A pair that goes before another one has fewer pairs before it.          *)
LEMMA PlaceGrows ==
  ASSUME NEW order \in Order, NEW j \in Ids, NEW k \in Ids, Before(order, j, k)
  PROVE  Place(order, j) < Place(order, k)
<1> DEFINE B(x) == {m \in Ids : Before(order, m, x)}
<1>1. \A m \in Ids : m \in Int /\ order[m].second \in Int
  BY RealPINumAssumption DEF Ids, Order
<1>2. B(j) \subseteq B(k)
  BY <1>1 DEF Before
<1>3. j \in B(k) /\ j \notin B(j)
  BY <1>1 DEF Before
<1>4. IsFiniteSet(B(k)) /\ IsFiniteSet(B(j))
  BY IdsFinite, FS_Subset
<1>5. Cardinality(B(j)) <= Cardinality(B(k)) /\ Cardinality(B(j)) # Cardinality(B(k))
  BY <1>2, <1>3, <1>4, FS_Subset
<1>6. Cardinality(B(j)) \in Nat /\ Cardinality(B(k)) \in Nat
  BY <1>4, FS_CardinalityType
<1> QED BY <1>5, <1>6 DEF Place

(* Putting every pair at its place sorts the pairs.                        *)
LEMMA SortExists == ASSUME NEW order \in Order PROVE Sorted(order) # {}
<1> DEFINE f == [k \in Ids |-> Place(order, k)]
           Image == {f[k] : k \in Ids}
<1>1. \A m \in Ids : m \in Int /\ order[m].second \in Int
  BY RealPINumAssumption DEF Ids, Order
<1>2. ASSUME NEW k \in Ids PROVE f[k] \in Ids
  <2> DEFINE B == {m \in Ids : Before(order, m, k)}
  <2>1. IsFiniteSet(B) /\ Cardinality(B) <= Cardinality(Ids) /\ (Cardinality(B) = Cardinality(Ids) => B = Ids)
    BY IdsFinite, FS_Subset
  <2>2. k \notin B
    BY <1>1 DEF Before
  <2>3. Cardinality(B) \in Nat
    BY <2>1, FS_CardinalityType
  <2> HIDE DEF B
  <2>4. Cardinality(B) < RealPINum
    BY <2>1, <2>2, <2>3, IdsFinite, RealPINumAssumption
  <2> QED BY <2>3, <2>4, RealPINumAssumption DEF Ids, Place, B
<1>3. ASSUME NEW j \in Ids, NEW k \in Ids, f[j] = f[k] PROVE j = k
  <2>1. j # k => Before(order, j, k) \/ Before(order, k, j)
    BY <1>1 DEF Before
  <2>2. f[j] \in Int /\ f[k] \in Int
    BY <1>2, RealPINumAssumption DEF Ids
  <2> QED BY <1>3, <2>1, <2>2, PlaceGrows
<1>4. f \in Bijection(Ids, Image)
  BY <1>3 DEF Bijection, Injection, Surjection, IsInjective
<1>5. Image = Ids
  <2>1. ExistsBijection(Ids, Image)
    BY <1>4 DEF ExistsBijection
  <2>2. IsFiniteSet(Image) /\ Cardinality(Image) = Cardinality(Ids)
    BY <2>1, IdsFinite, FS_Bijection
  <2>3. Image \in SUBSET Ids
    BY <1>2
  <2> HIDE DEF Image
  <2> QED BY <2>2, <2>3, IdsFinite, FS_Subset
<1> DEFINE perm == [p \in Ids |-> CHOOSE k \in Ids : f[k] = p]
<1>6. ASSUME NEW p \in Ids PROVE perm[p] \in Ids /\ f[perm[p]] = p
  <2>1. \E k \in Ids : f[k] = p
    BY <1>5
  <2> QED BY <2>1
<1>7. perm \in Bijection(Ids, Ids)
  <2>1. perm \in [Ids -> Ids]
    BY <1>6
  <2>2. \A a, b \in Ids : perm[a] = perm[b] => a = b
    BY <1>6
  <2>3. \A k \in Ids : \E a \in Ids : perm[a] = k
    <3> SUFFICES ASSUME NEW k \in Ids PROVE \E a \in Ids : perm[a] = k
      OBVIOUS
    <3>1. f[k] \in Ids
      BY <1>2
    <3>2. f[perm[f[k]]] = f[k] /\ perm[f[k]] \in Ids
      BY <1>6, <3>1
    <3> QED BY <1>3, <3>1, <3>2
  <2> HIDE DEF perm
  <2> QED BY <2>1, <2>2, <2>3 DEF Bijection, Injection, Surjection, IsInjective
<1> DEFINE s == Permuted(order, perm)
<1>8. ASSUME NEW j \in Ids, NEW k \in Ids, j < k PROVE s[j].second >= s[k].second
  <2>1. /\ perm[j] \in Ids /\ perm[k] \in Ids
        /\ Place(order, perm[j]) = j /\ Place(order, perm[k]) = k
    BY <1>6
  <2>2. ~ Before(order, perm[k], perm[j])
    BY <1>1, <1>8, <2>1, PlaceGrows
  <2> HIDE DEF perm
  <2>3. s[j] = order[perm[j]] /\ s[k] = order[perm[k]]
    BY DEF Permuted
  <2> QED BY <1>1, <2>1, <2>2, <2>3 DEF Before
<1>9. s \in Sorted(order)
  BY <1>7, <1>8 DEF Sorted
<1> QED BY <1>9

FindsAnOrder == \A p \in todo : Sorted(FlipSigns(inputOrder, p)) # {}

(* A row that is not skipped is always started: the sort has an outcome,   *)
(* whatever the weights are and however the sorts before it broke ties.    *)
THEOREM AlwaysSorts == Spec => []FindsAnOrder
<1>1. IInv => FindsAnOrder
  <2> SUFFICES ASSUME IInv, NEW p \in todo PROVE Sorted(FlipSigns(inputOrder, p)) # {}
    BY DEF FindsAnOrder
  <2>1. p \in Str /\ inputOrder \in Order
    BY RowsAssumption DEF IInv, TypeOK
  <2>2. FlipSigns(inputOrder, p) \in Order
    BY <2>1, FlipSignsFacts
  <2> QED BY <2>2, SortExists
<1> QED BY <1>1, Invariance, PTL

(* How many steps there are left at most: a row costs one step to start, a *)
(* step a bit, and one to push the cube.                                   *)
Left ==
  CASE pc = "scan"   -> (RealPINum + 2) * Cardinality(todo) + 1
    [] pc = "expand" -> (RealPINum + 2) * Cardinality(todo) + (RealPINum - i) + 2
    [] OTHER         -> 0

ComesNearer == [][Left' < Left /\ Left \in Nat /\ Left' \in Nat]_vars

LEMMA LeftType == IInv => Left \in Nat /\ IsFiniteSet(todo) /\ Cardinality(todo) \in Nat
<1> SUFFICES ASSUME IInv PROVE Left \in Nat /\ IsFiniteSet(todo) /\ Cardinality(todo) \in Nat
  OBVIOUS
<1>1. IsFiniteSet(todo)
  BY RowsAssumption, FS_Subset DEF IInv, TypeOK
<1>2. Cardinality(todo) \in Nat
  BY <1>1, FS_CardinalityType
<1>3. i \in 0 .. RealPINum
  BY DEF IInv, TypeOK
<1>4. PICK c \in Nat : c = Cardinality(todo)
  BY <1>2
<1>5. (RealPINum + 2) * c \in Nat
  BY RealPINumAssumption
<1> QED BY <1>1, <1>2, <1>3, <1>4, <1>5, RealPINumAssumption DEF Left

(* Every step of SATOptimization leaves fewer steps to make: a row is      *)
(* expanded once, each of its bits tried once, and skipping or starting a  *)
(* row takes it off the rows to come.  With AlwaysSorts the function ends. *)
THEOREM RunsDown == Spec => ComesNearer
<1>0. IInv => Left \in Nat
  BY LeftType
<1>1. ASSUME IInv, Left \in Nat, (Left \in Nat)', [Next]_vars
      PROVE  [Left' < Left /\ Left \in Nat /\ Left' \in Nat]_vars
  <2>1. /\ IsFiniteSet(todo) /\ Cardinality(todo) \in Nat
        /\ i \in 0 .. RealPINum /\ RealPINum \in Nat
    BY <1>1, LeftType, RealPINumAssumption DEF IInv, TypeOK
  <2>2. PICK c \in Nat : c = Cardinality(todo)
    BY <2>1
  <2>3. PICK w \in Nat : w = RealPINum + 2
    BY <2>1
  <2>4. w * c \in Nat /\ w * (c - 1) = w * c - w
    BY <2>1, <2>3
  <2>5. ASSUME NEW p \in todo, todo' = todo \ {p} PROVE Cardinality(todo') = c - 1
    BY <2>1, <2>2, <2>5, FS_RemoveElement
  <2>6. ASSUME NEW p \in Rows, SkipRow(p) PROVE Left' < Left
    <3>1. pc = "scan" /\ pc' = "scan" /\ p \in todo /\ todo' = todo \ {p}
      BY <2>6 DEF SkipRow
    <3>2. Cardinality(todo') = c - 1
      BY <2>5, <3>1
    <3>3. Left = w * c + 1 /\ Left' = w * (c - 1) + 1
      BY <2>2, <2>3, <3>1, <3>2 DEF Left
    <3> QED BY <2>1, <2>3, <2>4, <3>3
  <2>7. ASSUME NEW p \in Rows, StartRow(p) PROVE Left' < Left
    <3>1. /\ pc = "scan" /\ pc' = "expand" /\ i' = 0
          /\ p \in todo /\ todo' = todo \ {p}
      BY <2>7 DEF StartRow
    <3>2. Cardinality(todo') = c - 1
      BY <2>5, <3>1
    <3>3. Left = w * c + 1 /\ Left' = w * (c - 1) + (RealPINum - 0) + 2
      BY <2>2, <2>3, <3>1, <3>2 DEF Left
    <3> QED BY <2>1, <2>3, <2>4, <3>3
  <2>8. CASE ExpandBit
    <3>1. pc = "expand" /\ pc' = "expand" /\ i' = i + 1 /\ todo' = todo
      BY <2>8 DEF ExpandBit
    <3>2. Left = w * c + (RealPINum - i) + 2 /\ Left' = w * c + (RealPINum - (i + 1)) + 2
      BY <2>2, <2>3, <3>1 DEF Left
    <3> QED BY <2>1, <2>4, <3>2
  <2>9. CASE PushResult
    <3>1. pc = "expand" /\ pc' = "scan" /\ i = RealPINum /\ todo' = todo
      BY <2>9 DEF PushResult
    <3>2. Left = w * c + (RealPINum - RealPINum) + 2 /\ Left' = w * c + 1
      BY <2>2, <2>3, <3>1 DEF Left
    <3> QED BY <2>1, <2>4, <3>2
  <2>10. CASE WriteFile
    <3>1. pc = "scan" /\ pc' = "done"
      BY <2>10 DEF WriteFile
    <3>2. Left = w * c + 1 /\ Left' = 0
      BY <2>2, <2>3, <3>1 DEF Left
    <3> QED BY <2>4, <3>2
  <2> QED BY <1>1, <2>6, <2>7, <2>8, <2>9, <2>10 DEF Next
<1> QED BY <1>0, <1>1, Invariance, PTL DEF Spec, ComesNearer

-----------------------------------------------------------------------------
(* How many look-ups that makes.                                           *)
LEMMA SettingsFinite == IsFiniteSet(Str) /\ Cardinality(Str) <= 2 ^ RealPINum
<1> DEFINE Ones(q) == {k \in Ids : q[k] = "1"}
           f == [q \in Str |-> Ones(q)]
<1>1. IsFiniteSet(SUBSET Ids) /\ Cardinality(SUBSET Ids) = 2 ^ RealPINum
  BY IdsFinite, FS_SUBSET
<1>2. ASSUME NEW p \in Str, NEW q \in Str, Ones(p) = Ones(q) PROVE p = q
  <2>1. p \in [Ids -> {"0", "1"}] /\ q \in [Ids -> {"0", "1"}]
    BY DEF Str, PatternsOn, Bit
  <2>2. \A k \in Ids : p[k] = "1" <=> q[k] = "1"
    BY <1>2
  <2>3. \A k \in Ids : p[k] = q[k]
    BY <2>1, <2>2
  <2> QED BY <2>1, <2>3
<1>3. f \in [Str -> SUBSET Ids] /\ \A q \in Str : f[q] = Ones(q)
  OBVIOUS
<1> HIDE DEF f, Ones
<1>4. f \in Injection(Str, SUBSET Ids)
  BY <1>2, <1>3 DEF Injection, IsInjective
<1>5. IsFiniteSet(Str) /\ Cardinality(Str) <= Cardinality(SUBSET Ids)
  BY <1>1, <1>4, FS_Injection
<1> QED BY <1>1, <1>5

LEMMA LookUpsFinite ==
  /\ IsFiniteSet(YetToLookUp) /\ Cardinality(YetToLookUp) \in Nat
  /\ IsFiniteSet(LookedUp) /\ Cardinality(LookedUp) \in Nat
<1>1. YetToLookUp \subseteq Str /\ LookedUp \subseteq Str
  BY DEF YetToLookUp, LookedUp, Queries
<1>2. IsFiniteSet(YetToLookUp) /\ IsFiniteSet(LookedUp)
  BY <1>1, SettingsFinite, FS_Subset
<1> QED BY <1>2, FS_CardinalityType

LookUpsPaid ==
  [][/\ ExpandBit => Cardinality(YetToLookUp') + Cardinality(LookedUp)
                       <= Cardinality(YetToLookUp)
     /\ \A p \in Rows : StartRow(p) => Cardinality(YetToLookUp') < 2 ^ RealPINum]_vars

LEMMA ExpandBitPays ==
  ASSUME IInv, ExpandBit
  PROVE  Cardinality(YetToLookUp') + Cardinality(LookedUp) <= Cardinality(YetToLookUp)
<1>1. LookedUp \subseteq YetToLookUp /\ YetToLookUp' \subseteq YetToLookUp \ LookedUp
  BY ExpandBitLooksUpOnce
<1>2. IsFiniteSet(YetToLookUp) /\ Cardinality(YetToLookUp) \in Nat
  BY LookUpsFinite
<1>3. PICK A : A = YetToLookUp'
  OBVIOUS
<1>4. PICK B : B = LookedUp
  OBVIOUS
<1>5. A \union B \subseteq YetToLookUp /\ A \intersect B = {}
  BY <1>1, <1>3, <1>4
<1>6. IsFiniteSet(A) /\ IsFiniteSet(B) /\ IsFiniteSet(A \union B)
  <2>1. A \subseteq YetToLookUp /\ B \subseteq YetToLookUp
    BY <1>5
  <2> QED BY <1>2, <1>5, <2>1, FS_Subset
<1>7. Cardinality(A \union B) = Cardinality(A) + Cardinality(B) - Cardinality(A \intersect B)
  BY <1>6, FS_Union
<1>8. Cardinality(A \intersect B) = 0
  BY <1>5, FS_EmptySet
<1>9. Cardinality(A \union B) <= Cardinality(YetToLookUp)
  BY <1>2, <1>5, FS_Subset
<1>10. Cardinality(A) \in Nat /\ Cardinality(B) \in Nat
  BY <1>6, FS_CardinalityType
<1>11. Cardinality(A) + Cardinality(B) <= Cardinality(YetToLookUp)
  BY <1>7, <1>8, <1>9, <1>10
<1> QED BY <1>3, <1>4, <1>11

LEMMA StartRowBudget ==
  ASSUME IInv', NEW p \in Rows, StartRow(p)
  PROVE  Cardinality(YetToLookUp') < 2 ^ RealPINum
<1>1. dc_string' = input_pat' /\ input_pat' \in Str
  BY DEF StartRow, IInv, TypeOK
<1>2. PICK r : r = input_pat'
  OBVIOUS
<1>3. PICK A : A = YetToLookUp'
  OBVIOUS
<1>4. A \subseteq Str \ {r}
  <2>1. \A q \in A : q \in Str /\ ~ Covers(r, q)
    BY <1>1, <1>2, <1>3 DEF YetToLookUp
  <2>2. Covers(r, r)
    BY DEF Covers
  <2> QED BY <2>1, <2>2
<1>5. r \in Str
  BY <1>1, <1>2
<1>6. IsFiniteSet(Str \ {r}) /\ Cardinality(Str \ {r}) = Cardinality(Str) - 1
  BY <1>5, SettingsFinite, FS_RemoveElement
<1>7. Cardinality(A) <= Cardinality(Str \ {r})
  BY <1>4, <1>6, FS_Subset
<1>8. IsFiniteSet(A)
  BY <1>4, <1>6, FS_Subset
<1>9. Cardinality(A) \in Nat /\ Cardinality(Str) \in Nat
  BY <1>8, SettingsFinite, FS_CardinalityType
<1>10. PICK m : m = 2 ^ RealPINum
  OBVIOUS
<1>11. m \in Nat
  <2>1. IsFiniteSet(SUBSET Ids) /\ Cardinality(SUBSET Ids) = m
    BY <1>10, IdsFinite, FS_SUBSET
  <2> QED BY <2>1, FS_CardinalityType
<1>12. Cardinality(Str) <= m
  BY <1>10, SettingsFinite
<1>13. Cardinality(A) < m
  BY <1>6, <1>7, <1>9, <1>11, <1>12
<1> QED BY <1>3, <1>10, <1>13

(* A row takes fewer look-ups than the inputs have settings: it starts     *)
(* with fewer than two to the real_PI_num to make, and every trial, kept   *)
(* or turned back, takes what it looks up from those.                      *)
THEOREM LooksUpFewerThanSettings == Spec => LookUpsPaid
<1> DEFINE Paid ==
      /\ ExpandBit => Cardinality(YetToLookUp') + Cardinality(LookedUp)
                       <= Cardinality(YetToLookUp)
      /\ \A p \in Rows : StartRow(p) => Cardinality(YetToLookUp') < 2 ^ RealPINum
<1>1. ASSUME IInv, IInv' PROVE Paid
  BY <1>1, ExpandBitPays, StartRowBudget
<1> QED BY <1>1, Invariance, PTL DEF Spec, LookUpsPaid
=============================================================================
