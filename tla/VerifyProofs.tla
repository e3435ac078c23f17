---------------------------- MODULE VerifyProofs ----------------------------
(***************************************************************************)
(* Proofs about Verify, for all numbers of inputs, outputs and patterns,   *)
(* all circuits, and wherever the tools stop writing.                      *)
(*                                                                         *)
(* First the three loops: a slot passed holds a pattern whose entry in ppp *)
(* names that very slot.  Then the figures: a row that no file has lost is *)
(* read as it was written, so the rows counted and the rows right differ   *)
(* by lost rows only.                                                      *)
(***************************************************************************)
EXTENDS Verify, FiniteSetTheorems, TLAPS

-----------------------------------------------------------------------------
(* Drawing.                                                                *)

(* The state of the loops.                                                 *)
Loops ==
  /\ slots \in [Slots -> AllPatterns]
  /\ loop \in 1 .. 3
  /\ i \in First(loop) .. Past(loop)
  /\ pc \in {"draw", "read", "done", "exited"}
  /\ pc # "draw" => i = PatternNum
  /\ DOMAIN ppp \subseteq AllPatterns
  /\ \A r \in 0 .. i - 1 : slots[r] \in DOMAIN ppp /\ ppp[slots[r]] = r

(* Each loop begins where the one before it ends.                          *)
LEMMA LoopsMeet ==
  /\ First(1) = 0 /\ Past(3) = PatternNum
  /\ \A l \in 1 .. 2 : First(l + 1) = Past(l)
  /\ \A l \in 1 .. 3 : 0 <= First(l) /\ First(l) <= Past(l) /\ Past(l) <= PatternNum
  /\ \A l \in 1 .. 3 : First(l) \in Int /\ Past(l) \in Int
<1> USE SizesAssumption, EnoughAssumption
<1>1. /\ First(1) = 0 /\ First(2) = PatternNum - Tests0 - Tests1
      /\ First(3) = PatternNum - Tests0
  BY DEF First
<1>2. /\ Past(1) = PatternNum - Tests0 - Tests1 /\ Past(2) = PatternNum - Tests0
      /\ Past(3) = PatternNum
  BY DEF Past
<1> QED BY <1>1, <1>2

LEMMA LoopsInit == Init => Loops
<1> SUFFICES ASSUME Init PROVE Loops
  OBVIOUS
<1>1. slots \in [Slots -> AllPatterns]
  BY DEF Init, AllPatterns, PatternsOn, Bit
<1>2. i = 0 /\ First(1) = 0 /\ 0 <= Past(1) /\ Past(1) \in Int
  BY LoopsMeet DEF Init
<1> QED BY <1>1, <1>2 DEF Init, Loops

LEMMA LoopsNext == Loops /\ [Next]_vars => Loops'
<1> SUFFICES ASSUME Loops, [Next]_vars PROVE Loops'
  OBVIOUS
<1>0. i \in Int /\ 0 <= i /\ i <= PatternNum /\ PatternNum \in Nat
  BY LoopsMeet, SizesAssumption DEF Loops
<1>1. ASSUME NEW p \in AllPatterns, Draw(p) PROVE Loops'
  <2>1. i \in Slots /\ i < Past(loop) /\ Past(loop) \in Int /\ First(loop) \in Int
    BY <1>0, <1>1, LoopsMeet DEF Draw, Slots, Loops
  <2>2. slots' \in [Slots -> AllPatterns] /\ slots'[i] = p
          /\ \A r \in Slots : r # i => slots'[r] = slots[r]
    BY <1>1, <2>1 DEF Draw, Loops
  <2>3. \A r \in 0 .. i - 1 : r \in Slots /\ r # i
    BY <1>0, <2>1 DEF Slots
  <2>4. CASE p \in DOMAIN ppp
    BY <1>1, <2>2, <2>3, <2>4 DEF Draw, Loops
  <2>5. CASE p \notin DOMAIN ppp
    <3>1. /\ \A q : q \in DOMAIN ppp' <=> q \in DOMAIN ppp \/ q = p
          /\ ppp'[p] = i
          /\ \A q \in DOMAIN ppp : ppp'[q] = ppp[q]
          /\ i' = i + 1
      BY <1>1, <2>5 DEF Draw
    <3>2. ASSUME NEW r \in 0 .. i' - 1
          PROVE  slots'[r] \in DOMAIN ppp' /\ ppp'[slots'[r]] = r
      <4>1. CASE r = i
        BY <2>2, <3>1, <4>1
      <4>2. CASE r # i
        <5>1. r \in 0 .. i - 1
          BY <1>0, <3>1, <3>2, <4>2
        <5>2. slots'[r] = slots[r]
          BY <2>2, <2>3, <5>1
        <5> QED BY <3>1, <5>1, <5>2 DEF Loops
      <4> QED BY <4>1, <4>2
    <3>3. DOMAIN ppp' \subseteq AllPatterns
      BY <3>1 DEF Loops
    <3>4. loop' = loop /\ pc' = pc /\ pc = "draw"
      BY <1>1 DEF Draw
    <3> QED BY <2>1, <2>2, <3>1, <3>2, <3>3, <3>4 DEF Loops
  <2> QED BY <2>4, <2>5
<1>2. CASE NextLoop
  <2>1. loop \in 1 .. 2 /\ loop' = loop + 1 /\ i' = First(loop + 1) /\ i >= Past(loop)
    BY <1>2 DEF NextLoop, Loops
  <2>2. i' = i
    BY <1>0, <2>1, LoopsMeet DEF Loops
  <2>3. i' \in First(loop') .. Past(loop')
    BY <2>1, LoopsMeet
  <2> QED BY <1>2, <2>1, <2>2, <2>3 DEF NextLoop, Loops
<1>3. CASE RunTools
  <2>1. i = PatternNum
    BY <1>0, <1>3, LoopsMeet DEF RunTools
  <2> QED BY <1>3, <2>1 DEF RunTools, Loops
<1>4. CASE Compare \/ Exit
  BY <1>4 DEF Compare, Exit, Loops
<1>5. CASE UNCHANGED vars
  BY <1>5 DEF vars, Loops
<1> QED BY <1>1, <1>2, <1>3, <1>4, <1>5 DEF Next

(* However often patterns repeat and wherever one loop takes over from the *)
(* other, every slot ends with a pattern of its own.                       *)
THEOREM SlotsFilled == Spec => []EverySlotDrawn
<1>1. Loops => EverySlotDrawn
  BY SizesAssumption DEF Loops, EverySlotDrawn, Slots
<1> QED BY <1>1, LoopsInit, LoopsNext, PTL DEF Spec

-----------------------------------------------------------------------------
(* Whether there are patterns enough.                                      *)

(* There are as many patterns as sets of inputs that may be 1.             *)
LEMMA PatternCount == IsFiniteSet(AllPatterns) /\ Cardinality(AllPatterns) = 2 ^ InputNum
<1> DEFINE g == [S \in SUBSET Ids |-> [k \in Ids |-> IF k \in S THEN "1" ELSE "0"]]
<1>1. IsFiniteSet(Ids) /\ Cardinality(Ids) = InputNum
  <2>1. PICK m \in Nat : m = InputNum
    BY SizesAssumption
  <2>2. PICK v \in Int : v = m - 1
    OBVIOUS
  <2>3. IsFiniteSet(0 .. v) /\ Cardinality(0 .. v) = IF 0 > v THEN 0 ELSE v - 0 + 1
    BY FS_Interval
  <2> QED BY <2>1, <2>2, <2>3 DEF Ids
<1>2. IsFiniteSet(SUBSET Ids) /\ Cardinality(SUBSET Ids) = 2 ^ InputNum
  BY <1>1, FS_SUBSET
<1>3. \A S \in SUBSET Ids : g[S] \in AllPatterns
  BY DEF AllPatterns, PatternsOn, Bit
<1>4. ASSUME NEW S \in SUBSET Ids, NEW T \in SUBSET Ids, g[S] = g[T] PROVE S = T
  <2>1. \A k \in Ids : g[S][k] = g[T][k]
    BY <1>4
  <2>2. \A k \in Ids : k \in S <=> k \in T
    BY <2>1
  <2> QED BY <2>2
<1>5. ASSUME NEW p \in AllPatterns PROVE \E S \in SUBSET Ids : g[S] = p
  <2> DEFINE S == {k \in Ids : p[k] = "1"}
  <2>1. p \in [Ids -> {"0", "1"}]
    BY DEF AllPatterns, PatternsOn, Bit
  <2>2. g[S] = p
    BY <2>1
  <2> QED BY <2>2
<1>6. ExistsBijection(SUBSET Ids, AllPatterns)
  <2>1. g \in [SUBSET Ids -> AllPatterns]
    BY <1>3
  <2> HIDE DEF g
  <2>2. g \in Bijection(SUBSET Ids, AllPatterns)
    BY <1>4, <1>5, <2>1 DEF Bijection, Injection, Surjection, IsInjective
  <2> QED BY <2>2 DEF ExistsBijection
<1> QED BY <1>2, <1>6, FS_Bijection

(* Every pattern drawn keeps the slot it was drawn for first.              *)
OwnSlots == \A p \in DOMAIN ppp : ppp[p] \in 0 .. i - 1 /\ slots[ppp[p]] = p

LEMMA OwnSlotsNext == Loops /\ OwnSlots /\ [Next]_vars => OwnSlots'
<1> SUFFICES ASSUME Loops, OwnSlots, [Next]_vars PROVE OwnSlots'
  OBVIOUS
<1>0. i \in Int /\ 0 <= i /\ i <= PatternNum /\ PatternNum \in Nat
  BY LoopsMeet, SizesAssumption DEF Loops
<1>1. ASSUME NEW p \in AllPatterns, Draw(p) PROVE OwnSlots'
  <2>1. i \in Slots /\ slots' = [slots EXCEPT ![i] = p]
    BY <1>0, <1>1, LoopsMeet DEF Draw, Slots, Loops
  <2>2. slots'[i] = p /\ \A r \in 0 .. i - 1 : slots'[r] = slots[r]
    BY <1>0, <2>1 DEF Loops, Slots
  <2>3. CASE p \in DOMAIN ppp
    <3>1. ppp' = ppp /\ i' = i
      BY <1>1, <2>3 DEF Draw
    <3> QED BY <2>2, <3>1 DEF OwnSlots
  <2>4. CASE p \notin DOMAIN ppp
    <3>1. /\ \A q : q \in DOMAIN ppp' <=> q \in DOMAIN ppp \/ q = p
          /\ ppp'[p] = i
          /\ \A q \in DOMAIN ppp : ppp'[q] = ppp[q]
          /\ i' = i + 1
      BY <1>1, <2>4 DEF Draw
    <3>2. ASSUME NEW q \in DOMAIN ppp PROVE ppp'[q] \in 0 .. i' - 1 /\ slots'[ppp'[q]] = q
      <4>1. ppp[q] \in 0 .. i - 1 /\ slots[ppp[q]] = q
        BY DEF OwnSlots
      <4> QED BY <1>0, <2>2, <3>1, <4>1
    <3>3. ppp'[p] \in 0 .. i' - 1 /\ slots'[ppp'[p]] = p
      BY <1>0, <2>2, <3>1
    <3> QED BY <3>1, <3>2, <3>3 DEF OwnSlots
  <2> QED BY <2>3, <2>4
<1>2. CASE NextLoop
  <2>1. loop \in 1 .. 2 /\ loop' = loop + 1 /\ i' = First(loop + 1) /\ i >= Past(loop)
        /\ UNCHANGED <<slots, ppp>>
    BY <1>2 DEF NextLoop, Loops
  <2>2. i' = i
    BY <1>0, <2>1, LoopsMeet DEF Loops
  <2> QED BY <2>1, <2>2 DEF OwnSlots
<1>3. CASE RunTools \/ Compare \/ Exit \/ UNCHANGED vars
  BY <1>3 DEF RunTools, Compare, Exit, vars, OwnSlots
<1> QED BY <1>1, <1>2, <1>3 DEF Next

LEMMA BothAlways == Spec => [](Loops /\ OwnSlots)
<1>1. Init => OwnSlots
  BY DEF Init, OwnSlots
<1> QED BY <1>1, LoopsInit, LoopsNext, OwnSlotsNext, PTL DEF Spec

(* The counter is the number of patterns drawn.                            *)
LEMMA CounterCounts ==
  ASSUME Loops, OwnSlots
  PROVE  /\ i \in Nat /\ i = Cardinality(DOMAIN ppp)
         /\ i <= Cardinality(AllPatterns)
         /\ i = Cardinality(AllPatterns) => DOMAIN ppp = AllPatterns
<1> DEFINE D == DOMAIN ppp
           f == [r \in 0 .. i - 1 |-> slots[r]]
<1>1. i \in Nat
  BY LoopsMeet DEF Loops
<1>2. f \in [0 .. i - 1 -> D]
  BY DEF Loops
<1>3. ASSUME NEW r \in 0 .. i - 1, NEW s \in 0 .. i - 1, f[r] = f[s] PROVE r = s
  <2>1. slots[r] = slots[s] /\ ppp[slots[r]] = r /\ ppp[slots[s]] = s
    BY <1>3 DEF Loops
  <2> QED BY <2>1
<1>4. ASSUME NEW p \in D PROVE \E r \in 0 .. i - 1 : f[r] = p
  BY DEF OwnSlots
<1>5. f \in Bijection(0 .. i - 1, D)
  <2> HIDE DEF f
  <2> QED BY <1>2, <1>3, <1>4 DEF Bijection, Injection, Surjection, IsInjective
<1>6. IsFiniteSet(0 .. i - 1) /\ Cardinality(0 .. i - 1) = i
  <2>1. PICK v \in Int : v = i - 1
    BY <1>1
  <2>2. IsFiniteSet(0 .. v) /\ Cardinality(0 .. v) = IF 0 > v THEN 0 ELSE v - 0 + 1
    BY FS_Interval
  <2> QED BY <1>1, <2>1, <2>2
<1>7. IsFiniteSet(D) /\ Cardinality(D) = i
  <2>1. ExistsBijection(0 .. i - 1, D)
    BY <1>5 DEF ExistsBijection
  <2> HIDE DEF D
  <2> QED BY <1>6, <2>1, FS_Bijection
<1>8. D \subseteq AllPatterns /\ IsFiniteSet(AllPatterns)
  BY PatternCount DEF Loops
<1>9. /\ Cardinality(D) <= Cardinality(AllPatterns)
      /\ Cardinality(AllPatterns) = Cardinality(D) => AllPatterns = D
  <2> HIDE DEF D
  <2> QED BY <1>8, FS_Subset
<1> QED BY <1>1, <1>7, <1>9

NeverSimulates == pc = "draw"

(* With fewer patterns than are asked for the three loops never come to    *)
(* their end, however the numbers fall: nothing is simulated or compared.  *)
THEOREM TooFewPatternsNeverEnd ==
  ASSUME 2 ^ InputNum < PatternNum
  PROVE  Spec => []NeverSimulates
<1>1. Init => NeverSimulates
  BY DEF Init, NeverSimulates
<1>2. Cardinality(AllPatterns) < PatternNum
  BY PatternCount
<1>3. ASSUME Loops /\ OwnSlots, NeverSimulates, [Next]_vars PROVE NeverSimulates'
  <2>1. ~ RunTools
    <3>1. i \in Nat /\ i <= Cardinality(AllPatterns) /\ Cardinality(AllPatterns) \in Nat
      BY <1>3, CounterCounts, PatternCount, FS_CardinalityType
    <3> QED BY <1>2, <3>1, LoopsMeet, SizesAssumption DEF RunTools
  <2> QED BY <1>3, <2>1 DEF NeverSimulates, Next, Draw, NextLoop, Compare, Exit, vars
<1> QED BY <1>1, <1>3, BothAlways, PTL DEF Spec

UndrawnLeft == pc = "draw" /\ i < Past(loop) => AllPatterns \ DOMAIN ppp # {}

(* With as many patterns as are asked for, or more, no loop that goes on   *)
(* is ever without a pattern not drawn yet.                                *)
THEOREM EnoughPatternsNeverRunOut ==
  ASSUME PatternNum <= 2 ^ InputNum
  PROVE  Spec => []UndrawnLeft
<1>1. PatternNum <= Cardinality(AllPatterns)
  BY PatternCount
<1>2. ASSUME Loops /\ OwnSlots, i < Past(loop), AllPatterns \ DOMAIN ppp = {} PROVE FALSE
  <2>1. i < PatternNum
    BY <1>2, LoopsMeet, SizesAssumption DEF Loops
  <2>2. DOMAIN ppp = AllPatterns
    BY <1>2 DEF Loops
  <2>3. i = Cardinality(AllPatterns) /\ i \in Nat
    BY <1>2, <2>2, CounterCounts
  <2> QED BY <1>1, <2>1, <2>3, SizesAssumption
<1>3. Loops /\ OwnSlots => UndrawnLeft
  BY <1>2 DEF UndrawnLeft
<1> QED BY <1>3, BothAlways, PTL

-----------------------------------------------------------------------------
(* Reading and counting.                                                   *)

(* Each row of a file is found by dividing.                                *)
LEMMA Divided ==
  ASSUME NEW W \in Nat \ {0}, NEW r \in Nat, NEW c \in 0 .. W - 1
  PROVE  /\ r * W + c \in Nat
         /\ (r * W + c) \div W = r
         /\ (r * W + c) % W = c
         /\ r * W + c < (r + 1) * W
<1> DEFINE t == r * W + c
           q == t \div W
           m == t % W
<1>1. t \in Nat /\ r * W \in Nat /\ (r + 1) * W = r * W + W
  OBVIOUS
<1>2. q \in Int /\ m \in 0 .. W - 1 /\ t = W * q + m
  BY <1>1
<1> HIDE DEF q, m
<1>3. W * (q - r) = c - m
  BY <1>1, <1>2
<1>4. ~ (q - r >= 1)
  <2> SUFFICES ASSUME q - r >= 1 PROVE FALSE
    OBVIOUS
  <2>1. W * (q - r) >= W
    BY <1>2
  <2> QED BY <1>2, <1>3, <2>1
<1>5. ~ (q - r <= -1)
  <2> SUFFICES ASSUME q - r <= -1 PROVE FALSE
    OBVIOUS
  <2>1. W * (q - r) <= -W
    BY <1>2
  <2> QED BY <1>2, <1>3, <2>1
<1>6. q = r
  BY <1>2, <1>4, <1>5
<1>7. m = c
  BY <1>2, <1>3, <1>6
<1> QED BY <1>1, <1>6, <1>7 DEF q, m

(* Sets that agree outside of L differ by L's size at most.                *)
LEMMA FewMore ==
  ASSUME NEW S, IsFiniteSet(S), NEW A \in SUBSET S, NEW B \in SUBSET S,
         NEW L \in SUBSET S, A \subseteq B \union L
  PROVE  Cardinality(A) <= Cardinality(B) + Cardinality(L)
<1>1. IsFiniteSet(B) /\ IsFiniteSet(L)
  BY FS_Subset
<1>2. /\ IsFiniteSet(B \union L)
      /\ Cardinality(B \union L) =
           Cardinality(B) + Cardinality(L) - Cardinality(B \cap L)
  BY <1>1, FS_Union
<1>3. Cardinality(A) <= Cardinality(B \union L)
  BY <1>2, FS_Subset
<1>4. IsFiniteSet(B \cap L)
  BY <1>1, FS_Subset
<1>5. IsFiniteSet(A)
  BY FS_Subset
<1>6. /\ Cardinality(A) \in Nat /\ Cardinality(B) \in Nat
      /\ Cardinality(L) \in Nat /\ Cardinality(B \cap L) \in Nat
  BY <1>1, <1>4, <1>5, FS_CardinalityType
<1> QED BY <1>2, <1>3, <1>6

LEMMA NearlyEqual ==
  ASSUME NEW S, IsFiniteSet(S), NEW A \in SUBSET S, NEW B \in SUBSET S,
         NEW L \in SUBSET S, \A r \in S \ L : r \in A <=> r \in B
  PROVE  Near(Cardinality(A), Cardinality(B), Cardinality(L))
<1>1. A \subseteq B \union L /\ B \subseteq A \union L
  OBVIOUS
<1>2. /\ Cardinality(A) <= Cardinality(B) + Cardinality(L)
      /\ Cardinality(B) <= Cardinality(A) + Cardinality(L)
  BY <1>1, FewMore
<1>3. IsFiniteSet(A) /\ IsFiniteSet(B) /\ IsFiniteSet(L)
  BY FS_Subset
<1>4. Cardinality(A) \in Nat /\ Cardinality(B) \in Nat /\ Cardinality(L) \in Nat
  BY <1>3, FS_CardinalityType
<1> QED BY <1>2, <1>4 DEF Near

(* What was written to a row is what is read from it, unless it was lost.  *)
LEMMA KeptRowsRead ==
  ASSUME NEW n \in Netlists, NEW r \in Slots \ RowsLost(n), NEW o \in POs,
         NEW s \in {n, "iogen"}, written \in [Sources -> Int]
  PROVE  OutputBit(s, r, o) = circuit[s][Row(r)][o]
<1> DEFINE W == Width(s)
           c == (IF s = "iogen" THEN InputNum ELSE 0) + o
           t == r * W + c
<1>1. W \in Nat \ {0} /\ c \in 0 .. W - 1 /\ r \in Nat
  BY SizesAssumption DEF Width, POs, Slots
<1>2. ~ (r + 1) * W > written[s]
  BY DEF RowsLost
<1>3. s \in Sources /\ written[s] \in Int
  BY DEF Sources
<1>4. OutputBit(s, r, o) = ReadBit(s, t)
  BY <1>1, SizesAssumption DEF OutputBit, POs
<1> HIDE DEF c, W
<1>5. t \in Nat /\ t \div W = r /\ t % W = c /\ t < (r + 1) * W
  BY <1>1, Divided
<1>6. (r + 1) * W \in Int
  BY <1>1
<1>7. t < written[s]
  BY <1>2, <1>3, <1>5, <1>6
<1>8. ReadBit(s, t) = Token(s, t)
  BY <1>7 DEF ReadBit
<1>9. Token(s, t) = circuit[s][Row(r)][o]
  <2> HIDE DEF t
  <2>1. CASE s = "iogen"
    <3>1. ~ c < InputNum /\ c - InputNum = o
      BY <2>1, SizesAssumption DEF c, POs
    <3> QED BY <1>5, <2>1, <3>1 DEF Token, W
  <2>2. CASE s # "iogen"
    <3>1. c = o
      BY <2>2, SizesAssumption DEF c, POs
    <3> QED BY <1>5, <2>2, <3>1 DEF Token, W
  <2> QED BY <2>1, <2>2
<1> QED BY <1>4, <1>8, <1>9

(* The figures are those of the comparison.                                *)
Figures ==
  /\ written \in [Sources -> Int]
  /\ pc = "done" =>
       /\ correct = [n \in Netlists |-> Cardinality(RowsCorrect(n))]
       /\ bits = [n \in Netlists |->
                    [o \in POs |-> Cardinality({r \in Slots : Agree(n, r, o)})]]

(* What is counted depends on the circuits, the slots and the files only.  *)
LEMMA CountedTheSame ==
  ASSUME UNCHANGED <<circuit, word, slots, written>>
  PROVE  /\ \A n \in Netlists : RowsCorrect(n)' = RowsCorrect(n)
         /\ \A n \in Netlists, o \in POs :
              {r \in Slots : Agree(n, r, o)}' = {r \in Slots : Agree(n, r, o)}
<1>1. ASSUME NEW s, NEW t PROVE Token(s, t)' = Token(s, t)
  BY DEF Token, Row
<1>2. ASSUME NEW s, NEW r, NEW o PROVE OutputBit(s, r, o)' = OutputBit(s, r, o)
  BY <1>1 DEF OutputBit, ReadBit, NothingRead
<1>3. ASSUME NEW n, NEW r, NEW o PROVE Agree(n, r, o)' <=> Agree(n, r, o)
  BY <1>2 DEF Agree
<1> QED BY <1>3 DEF RowsCorrect

LEMMA FiguresNext == Figures /\ [Next]_vars => Figures'
<1> SUFFICES ASSUME Figures, [Next]_vars PROVE Figures'
  OBVIOUS
<1>1. CASE pc' # "done"
  <2>1. CASE RunTools
    BY <1>1, <2>1 DEF RunTools, Figures
  <2>2. CASE ~ RunTools
    <3>1. written' = written
      BY <2>2 DEF Next, Draw, NextLoop, Compare, Exit, vars
    <3> QED BY <1>1, <3>1 DEF Figures
  <2> QED BY <2>1, <2>2
<1>2. CASE Compare
  <2>1. UNCHANGED <<circuit, word, slots, written>>
    BY <1>2 DEF Compare
  <2>2. /\ \A n \in Netlists : RowsCorrect(n)' = RowsCorrect(n)
        /\ \A n \in Netlists, o \in POs :
             {r \in Slots : Agree(n, r, o)}' = {r \in Slots : Agree(n, r, o)}
    BY <2>1, CountedTheSame
  <2> QED BY <1>2, <2>1, <2>2 DEF Compare, Figures
<1>3. CASE UNCHANGED vars
  <2>1. UNCHANGED <<circuit, word, slots, pc, written, correct, bits>>
    BY <1>3 DEF vars
  <2>2. /\ \A n \in Netlists : RowsCorrect(n)' = RowsCorrect(n)
        /\ \A n \in Netlists, o \in POs :
             {r \in Slots : Agree(n, r, o)}' = {r \in Slots : Agree(n, r, o)}
    BY <2>1, CountedTheSame
  <2> QED BY <2>1, <2>2 DEF Figures
<1>4. ASSUME Next, ~ Compare PROVE pc' # "done"
  BY <1>4 DEF Next, Draw, NextLoop, RunTools, Exit
<1> QED BY <1>1, <1>2, <1>3, <1>4

LEMMA FiguresNear == Figures => CountsOffByLostRows
<1> SUFFICES ASSUME Figures, pc = "done", NEW n \in Netlists
             PROVE  LET lost == Cardinality(RowsLost(n))
                    IN  /\ Near(correct[n], Cardinality({r \in Slots :
                                  \A o \in POs : RightOn(n, r, o)}), lost)
                        /\ \A o \in POs :
                             Near(bits[n][o],
                                  Cardinality({r \in Slots : RightOn(n, r, o)}), lost)
  BY DEF CountsOffByLostRows
<1>1. IsFiniteSet(Slots)
  <2>1. 0 \in Int /\ PatternNum - 1 \in Int
    BY SizesAssumption
  <2> QED BY <2>1, FS_Interval DEF Slots
<1>2. RowsLost(n) \in SUBSET Slots
  BY DEF RowsLost
<1>3. \A r \in Slots \ RowsLost(n), o \in POs : Agree(n, r, o) <=> RightOn(n, r, o)
  <2> SUFFICES ASSUME NEW r \in Slots \ RowsLost(n), NEW o \in POs
               PROVE  Agree(n, r, o) <=> RightOn(n, r, o)
    OBVIOUS
  <2>1. OutputBit(n, r, o) = circuit[n][Row(r)][o]
    BY KeptRowsRead DEF Figures
  <2>2. OutputBit("iogen", r, o) = circuit["iogen"][Row(r)][o]
    BY KeptRowsRead DEF Figures
  <2> QED BY <2>1, <2>2 DEF Agree, RightOn
<1>4. Near(correct[n], Cardinality({r \in Slots : \A o \in POs : RightOn(n, r, o)}),
           Cardinality(RowsLost(n)))
  <2> DEFINE A == {r \in Slots : \A o \in POs : Agree(n, r, o)}
             B == {r \in Slots : \A o \in POs : RightOn(n, r, o)}
  <2>1. \A r \in Slots \ RowsLost(n) : r \in A <=> r \in B
    BY <1>3
  <2>2. correct[n] = Cardinality(A)
    BY DEF Figures, RowsCorrect
  <2>3. A \in SUBSET Slots /\ B \in SUBSET Slots
    OBVIOUS
  <2> HIDE DEF A, B
  <2>4. Near(Cardinality(A), Cardinality(B), Cardinality(RowsLost(n)))
    BY <1>1, <1>2, <2>1, <2>3, NearlyEqual
  <2> QED BY <2>2, <2>4 DEF B
<1>5. ASSUME NEW o \in POs
      PROVE  Near(bits[n][o], Cardinality({r \in Slots : RightOn(n, r, o)}),
                  Cardinality(RowsLost(n)))
  <2> DEFINE A == {r \in Slots : Agree(n, r, o)}
             B == {r \in Slots : RightOn(n, r, o)}
  <2>1. \A r \in Slots \ RowsLost(n) : r \in A <=> r \in B
    BY <1>3
  <2>2. bits[n][o] = Cardinality(A)
    BY DEF Figures
  <2>3. A \in SUBSET Slots /\ B \in SUBSET Slots
    OBVIOUS
  <2> HIDE DEF A, B
  <2>4. Near(Cardinality(A), Cardinality(B), Cardinality(RowsLost(n)))
    BY <1>1, <1>2, <2>1, <2>3, NearlyEqual
  <2> QED BY <2>2, <2>4 DEF B
<1> QED BY <1>4, <1>5

(* The rest of the types: a count is of slots.                             *)
Counts ==
  /\ circuit \in [Sources -> Circuits]
  /\ word \in Bit
  /\ written \in [Sources -> Int]
  /\ \A s \in Sources : written[s] \in -1 .. PatternNum * Width(s)
  /\ correct \in [Netlists -> 0 .. PatternNum]
  /\ bits \in [Netlists -> [POs -> 0 .. PatternNum]]

LEMMA SlotsCounted ==
  ASSUME NEW R \in SUBSET Slots PROVE Cardinality(R) \in 0 .. PatternNum
<1>1. PatternNum \in Nat /\ 0 \in Int /\ PatternNum - 1 \in Int
  BY SizesAssumption
<1>2. IsFiniteSet(Slots)
        /\ Cardinality(Slots) = IF 0 > PatternNum - 1 THEN 0 ELSE (PatternNum - 1) - 0 + 1
  BY <1>1, FS_Interval DEF Slots
<1>3. IsFiniteSet(R) /\ Cardinality(R) <= Cardinality(Slots)
  BY <1>2, FS_Subset
<1>4. Cardinality(R) \in Nat
  BY <1>3, FS_CardinalityType
<1> QED BY <1>1, <1>2, <1>3, <1>4

LEMMA CountsInit == Init => Counts
<1> SUFFICES ASSUME Init PROVE Counts
  OBVIOUS
<1>1. ASSUME NEW s \in Sources PROVE written[s] \in -1 .. PatternNum * Width(s)
  <2>1. Width(s) \in Nat /\ PatternNum \in Nat
    BY SizesAssumption DEF Width
  <2>2. PatternNum * Width(s) \in Nat
    BY <2>1
  <2> QED BY <1>1, <2>2 DEF Init
<1>2. 0 \in 0 .. PatternNum
  BY SizesAssumption
<1> QED BY <1>1, <1>2 DEF Init, Counts

LEMMA CountsNext == Counts /\ [Next]_vars => Counts'
<1> SUFFICES ASSUME Counts, [Next]_vars PROVE Counts'
  OBVIOUS
<1> USE DEF Counts
<1>1. CASE RunTools
  <2> DEFINE Bits == -1 .. PatternNum * Width("iogen")
  <2>1. /\ written' \in [Sources -> Bits]
        /\ \A s \in Sources : written'[s] <= PatternNum * Width(s)
    BY <1>1 DEF RunTools
  <2>2. Bits \subseteq Int /\ \A k \in Bits : -1 <= k
    <3>1. PatternNum * Width("iogen") \in Int
      BY SizesAssumption DEF Width
    <3> QED BY <3>1
  <2>3. ASSUME NEW s \in Sources PROVE PatternNum * Width(s) \in Int
    BY SizesAssumption DEF Width
  <2> HIDE DEF Bits
  <2>4. ASSUME NEW s \in Sources PROVE written'[s] \in -1 .. PatternNum * Width(s)
    <3>1. written'[s] \in Bits /\ written'[s] <= PatternNum * Width(s)
      BY <2>1
    <3>2. written'[s] \in Int /\ -1 <= written'[s]
      BY <2>2, <3>1
    <3> DEFINE top == PatternNum * Width(s)
    <3>3. top \in Int /\ written'[s] <= top
      BY <2>3, <3>1
    <3> HIDE DEF top
    <3>4. written'[s] \in -1 .. top
      BY <3>2, <3>3
    <3> QED BY <3>4 DEF top
  <2>5. written' \in [Sources -> Int]
    BY <2>1, <2>2
  <2> QED BY <1>1, <2>4, <2>5 DEF RunTools, Width
<1>2. CASE Compare
  <2>1. ASSUME NEW n \in Netlists PROVE Cardinality(RowsCorrect(n)) \in 0 .. PatternNum
    BY SlotsCounted DEF RowsCorrect
  <2>2. ASSUME NEW n \in Netlists, NEW o \in POs
        PROVE  Cardinality({r \in Slots : Agree(n, r, o)}) \in 0 .. PatternNum
    BY SlotsCounted
  <2>3. /\ correct' \in [Netlists -> 0 .. PatternNum]
        /\ bits' \in [Netlists -> [POs -> 0 .. PatternNum]]
    BY <1>2, <2>1, <2>2 DEF Compare
  <2> QED BY <1>2, <2>3 DEF Compare, Width
<1>3. CASE UNCHANGED <<circuit, word, written, correct, bits>>
  BY <1>3 DEF Width
<1> QED BY <1>1, <1>2, <1>3 DEF Next, Draw, NextLoop, Exit, vars

(* Every slot holds a pattern, no loop leaves the slots, and the counts    *)
(* are of slots.                                                           *)
THEOREM TypeCorrect == Spec => []TypeOK
<1>1. Loops /\ Counts => TypeOK
  <2> SUFFICES ASSUME Loops, Counts PROVE TypeOK
    OBVIOUS
  <2>1. i \in Int /\ i <= PatternNum
    BY LoopsMeet, SizesAssumption DEF Loops
  <2> QED BY <2>1 DEF Loops, Counts, TypeOK
<1> QED BY <1>1, LoopsInit, LoopsNext, CountsInit, CountsNext, PTL DEF Spec

(* The accuracies printed are off by no more than the rows a tool that     *)
(* ended early left out, wherever in a row or a file it ended.             *)
THEOREM AccuraciesNearlyExact == Spec => []CountsOffByLostRows
<1>1. Init => Figures
  BY DEF Init, Figures
<1> QED BY <1>1, FiguresNext, FiguresNear, PTL DEF Spec
=============================================================================
