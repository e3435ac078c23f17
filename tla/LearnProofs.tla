---------------------------- MODULE LearnProofs ----------------------------
(***************************************************************************)
(* Proofs about TruthTable and Learn, for every number of inputs and       *)
(* outputs, every black box, all ratios and limits, every pattern of iogen *)
(* failures and every choice of tests.                                     *)
(*                                                                         *)
(* Building: the inputs kept can be numbered, by how many are ahead of     *)
(* each, with numbers below up_limit, so there are no more than that; the  *)
(* rows count through all settings of them, each equally often; a table    *)
(* repeats, for each row it was made of, the answer to a row with the same *)
(* kept inputs, whosever file it was.  Fixing: what FixNetworkProofs shows *)
(* holds of the circuit that was built, and the two are put together.      *)
(***************************************************************************)
EXTENDS Learn, FiniteSetTheorems, SequenceTheorems, WellFoundedInduction, TLAPS

-----------------------------------------------------------------------------
(* Powers of two and binary digits, by the least counterexample.           *)

LEMMA Least ==
  ASSUME NEW T \in SUBSET Nat, T # {}
  PROVE  \E x \in T : \A y \in T : x <= y
<1>1. IsWellFoundedOn(OpToRel(<, Nat), Nat)
  BY NatLessThanWellFounded
<1>2. \E x \in T : \A y \in T : ~ (<<y, x>> \in OpToRel(<, Nat))
  BY <1>1, WFMin
<1>3. \E x \in T : \A y \in T : ~ (x \in Nat /\ y \in Nat /\ y < x)
  BY <1>2 DEF OpToRel
<1> QED BY <1>3

(* The beginnings of the powers of two.                                    *)
IsPow2(g, n) ==
  /\ g \in [0 .. n -> Nat \ {0}]
  /\ g[0] = 1
  /\ \A i \in 1 .. n : g[i] = 2 * g[i - 1]

LEMMA SomePow2 == \A n \in Nat : \E g : IsPow2(g, n)
<1> DEFINE T == {n \in Nat : ~ \E g : IsPow2(g, n)}
<1> SUFFICES ASSUME T # {} PROVE FALSE
  OBVIOUS
<1>1. PICK n \in T : \A m \in T : n <= m
  <2>1. T \subseteq Nat
    OBVIOUS
  <2> HIDE DEF T
  <2> QED BY <2>1, Least
<1>2. CASE n = 0
  <2>1. IsPow2([i \in 0 .. 0 |-> 1], 0)
    BY DEF IsPow2
  <2> QED BY <1>2, <2>1
<1>3. CASE n # 0
  <2>1. n - 1 \in Nat /\ n - 1 \notin T
    BY <1>1, <1>3
  <2>2. PICK g : IsPow2(g, n - 1)
    BY <2>1
  <2> DEFINE h == [i \in 0 .. n |-> IF i = n THEN 2 * g[n - 1] ELSE g[i]]
  <2>3. /\ \A i \in 0 .. n - 1 : g[i] \in Nat \ {0}
        /\ \A i \in 1 .. n - 1 : g[i] = 2 * g[i - 1]
        /\ g[0] = 1
    BY <2>2 DEF IsPow2
  <2>4. /\ \A i \in 0 .. n - 1 : h[i] = g[i]
        /\ h[n] = 2 * g[n - 1]
    BY <2>1
  <2>5. h \in [0 .. n -> Nat \ {0}]
    BY <2>1, <2>3
  <2>6. \A i \in 1 .. n : h[i] = 2 * h[i - 1]
    <3> SUFFICES ASSUME NEW i \in 1 .. n PROVE h[i] = 2 * h[i - 1]
      OBVIOUS
    <3>1. i \in 0 .. n /\ i - 1 \in 0 .. n - 1 /\ n - 1 \in 0 .. n - 1
      BY <2>1
    <3>2. CASE i = n
      BY <2>4, <3>1, <3>2
    <3>3. CASE i # n
      <4>1. i \in 1 .. n - 1 /\ i \in 0 .. n - 1
        BY <2>1, <3>3
      <4> HIDE DEF h
      <4> QED BY <2>3, <2>4, <3>1, <4>1
    <3> QED BY <3>2, <3>3
  <2>7. h[0] = 1
    BY <2>1, <2>3
  <2>8. IsPow2(h, n)
    <3> HIDE DEF h
    <3> QED BY <2>5, <2>6, <2>7 DEF IsPow2
  <2> QED BY <2>8
<1> QED BY <1>2, <1>3

LEMMA SamePow2 ==
  ASSUME NEW m \in Nat, NEW n \in Nat, NEW g, NEW h, IsPow2(g, m), IsPow2(h, n)
  PROVE  \A i \in Nat : i <= m /\ i <= n => g[i] = h[i]
<1> DEFINE T == {i \in Nat : i <= m /\ i <= n /\ g[i] # h[i]}
<1> SUFFICES ASSUME T # {} PROVE FALSE
  OBVIOUS
<1>1. PICK i \in T : \A j \in T : i <= j
  <2>1. T \subseteq Nat
    OBVIOUS
  <2> HIDE DEF T
  <2> QED BY <2>1, Least
<1>2. i # 0
  BY DEF IsPow2
<1>3. i - 1 \in Nat /\ i - 1 \notin T
  BY <1>1, <1>2
<1>4. i \in 1 .. m /\ i \in 1 .. n /\ g[i - 1] = h[i - 1]
  BY <1>2, <1>3
<1>5. g[i] = 2 * g[i - 1] /\ h[i] = 2 * h[i - 1]
  BY <1>4 DEF IsPow2
<1> QED BY <1>4, <1>5

LEMMA Pow2Recursion ==
  /\ Pow2[0] = 1
  /\ \A n \in Nat : Pow2[n] \in Nat \ {0} /\ Pow2[n + 1] = 2 * Pow2[n]
<1> DEFINE G(n) == CHOOSE g : IsPow2(g, n)
           f == [n \in Nat |-> G(n)[n]]
           D(g) == [n \in Nat |-> IF n = 0 THEN 1 ELSE 2 * g[n - 1]]
<1>1. \A n \in Nat : IsPow2(G(n), n)
  BY SomePow2
<1>2. ASSUME NEW n \in Nat \ {0} PROVE f[n] = 2 * f[n - 1]
  <2>1. n - 1 \in Nat /\ n \in 1 .. n
    OBVIOUS
  <2>2. IsPow2(G(n), n) /\ IsPow2(G(n - 1), n - 1)
    BY <1>1, <2>1
  <2> HIDE DEF G
  <2>3. G(n)[n - 1] = G(n - 1)[n - 1]
    BY <2>1, <2>2, SamePow2
  <2>4. G(n)[n] = 2 * G(n)[n - 1]
    BY <2>1, <2>2 DEF IsPow2
  <2> QED BY <2>1, <2>3, <2>4
<1>3. f[0] = 1
  <2>1. IsPow2(G(0), 0)
    BY <1>1
  <2> HIDE DEF G
  <2> QED BY <2>1 DEF IsPow2
<1>4. f = D(f)
  <2> HIDE DEF G
  <2>1. \A n \in Nat : f[n] = IF n = 0 THEN 1 ELSE 2 * f[n - 1]
    BY <1>2, <1>3
  <2> QED BY <2>1
<1>5. Pow2 = D(Pow2)
  <2> HIDE DEF f
  <2> QED BY <1>4 DEF Pow2
<1>6. \A n \in Nat : Pow2[n] = IF n = 0 THEN 1 ELSE 2 * Pow2[n - 1]
  BY <1>5
<1>7. ASSUME NEW n \in Nat PROVE Pow2[n + 1] = 2 * Pow2[n]
  BY <1>6
<1>8. Pow2[0] = 1
  BY <1>6
<1>9. \A n \in Nat : Pow2[n] \in Nat \ {0}
  <2> DEFINE T == {n \in Nat : Pow2[n] \notin Nat \ {0}}
  <2> SUFFICES ASSUME T # {} PROVE FALSE
    OBVIOUS
  <2>1. PICK n \in T : \A m \in T : n <= m
    <3>1. T \subseteq Nat
      OBVIOUS
    <3> HIDE DEF T
    <3> QED BY <3>1, Least
  <2>2. n # 0
    BY <1>8
  <2>3. n - 1 \in Nat /\ Pow2[n - 1] \in Nat \ {0}
    BY <2>1, <2>2
  <2>4. Pow2[n] = 2 * Pow2[n - 1]
    BY <1>7, <2>3
  <2> QED BY <2>3, <2>4
<1> QED BY <1>7, <1>8, <1>9

(* Division has one quotient and one rest.                                 *)
LEMMA Divided ==
  ASSUME NEW W \in Nat \ {0}, NEW r \in Nat, NEW c \in 0 .. W - 1
  PROVE  (r * W + c) \div W = r
<1> DEFINE t == r * W + c
           q == t \div W
           m == t % W
<1>1. t \in Nat /\ r * W \in Nat /\ (r + 1) * W = r * W + W
  OBVIOUS
<1>2. q \in Int /\ m \in 0 .. W - 1 /\ t = W * q + m
  BY <1>1
<1> HIDE DEF q, m
<1>3. W * (q - r) = c - m
  BY <1>1, <1>2
<1>4. ~ (q - r >= 1)
  <2> SUFFICES ASSUME q - r >= 1 PROVE FALSE
    OBVIOUS
  <2>1. W * (q - r) >= W
    BY <1>2
  <2> QED BY <1>2, <1>3, <2>1
<1>5. ~ (q - r <= -1)
  <2> SUFFICES ASSUME q - r <= -1 PROVE FALSE
    OBVIOUS
  <2>1. W * (q - r) <= -W
    BY <1>2
  <2> QED BY <1>2, <1>3, <2>1
<1>6. q = r
  BY <1>2, <1>4, <1>5
<1> QED BY <1>6 DEF q

LEMMA Halved ==
  ASSUME NEW i \in Nat, NEW m \in Nat \ {0}
  PROVE  (i \div 2) \div m = i \div (2 * m)
<1> DEFINE h == i \div 2
           e == i % 2
           q == h \div m
           r == h % m
<1>1. h \in Nat /\ e \in 0 .. 1 /\ i = 2 * h + e
  OBVIOUS
<1> HIDE DEF h, e
<1>2. q \in Nat /\ r \in 0 .. m - 1 /\ h = m * q + r
  BY <1>1
<1> HIDE DEF q, r
<1>3. PICK W \in Nat \ {0} : W = 2 * m
  OBVIOUS
<1>4. 2 * r + e \in 0 .. W - 1
  BY <1>1, <1>2, <1>3
<1>5. i = q * W + (2 * r + e)
  <2>1. q * W = 2 * (m * q)
    BY <1>2, <1>3
  <2> QED BY <1>1, <1>2, <2>1
<1>6. i \div W = q
  BY <1>2, <1>4, <1>5, Divided
<1> QED BY <1>3, <1>6 DEF q, h

(* How many of the numbers of L digits have the n given ones last: all     *)
(* settings of n digits are found, and equally often.                      *)
Ending(n, b, L) ==
  {i \in 0 .. Pow2[L] - 1 : \A c \in 0 .. n - 1 : (i \div Pow2[c]) % 2 = b[c]}

LEMMA EndingShifted ==
  ASSUME NEW n \in Nat, NEW b \in [0 .. n -> 0 .. 1], NEW L \in Nat, NEW i \in Nat
  PROVE  i \in Ending(n + 1, b, L + 1) <=>
           i % 2 = b[0] /\ i \div 2 \in Ending(n, [c \in 0 .. n - 1 |-> b[c + 1]], L)
<1> DEFINE d == [c \in 0 .. n - 1 |-> b[c + 1]]
<1>1. PICK W \in Nat \ {0} : W = Pow2[L] /\ Pow2[L + 1] = 2 * W
  BY Pow2Recursion
<1>2. i \in 0 .. 2 * W - 1 <=> i \div 2 \in 0 .. W - 1
  OBVIOUS
<1>3. ASSUME NEW c \in 0 .. n - 1
      PROVE  (i \div Pow2[c + 1]) % 2 = b[c + 1] <=> ((i \div 2) \div Pow2[c]) % 2 = d[c]
  <2>0. c \in Nat
    OBVIOUS
  <2>1. Pow2[c] \in Nat \ {0} /\ Pow2[c + 1] = 2 * Pow2[c]
    BY <2>0, Pow2Recursion
  <2>2. (i \div 2) \div Pow2[c] = i \div Pow2[c + 1]
    BY <2>1, Halved
  <2> QED BY <2>2
<1>4. (i \div Pow2[0]) % 2 = i % 2
  BY Pow2Recursion
<1>5. (\A c \in 0 .. n : (i \div Pow2[c]) % 2 = b[c]) <=>
        /\ (i \div Pow2[0]) % 2 = b[0]
        /\ \A c \in 0 .. n - 1 : (i \div Pow2[c + 1]) % 2 = b[c + 1]
  <2> DEFINE P(c) == (i \div Pow2[c]) % 2 = b[c]
  <2> HIDE DEF P
  <2>1. (\A c \in 0 .. n : P(c)) <=> P(0) /\ \A c \in 0 .. n - 1 : P(c + 1)
    <3>1. ASSUME P(0), \A c \in 0 .. n - 1 : P(c + 1), NEW c \in 0 .. n PROVE P(c)
      <4>1. CASE c = 0
        BY <3>1, <4>1
      <4>2. CASE c # 0
        <5>1. c - 1 \in 0 .. n - 1 /\ c = (c - 1) + 1
          BY <4>2
        <5> QED BY <3>1, <5>1
      <4> QED BY <4>1, <4>2
    <3>2. ASSUME \A c \in 0 .. n : P(c), NEW c \in 0 .. n - 1 PROVE P(c + 1)
      BY <3>2
    <3> QED BY <3>1, <3>2
  <2> QED BY <2>1 DEF P
<1>6. n + 1 - 1 = n
  OBVIOUS
<1>7. i \in Ending(n + 1, b, L + 1) <=>
        i \in 0 .. 2 * W - 1 /\ \A c \in 0 .. n : (i \div Pow2[c]) % 2 = b[c]
  BY <1>1, <1>6 DEF Ending
<1>8. i \div 2 \in Ending(n, d, L) <=>
        /\ i \div 2 \in 0 .. W - 1
        /\ \A c \in 0 .. n - 1 : ((i \div 2) \div Pow2[c]) % 2 = d[c]
  BY <1>1 DEF Ending
<1> HIDE DEF d
<1>9. (\A c \in 0 .. n - 1 : (i \div Pow2[c + 1]) % 2 = b[c + 1]) <=>
        \A c \in 0 .. n - 1 : ((i \div 2) \div Pow2[c]) % 2 = d[c]
  BY <1>3
<1> QED BY <1>2, <1>4, <1>5, <1>7, <1>8, <1>9 DEF d

EndingsCounted(n) ==
  \A b \in [0 .. n - 1 -> 0 .. 1] : \A L \in Nat : L >= n =>
    IsFiniteSet(Ending(n, b, L)) /\ Cardinality(Ending(n, b, L)) = Pow2[L - n]

LEMMA EndingsCountedNext ==
  ASSUME NEW n \in Nat, EndingsCounted(n) PROVE EndingsCounted(n + 1)
<1> SUFFICES ASSUME NEW b \in [0 .. n + 1 - 1 -> 0 .. 1], NEW M \in Nat, M >= n + 1
             PROVE  /\ IsFiniteSet(Ending(n + 1, b, M))
                    /\ Cardinality(Ending(n + 1, b, M)) = Pow2[M - (n + 1)]
  BY DEF EndingsCounted
<1>1. PICK L \in Nat : M = L + 1 /\ L >= n /\ M - (n + 1) = L - n
  <2>1. M - 1 \in Nat /\ M = (M - 1) + 1 /\ M - 1 >= n /\ M - (n + 1) = (M - 1) - n
    OBVIOUS
  <2> QED BY <2>1
<1>2. b \in [0 .. n -> 0 .. 1]
  <2>1. n + 1 - 1 = n
    OBVIOUS
  <2> QED BY <2>1
<1> DEFINE d == [c \in 0 .. n - 1 |-> b[c + 1]]
           A == Ending(n + 1, b, L + 1)
           B == Ending(n, d, L)
           f == [j \in B |-> 2 * j + b[0]]
<1>3. b[0] \in 0 .. 1 /\ d \in [0 .. n - 1 -> 0 .. 1]
  <2>1. \A c \in 0 .. n - 1 : c + 1 \in 0 .. n
    OBVIOUS
  <2> QED BY <1>2, <2>1
<1>4. IsFiniteSet(B) /\ Cardinality(B) = Pow2[L - n]
  BY <1>1, <1>3 DEF EndingsCounted
<1>5. A \subseteq Nat /\ B \subseteq Nat
  <2>1. \A x : \A y \in 0 .. x : y \in Nat
    OBVIOUS
  <2> QED BY <2>1 DEF Ending
<1>6. \A i \in Nat : i \in A <=> i % 2 = b[0] /\ i \div 2 \in B
  BY <1>2, EndingShifted
<1> HIDE DEF A, B, d
<1>7. f \in [B -> A]
  <2> SUFFICES ASSUME NEW j \in B PROVE 2 * j + b[0] \in A
    OBVIOUS
  <2>1. PICK e \in 0 .. 1 : e = b[0]
    BY <1>3
  <2>2. 2 * j + e \in Nat /\ (2 * j + e) % 2 = e /\ (2 * j + e) \div 2 = j
    BY <1>5
  <2> QED BY <1>6, <2>1, <2>2
<1>8. ASSUME NEW i \in B, NEW j \in B, f[i] = f[j] PROVE i = j
  BY <1>3, <1>5, <1>8
<1>9. ASSUME NEW i \in A PROVE \E j \in B : f[j] = i
  <2>1. i \in Nat /\ i % 2 = b[0] /\ i \div 2 \in B
    BY <1>5, <1>6
  <2>2. f[i \div 2] = i
    BY <2>1
  <2> QED BY <2>1, <2>2
<1>10. f \in Bijection(B, A)
  <2> HIDE DEF f
  <2> QED BY <1>7, <1>8, <1>9 DEF Bijection, Injection, Surjection, IsInjective
<1>11. ExistsBijection(B, A)
  BY <1>10 DEF ExistsBijection
<1>12. IsFiniteSet(A) /\ Cardinality(A) = Cardinality(B)
  BY <1>4, <1>11, FS_Bijection
<1> QED BY <1>1, <1>4, <1>12 DEF A

LEMMA AllEndings == \A n \in Nat : EndingsCounted(n)
<1> DEFINE T == {n \in Nat : ~ EndingsCounted(n)}
<1> SUFFICES ASSUME T # {} PROVE FALSE
  OBVIOUS
<1>1. PICK n \in T : \A m \in T : n <= m
  <2>1. T \subseteq Nat
    OBVIOUS
  <2> HIDE DEF T
  <2> QED BY <2>1, Least
<1>2. EndingsCounted(0)
  <2> SUFFICES ASSUME NEW b, NEW L \in Nat
               PROVE  /\ IsFiniteSet(Ending(0, b, L))
                      /\ Cardinality(Ending(0, b, L)) = Pow2[L - 0]
    BY DEF EndingsCounted
  <2>1. PICK W \in Nat \ {0} : W = Pow2[L] /\ L - 0 = L
    BY Pow2Recursion
  <2>2. Ending(0, b, L) = 0 .. W - 1
    <3>1. 0 .. 0 - 1 = {}
      OBVIOUS
    <3> QED BY <2>1, <3>1 DEF Ending
  <2>3. IsFiniteSet(0 .. W - 1) /\ Cardinality(0 .. W - 1) = W
    <3> HIDE DEF T
    <3>1. PICK v \in Int : v = W - 1
      OBVIOUS
    <3>2. IsFiniteSet(0 .. v) /\ Cardinality(0 .. v) = IF 0 > v THEN 0 ELSE v - 0 + 1
      BY FS_Interval
    <3> QED BY <3>1, <3>2
  <2> QED BY <2>1, <2>2, <2>3
<1>3. n - 1 \in Nat /\ EndingsCounted(n - 1) /\ n = (n - 1) + 1
  BY <1>1, <1>2
<1> QED BY <1>3, EndingsCountedNext

-----------------------------------------------------------------------------
LEMMA FiniteInputs == IsFiniteSet(InputIds)
BY InputNumAssumption, FS_Interval DEF InputIds

-----------------------------------------------------------------------------
(* The set's order is a strict total order, so that inputs differ in how   *)
(* many are ahead of them.                                                 *)
Rank(ratio, k) == Cardinality({j \in Listed(ratio) : Ahead(ratio, j, k)})

LEMMA RankGrows ==
  ASSUME NEW ratio \in [InputIds -> 0 .. MaxRatio],
         NEW j \in Listed(ratio), NEW k \in Listed(ratio), Ahead(ratio, j, k)
  PROVE  Rank(ratio, j) < Rank(ratio, k)
<1> DEFINE B(x) == {m \in Listed(ratio) : Ahead(ratio, m, x)}
<1>1. \A m \in Listed(ratio) : m \in Int /\ ratio[m] \in Int
  BY InputNumAssumption, LimitsAssumption DEF Listed, InputIds
<1>2. B(j) \subseteq B(k)
  BY <1>1 DEF Ahead
<1>3. j \in B(k) /\ j \notin B(j)
  BY <1>1 DEF Ahead
<1>4. IsFiniteSet(B(k)) /\ IsFiniteSet(B(j))
  BY FiniteInputs, FS_Subset DEF Listed
<1>5. Cardinality(B(j)) <= Cardinality(B(k)) /\ Cardinality(B(j)) # Cardinality(B(k))
  BY <1>2, <1>3, <1>4, FS_Subset
<1>6. Cardinality(B(j)) \in Nat /\ Cardinality(B(k)) \in Nat
  BY <1>4, FS_CardinalityType
<1> QED BY <1>5, <1>6 DEF Rank

LEMMA KeptWithinLimit ==
  ASSUME NEW limit \in Nat, NEW ratio \in [InputIds -> 0 .. MaxRatio]
  PROVE  Kept(ratio, limit) \subseteq InputIds /\ Cardinality(Kept(ratio, limit)) <= limit
<1> DEFINE K == Kept(ratio, limit)
           f == [k \in K |-> Rank(ratio, k)]
<1>1. K \subseteq Listed(ratio) /\ K \subseteq InputIds
  BY DEF Kept, Listed
<1>2. \A k \in K : Rank(ratio, k) \in 0 .. limit - 1
  <2> SUFFICES ASSUME NEW k \in K PROVE Rank(ratio, k) \in 0 .. limit - 1
    OBVIOUS
  <2>1. IsFiniteSet({j \in Listed(ratio) : Ahead(ratio, j, k)})
    BY FiniteInputs, FS_Subset DEF Listed
  <2>2. Rank(ratio, k) \in Nat
    BY <2>1, FS_CardinalityType DEF Rank
  <2> QED BY <2>2 DEF Kept, Rank
<1>3. ASSUME NEW j \in K, NEW k \in K, j # k PROVE Rank(ratio, j) # Rank(ratio, k)
  <2>1. ratio[j] \in Int /\ ratio[k] \in Int /\ j \in Int /\ k \in Int
    BY <1>1, InputNumAssumption, LimitsAssumption DEF InputIds
  <2>2. Ahead(ratio, j, k) \/ Ahead(ratio, k, j)
    BY <1>3, <2>1 DEF Ahead
  <2>3. Rank(ratio, j) \in Int /\ Rank(ratio, k) \in Int
    BY <1>2
  <2> QED BY <1>1, <2>2, <2>3, RankGrows
<1>4. f \in Injection(K, 0 .. limit - 1)
  BY <1>2, <1>3 DEF Injection, IsInjective
<1>5. IsFiniteSet(0 .. limit - 1) /\ Cardinality(0 .. limit - 1) = limit
  BY FS_Interval
<1>6. Cardinality(K) <= Cardinality(0 .. limit - 1)
  BY <1>4, <1>5, FS_Injection
<1> QED BY <1>1, <1>5, <1>6

LEMMA RowsArePatterns ==
  ASSUME NEW S, NEW limit \in Nat
  PROVE  /\ DOMAIN InPat(S, limit) \subseteq Nat
         /\ \A i \in DOMAIN InPat(S, limit) : InPat(S, limit)[i] \in AllPatterns
<1>1. \A i : Row(S, i) \in AllPatterns
  BY DEF Row, BitOf, AllPatterns, PatternsOn, Bit
<1>2. \A i : i \in 0 .. Pow2[limit] - 1 => i \in Nat
  OBVIOUS
<1> QED BY <1>1, <1>2 DEF InPat

(* The first row with a given setting exists whenever some row has it.     *)
LEMMA FirstRowExists ==
  ASSUME TypeOK, NEW i \in DOMAIN rows
  PROVE  LET m == FirstRow(On(rows[i], kept))
         IN  m \in DOMAIN rows /\ On(rows[m], kept) = On(rows[i], kept)
<1> DEFINE s == On(rows[i], kept)
           T == {j \in DOMAIN rows : On(rows[j], kept) = s}
<1>1. T \subseteq Nat /\ i \in T
  BY DEF TypeOK
<1>2. PICK x \in T : \A y \in T : x <= y
  <2> HIDE DEF T
  <2> QED BY <1>1, Least
<1>3. \A j \in DOMAIN rows : On(rows[j], kept) = s => x <= j
  BY <1>2
<1> QED BY <1>3 DEF FirstRow

(* What a table says of a row: the answer to a row with the same setting.  *)
LEMMA TableAnswers ==
  ASSUME TypeOK, NEW i \in DOMAIN rows
  PROVE  /\ On(rows[i], kept) \in DOMAIN Table
         /\ \E j \in DOMAIN rows : /\ On(rows[j], kept) = On(rows[i], kept)
                                    /\ Table[On(rows[i], kept)] = oracle[po][rows[j]]
BY FirstRowExists DEF Table

-----------------------------------------------------------------------------
(* The kept inputs take the digits in turn: their columns are 0, 1, ...    *)
LEMMA Columns ==
  ASSUME NEW S \in SUBSET InputIds
  PROVE  /\ IsFiniteSet(S) /\ Cardinality(S) \in Nat
         /\ [k \in S |-> Column(S, k)] \in Bijection(S, 0 .. Cardinality(S) - 1)
<1> DEFINE n == Cardinality(S)
           B(k) == {j \in S : j < k}
           f == [k \in S |-> Column(S, k)]
<1>1. IsFiniteSet(S) /\ n \in Nat
  BY FiniteInputs, FS_Subset, FS_CardinalityType
<1>2. \A k \in S : k \in Int
  BY InputNumAssumption DEF InputIds
<1>3. \A k \in S : IsFiniteSet(B(k)) /\ Cardinality(B(k)) \in Nat
  BY <1>1, FS_Subset, FS_CardinalityType
<1>4. ASSUME NEW k \in S PROVE f[k] \in 0 .. n - 1
  <2>1. B(k) \subseteq S /\ B(k) # S
    BY <1>2
  <2>2. Cardinality(B(k)) <= n /\ Cardinality(B(k)) # n
    BY <1>1, <2>1, FS_Subset
  <2>3. Cardinality(B(k)) \in Nat /\ f[k] = Cardinality(B(k))
    BY <1>3 DEF Column
  <2> HIDE DEF f, n, B
  <2> QED BY <1>1, <2>2, <2>3
<1>5. ASSUME NEW j \in S, NEW k \in S, j < k PROVE f[j] < f[k]
  <2>1. B(j) \subseteq B(k) /\ j \in B(k) /\ j \notin B(j)
    BY <1>2, <1>5
  <2>2. Cardinality(B(j)) <= Cardinality(B(k)) /\ Cardinality(B(j)) # Cardinality(B(k))
    BY <1>3, <2>1, FS_Subset
  <2>3. f[j] = Cardinality(B(j)) /\ f[k] = Cardinality(B(k))
    BY DEF Column
  <2> HIDE DEF f, B
  <2> QED BY <1>3, <2>2, <2>3
<1>6. \A j \in S : \A k \in S : f[j] = f[k] => j = k
  <2> HIDE DEF f
  <2> SUFFICES ASSUME NEW j \in S, NEW k \in S, j # k PROVE f[j] # f[k]
    OBVIOUS
  <2>1. j < k \/ k < j
    BY <1>2
  <2>2. f[j] \in Int /\ f[k] \in Int
    BY <1>4
  <2> QED BY <1>5, <2>1, <2>2
<1>7. f \in [S -> 0 .. n - 1]
  BY <1>4
<1>8. f \in Injection(S, 0 .. n - 1)
  <2> HIDE DEF f
  <2> QED BY <1>6, <1>7 DEF Injection, IsInjective
<1>9. IsFiniteSet(0 .. n - 1) /\ Cardinality(0 .. n - 1) = n
  <2> HIDE DEF n
  <2>1. PICK v \in Int : v = n - 1
    BY <1>1
  <2>2. IsFiniteSet(0 .. v) /\ Cardinality(0 .. v) = IF 0 > v THEN 0 ELSE v - 0 + 1
    BY FS_Interval
  <2> QED BY <1>1, <2>1, <2>2
<1>10. f \in Surjection(S, 0 .. n - 1)
  <2> HIDE DEF f
  <2> QED BY <1>8, <1>9, FS_Injection
<1> HIDE DEF f
<1> QED BY <1>1, <1>8, <1>10 DEF Bijection, f

(* The rows asked for count through the settings of the kept inputs.       *)
LEMMA RowsCounted ==
  ASSUME NEW S \in SUBSET InputIds, NEW L \in Nat, Cardinality(S) <= L,
         NEW s \in PatternsOn(S)
  PROVE  LET T == {i \in DOMAIN InPat(S, L) : On(InPat(S, L)[i], S) = s}
         IN  Cardinality(T) = Pow2[L - Cardinality(S)] /\ T # {}
<1> DEFINE n == Cardinality(S)
           D == DOMAIN InPat(S, L)
           T == {i \in D : On(InPat(S, L)[i], S) = s}
           f == [k \in S |-> Column(S, k)]
           b == [c \in 0 .. n - 1 |-> IF s[CHOOSE k \in S : f[k] = c] = "1" THEN 1 ELSE 0]
<1>1. n \in Nat /\ f \in Bijection(S, 0 .. n - 1)
  BY Columns
<1>2. /\ \A k \in S : f[k] \in 0 .. n - 1
      /\ \A j, k \in S : f[j] = f[k] => j = k
      /\ \A c \in 0 .. n - 1 : \E k \in S : f[k] = c
  <2> HIDE DEF f
  <2> QED BY <1>1 DEF Bijection, Injection, Surjection, IsInjective
<1>3. \A k \in S : s[k] \in Bit
  BY DEF PatternsOn
<1>4. \A k \in S : b[f[k]] = IF s[k] = "1" THEN 1 ELSE 0
  <2> HIDE DEF f
  <2>1. \A k \in S : (CHOOSE j \in S : f[j] = f[k]) = k
    BY <1>2
  <2> QED BY <1>2, <2>1
<1>5. b \in [0 .. n - 1 -> 0 .. 1]
  OBVIOUS
<1> HIDE DEF b
<1>6. D = 0 .. Pow2[L] - 1 /\ \A i \in D : InPat(S, L)[i] = Row(S, i)
  BY DEF InPat
<1>7. ASSUME NEW i \in D
      PROVE  On(InPat(S, L)[i], S) = s <=> \A c \in 0 .. n - 1 : (i \div Pow2[c]) % 2 = b[c]
  <2>1. On(Row(S, i), S) = [k \in S |-> BitOf(i, f[k])]
    BY DEF On, Row
  <2>2. On(Row(S, i), S) = s <=> \A k \in S : BitOf(i, f[k]) = s[k]
    BY <2>1 DEF PatternsOn
  <2>3. ASSUME NEW k \in S
        PROVE  BitOf(i, f[k]) = s[k] <=> (i \div Pow2[f[k]]) % 2 = b[f[k]]
    <3>1. PICK c \in Nat : c = f[k]
      BY <1>2
    <3>2. i \in Nat /\ Pow2[c] \in Nat \ {0}
      BY <1>6, Pow2Recursion
    <3>3. (i \div Pow2[c]) % 2 \in 0 .. 1
      BY <3>2
    <3> QED BY <1>3, <1>4, <3>1, <3>3 DEF BitOf, Bit
  <2> HIDE DEF f, D, n
  <2>4. (\A k \in S : (i \div Pow2[f[k]]) % 2 = b[f[k]])
          <=> \A c \in 0 .. n - 1 : (i \div Pow2[c]) % 2 = b[c]
    BY <1>2
  <2> QED BY <1>6, <2>2, <2>3, <2>4
<1>8. T = Ending(n, b, L)
  BY <1>6, <1>7 DEF Ending
<1>9. IsFiniteSet(T) /\ Cardinality(T) = Pow2[L - n]
  <2> HIDE DEF T, n
  <2> QED BY <1>1, <1>5, <1>8, AllEndings DEF EndingsCounted, n
<1>10. Pow2[L - n] \in Nat \ {0}
  <2>1. L - n \in Nat
    BY <1>1
  <2> HIDE DEF n
  <2> QED BY <2>1, Pow2Recursion
<1>11. T # {}
  BY <1>9, <1>10, FS_EmptySet
<1> QED BY <1>9, <1>11

LEMMA RowIsSetting ==
  ASSUME NEW S, NEW i, NEW p, On(Row(S, i), S) = On(p, S)
  PROVE  Row(S, i) = DummiesOne(p, S)
<1>1. \A k \in S : Row(S, i)[k] = p[k]
  BY DEF On
<1> QED BY <1>1 DEF Row, DummiesOne

-----------------------------------------------------------------------------
LEMMA InitConsistent == Init => Consistent
<1> SUFFICES ASSUME Init PROVE Consistent
  OBVIOUS
<1>1. 1 \in 1 .. NumPO + 1 /\ 0 \in 0 .. MaxLimit
  BY NumPOAssumption, LimitsAssumption
<1>2. /\ DOMAIN rows = {}
      /\ DOMAIN main = {}
      /\ realPI_to_PO \in Seq(SUBSET InputIds)
  BY DEF Init
<1>3. TypeOK
  <2>1. /\ oracle \in [POs -> Circuits]
        /\ classifyPO \in [POs -> 0 .. 2]
        /\ real_info \in [POs -> SUBSET InputIds]
        /\ used \in [POs -> SUBSET InputIds]
        /\ read \in [POs -> SUBSET AllPatterns]
    BY DEF Init
  <2>2. /\ po \in 1 .. NumPO + 1
        /\ up_limit \in 0 .. MaxLimit
        /\ kept = {}
        /\ answered \in BOOLEAN
        /\ fresh = {}
        /\ pc = "build"
    BY <1>1, Zenon DEF Init
  <2> QED BY <1>2, <2>1, <2>2 DEF TypeOK
<1>4. realPI_to_PO = [o \in 1 .. po - 1 |-> RealInputs(o)]
  BY DEF Init
<1> QED BY <1>2, <1>3, <1>4 DEF Init, Consistent, Learnt, IndexInRange

(* Adding an entry to the list, under the next output's number.            *)
LEMMA ListGrows ==
  ASSUME Consistent, pc = "build", po \in POs, NEW S, S = RealInputs(po)
  PROVE  /\ Append(realPI_to_PO, S) = [o \in 1 .. po |-> RealInputs(o)]
         /\ Append(realPI_to_PO, S) \in Seq(SUBSET InputIds)
<1>1. realPI_to_PO = [o \in 1 .. po - 1 |-> RealInputs(o)] /\ po \in Nat /\ po >= 1
  BY NumPOAssumption DEF Consistent, TypeOK, POs
<1>2. realPI_to_PO \in Seq(SUBSET InputIds)
  BY DEF Consistent, TypeOK
<1>3. S \in SUBSET InputIds
  BY DEF RealInputs, Consistent, TypeOK
<1>4. Append(realPI_to_PO, S) \in Seq(SUBSET InputIds)
  BY <1>2, <1>3
<1>5. Len(realPI_to_PO) = po - 1
  BY <1>1, <1>2
<1>6. Len(Append(realPI_to_PO, S)) = po
  BY <1>1, <1>2, <1>3, <1>5
<1>7. \A o \in 1 .. po : Append(realPI_to_PO, S)[o] = RealInputs(o)
  BY <1>1, <1>2, <1>3, <1>5
<1>8. Append(realPI_to_PO, S) = [o \in 1 .. po |-> Append(realPI_to_PO, S)[o]]
  BY <1>4, <1>6, LenProperties
<1> QED BY <1>4, <1>7, <1>8

(* A drawn-up table keeps those drawn up before.                           *)
LEMMA DriveType ==
  ASSUME TypeOK, NEW f \in [AllPatterns -> Bit], Drive(f), po \in POs
  PROVE  /\ DOMAIN main' = DOMAIN main \union {po}
         /\ po \notin DOMAIN main
         /\ main'[po] = f
         /\ \A o \in DOMAIN main : main'[o] = main[o]
         /\ main' \in [DOMAIN main' -> [AllPatterns -> Bit]]
<1>1. po \notin DOMAIN main
  BY NumPOAssumption DEF TypeOK, POs
<1>2. main' = [o \in DOMAIN main \union {po} |-> IF o = po THEN f ELSE main[o]]
  BY DEF Drive
<1> QED BY <1>1, <1>2 DEF TypeOK

LEMMA NextConsistent == ASSUME Consistent, [Next]_vars PROVE Consistent'
<1> USE NumPOAssumption, LimitsAssumption
<1>1. CASE BuildConstant
  <2>1. po \in POs /\ classifyPO[po] # 2 /\ pc = "build" /\ TypeOK
    BY <1>1 DEF BuildConstant, Consistent
  <2>2. Constant(classifyPO[po]) \in [AllPatterns -> Bit]
    BY DEF Constant, Bit
  <2>3. Drive(Constant(classifyPO[po]))
    BY <1>1 DEF BuildConstant
  <2>4. realPI_to_PO' = [o \in 1 .. po |-> RealInputs(o)]
        /\ realPI_to_PO' \in Seq(SUBSET InputIds)
    BY <1>1, <2>1, ListGrows DEF BuildConstant, RealInputs
  <2>5. /\ DOMAIN main' = DOMAIN main \union {po}
        /\ \A o \in DOMAIN main : main'[o] = main[o]
        /\ main' \in [DOMAIN main' -> [AllPatterns -> Bit]]
    BY <2>1, <2>2, <2>3, DriveType
  <2>6. po \in Nat /\ po' = po + 1 /\ po' - 1 = po
    BY <1>1, <2>1 DEF BuildConstant, POs
  <2>7. TypeOK'
    <3>1. /\ UNCHANGED <<oracle, classifyPO, real_info, up_limit, kept, answered,
                         rows, used, read, fresh, pc>>
          /\ pc = "build"
      BY <1>1 DEF BuildConstant, inputs
    <3>2. po' \in 1 .. NumPO + 1
      BY <2>1, <2>6 DEF POs
    <3>3. DOMAIN main' \subseteq 1 .. po' - 1
      <4>1. DOMAIN main \subseteq 1 .. po - 1
        BY <2>1 DEF TypeOK
      <4> QED BY <2>1, <2>5, <2>6, <4>1 DEF POs
    <3> QED BY <2>1, <2>4, <2>5, <3>1, <3>2, <3>3 DEF TypeOK
  <2>8. Learnt' = Learnt
    BY <1>1, <2>1, <2>5 DEF BuildConstant, Learnt, inputs
  <2>9. realPI_to_PO' = [o \in 1 .. po' - 1 |-> RealInputs(o)']
    BY <1>1, <2>4, <2>6 DEF BuildConstant, inputs, RealInputs
  <2>10. Learnt \subseteq DOMAIN main
    BY DEF Learnt
  <2> QED BY <1>1, <2>1, <2>5, <2>7, <2>8, <2>9, <2>10
          DEF BuildConstant, Consistent, inputs, SameKept, IndexInRange
<1>2. ASSUME NEW limit \in 0 .. MaxLimit, NEW ratio \in [InputIds -> 0 .. MaxRatio],
             PatternsGeneration(limit, ratio)
      PROVE  Consistent'
  <2>1. po \in POs /\ classifyPO[po] = 2 /\ pc = "build" /\ TypeOK
    BY <1>2 DEF PatternsGeneration, Consistent
  <2>2. Kept(ratio, limit) \subseteq InputIds /\ Cardinality(Kept(ratio, limit)) <= limit
    BY KeptWithinLimit
  <2>3. realPI_to_PO' = [o \in 1 .. po |-> RealInputs(o)]
        /\ realPI_to_PO' \in Seq(SUBSET InputIds)
    BY <1>2, <2>1, ListGrows DEF PatternsGeneration, RealInputs
  <2>4. /\ answered' \in BOOLEAN
        /\ DOMAIN rows' \subseteq Nat
        /\ \A j \in DOMAIN rows' : rows'[j] \in AllPatterns
        /\ fresh' \subseteq POs
    <3>1. AskIogen(Kept(ratio, limit), limit)
      BY <1>2 DEF PatternsGeneration
    <3>2. ASSUME NEW r, r = <<>> PROVE DOMAIN r = {}
      BY <3>2
    <3>3. DOMAIN rows' = {} \/ rows' = rows \/ rows' = InPat(Kept(ratio, limit), limit)
      BY <3>1, <3>2 DEF AskIogen
    <3>4. answered' \in BOOLEAN /\ fresh' \subseteq POs
      BY <2>1, <3>1 DEF AskIogen, TypeOK
    <3> QED BY <2>1, <3>3, <3>4, RowsArePatterns DEF TypeOK
  <2>5. TypeOK'
    BY <1>2, <2>1, <2>2, <2>3, <2>4 DEF PatternsGeneration, TypeOK, inputs
  <2>6. realPI_to_PO' = [o \in 1 .. po' |-> RealInputs(o)']
    BY <1>2, <2>3 DEF PatternsGeneration, inputs, RealInputs
  <2> QED BY <1>2, <2>1, <2>2, <2>5, <2>6
          DEF PatternsGeneration, Consistent, inputs, Learnt, SameKept, IndexInRange
<1>3. CASE Exit
  <2>1. TypeOK'
    BY <1>3 DEF Exit, Consistent, TypeOK, inputs, generated
  <2> QED BY <1>3, <2>1 DEF Exit, Consistent, inputs, generated, Learnt, SameKept, IndexInRange
<1>4. CASE SATOptimization
  <2>1. po \in POs /\ classifyPO[po] = 2 /\ pc = "optimise" /\ TypeOK
    BY <1>4 DEF SATOptimization, Consistent
  <2>2. po \notin DOMAIN main /\ po \in Nat /\ po' = po + 1 /\ po' - 1 = po
    <3>1. DOMAIN main \subseteq 1 .. po - 1
      BY <2>1 DEF TypeOK
    <3> QED BY <1>4, <2>1, <3>1 DEF SATOptimization, POs
  <2>3. realPI_to_PO' = [o \in 1 .. po' - 1 |-> RealInputs(o)']
    BY <1>4, <2>1, <2>2 DEF SATOptimization, inputs, generated, Consistent, RealInputs
  <2>4. used'[po] = kept /\ read'[po] = {rows[j] : j \in DOMAIN rows}
        /\ \A o \in POs \ {po} : used'[o] = used[o] /\ read'[o] = read[o]
    BY <1>4, <2>1 DEF SATOptimization, TypeOK
  <2>5. used' \in [POs -> SUBSET InputIds] /\ read' \in [POs -> SUBSET AllPatterns]
    BY <1>4, <2>1 DEF SATOptimization, TypeOK
  <2>6. Learnt \subseteq POs \ {po}
    BY <2>1, <2>2 DEF Learnt, TypeOK, POs
  <2>7. CASE NothingToWrite
    <3>1. main' = main
      BY <1>4, <2>7 DEF SATOptimization
    <3>2. TypeOK'
      BY <1>4, <2>1, <2>2, <2>5, <3>1 DEF SATOptimization, TypeOK, inputs, generated, POs
    <3>3. Learnt' = Learnt
      BY <1>4, <3>1 DEF SATOptimization, inputs, Learnt
    <3>4. \A o \in Learnt : \A p \in read'[o] : \E q \in read'[o] :
            SameKept(o, p, q)' /\ main'[o][p] = oracle'[o][q]
      BY <1>4, <2>4, <2>6, <3>1 DEF SATOptimization, inputs, Consistent, SameKept
    <3> QED BY <1>4, <2>3, <3>2, <3>3, <3>4 DEF SATOptimization, Consistent, IndexInRange
  <2>8. CASE ~ NothingToWrite
    <3>1. PICK f \in CoversOf(kept, Table) : Drive([p \in AllPatterns |-> f[On(p, kept)]])
      BY <1>4, <2>8 DEF SATOptimization
    <3>2. \A p \in AllPatterns : On(p, kept) \in PatternsOn(kept)
      BY <2>1 DEF On, AllPatterns, PatternsOn, TypeOK
    <3>3. [p \in AllPatterns |-> f[On(p, kept)]] \in [AllPatterns -> Bit]
      BY <3>1, <3>2 DEF CoversOf
    <3>4. /\ DOMAIN main' = DOMAIN main \union {po}
          /\ main'[po] = [p \in AllPatterns |-> f[On(p, kept)]]
          /\ \A o \in DOMAIN main : main'[o] = main[o]
          /\ main' \in [DOMAIN main' -> [AllPatterns -> Bit]]
      BY <2>1, <3>1, <3>3, DriveType
    <3>5. TypeOK'
      BY <1>4, <2>1, <2>2, <2>5, <3>4 DEF SATOptimization, TypeOK, inputs, generated, POs
    <3>6. Learnt' = Learnt \union {po}
      BY <1>4, <2>1, <3>4 DEF SATOptimization, inputs, Learnt
    <3>7. ASSUME NEW o \in Learnt, NEW p \in read'[o]
          PROVE  \E q \in read'[o] : SameKept(o, p, q)' /\ main'[o][p] = oracle'[o][q]
      <4>1. o \in DOMAIN main
        BY DEF Learnt
      <4> QED BY <1>4, <2>4, <2>6, <3>4, <4>1 DEF SATOptimization, inputs, Consistent, SameKept
    <3>8. ASSUME NEW o \in POs, o = po, NEW p \in read'[o]
          PROVE  \E q \in read'[o] : SameKept(o, p, q)' /\ main'[o][p] = oracle'[o][q]
      <4>1. PICK j \in DOMAIN rows : p = rows[j]
        BY <2>4, <3>8
      <4>2. PICK m \in DOMAIN rows : /\ On(rows[m], kept) = On(rows[j], kept)
                                     /\ Table[On(rows[j], kept)] = oracle[po][rows[m]]
        BY <2>1, TableAnswers
      <4>3. f[On(p, kept)] = Table[On(p, kept)]
        BY <2>1, <3>1, <4>1, TableAnswers DEF CoversOf
      <4>4. p \in AllPatterns /\ rows[m] \in AllPatterns
        BY <2>1, <4>1 DEF TypeOK
      <4>5. \A k \in kept : p[k] = rows[m][k]
        BY <4>1, <4>2 DEF On
      <4>6. PICK q \in read'[o] : q = rows[m]
        BY <2>4, <3>8
      <4>7. SameKept(o, p, q)'
        BY <2>4, <3>8, <4>5, <4>6 DEF SameKept
      <4>8. main'[o][p] = oracle[o][rows[m]]
        BY <3>4, <3>8, <4>1, <4>2, <4>3, <4>4
      <4>9. oracle' = oracle
        BY <1>4 DEF SATOptimization, inputs
      <4> QED BY <4>6, <4>7, <4>8, <4>9
    <3>9. \A o \in Learnt' : \A p \in read'[o] : \E q \in read'[o] :
            SameKept(o, p, q)' /\ main'[o][p] = oracle'[o][q]
      BY <2>1, <3>6, <3>7, <3>8
    <3> QED BY <1>4, <2>3, <3>5, <3>9 DEF SATOptimization, Consistent, IndexInRange
  <2> QED BY <2>7, <2>8
<1>5. CASE WriteBlifEnd
  <2>1. TypeOK'
    BY <1>5 DEF WriteBlifEnd, Consistent, TypeOK, inputs, generated
  <2> QED BY <1>5, <2>1
          DEF WriteBlifEnd, Consistent, inputs, generated, Learnt, SameKept, IndexInRange, RealInputs
<1>6. CASE UNCHANGED vars
  <2>1. TypeOK'
    BY <1>6 DEF vars, Consistent, TypeOK, inputs, generated
  <2> QED BY <1>6, <2>1 DEF vars, Consistent, inputs, generated, Learnt, SameKept,
                            IndexInRange, RealInputs
<1> QED BY <1>1, <1>2, <1>3, <1>4, <1>5, <1>6 DEF Next

-----------------------------------------------------------------------------
LEMMA InitComplete == Init => Complete
<1> SUFFICES ASSUME Init PROVE Complete
  OBVIOUS
<1>1. fresh = {} /\ pc = "build" /\ po = 1
  BY DEF Init
<1>2. DOMAIN main = {}
  BY DEF Init
<1>3. Learnt = {}
  BY <1>2 DEF Learnt
<1> QED BY <1>1, <1>2, <1>3 DEF Complete

(* A table of an output iogen answered itself: each setting has a row, and *)
(* every row with that setting is the pattern with the dummies at 1.       *)
LEMMA TableExact ==
  ASSUME IInv, pc = "optimise", po \in fresh, NEW p \in AllPatterns
  PROVE  /\ On(p, kept) \in DOMAIN Table
         /\ Table[On(p, kept)] = oracle[po][DummiesOne(p, kept)]
<1>1. /\ TypeOK /\ kept \in SUBSET InputIds /\ up_limit \in Nat
      /\ Cardinality(kept) <= up_limit
      /\ rows = InPat(kept, up_limit)
  BY LimitsAssumption DEF IInv, Consistent, TypeOK, IndexInRange, Complete
<1>2. On(p, kept) \in PatternsOn(kept)
  BY <1>1 DEF On, AllPatterns, PatternsOn
<1>3. PICK i \in DOMAIN rows : On(rows[i], kept) = On(p, kept)
  BY <1>1, <1>2, RowsCounted
<1>4. PICK j \in DOMAIN rows : /\ On(rows[j], kept) = On(p, kept)
                              /\ Table[On(p, kept)] = oracle[po][rows[j]]
  BY <1>1, <1>3, TableAnswers
<1>5. rows[j] = Row(kept, j)
  BY <1>1 DEF InPat
<1>6. rows[j] = DummiesOne(p, kept)
  BY <1>4, <1>5, RowIsSetting
<1> QED BY <1>1, <1>3, <1>4, <1>6, TableAnswers

LEMMA NextComplete == ASSUME IInv, [Next]_vars PROVE Complete'
<1> USE NumPOAssumption DEF IInv
<1>1. CASE BuildConstant
  <2>1. po \in POs /\ classifyPO[po] # 2 /\ pc = "build" /\ TypeOK
    BY <1>1 DEF BuildConstant, Consistent
  <2>2. /\ po \in Nat /\ po' = po + 1 /\ po \notin DOMAIN main
        /\ pc' = "build" /\ fresh' = fresh /\ used' = used
        /\ oracle' = oracle /\ classifyPO' = classifyPO
    BY <1>1, <2>1 DEF BuildConstant, TypeOK, POs, inputs
  <2>3. Constant(classifyPO[po]) \in [AllPatterns -> Bit] /\ Drive(Constant(classifyPO[po]))
    BY <1>1 DEF Constant, Bit, BuildConstant
  <2>4. /\ DOMAIN main' = DOMAIN main \union {po}
        /\ \A o \in DOMAIN main : main'[o] = main[o]
    BY <2>1, <2>3, DriveType
  <2>5. \A o \in fresh' : o < po'
    BY <2>1, <2>2 DEF Complete, TypeOK, POs
  <2>6. \A o \in Learnt' : o \in Learnt /\ main'[o] = main[o]
    BY <2>1, <2>2, <2>4 DEF Learnt
  <2>7. \A o \in DOMAIN main' \ Learnt' : main'[o] = Constant(classifyPO'[o])
    <3>1. main'[po] = Constant(classifyPO[po])
      BY <2>1, <2>3, DriveType
    <3>2. \A o \in DOMAIN main \ Learnt' : o \in DOMAIN main \ Learnt
      BY <2>2, <2>4 DEF Learnt
    <3> QED BY <2>2, <2>4, <3>1, <3>2 DEF Complete
  <2> QED BY <2>2, <2>5, <2>6, <2>7 DEF Complete, DummiesOne
<1>2. ASSUME NEW limit \in 0 .. MaxLimit, NEW ratio \in [InputIds -> 0 .. MaxRatio],
             PatternsGeneration(limit, ratio)
      PROVE  Complete'
  <2>1. /\ po \in POs /\ pc = "build" /\ pc' = "optimise" /\ po' = po
        /\ used' = used /\ main' = main /\ po \notin DOMAIN main
        /\ oracle' = oracle /\ classifyPO' = classifyPO /\ TypeOK
        /\ kept' = Kept(ratio, limit) /\ up_limit' = limit
    BY <1>2 DEF PatternsGeneration, Consistent, TypeOK, inputs, POs
  <2>2. AskIogen(Kept(ratio, limit), limit)
    BY <1>2 DEF PatternsGeneration
  <2>3. \A o \in fresh : o < po
    BY <2>1 DEF Complete
  <2>4. fresh' \subseteq fresh \union {po}
    BY <2>2 DEF AskIogen
  <2>5. po \in fresh' => rows' = InPat(kept', up_limit')
    <3>1. po \notin fresh
      BY <2>1, <2>3 DEF POs
    <3> QED BY <2>1, <2>2, <3>1 DEF AskIogen
  <2>6. \A o \in Learnt' \cap fresh' : o \in Learnt \cap fresh
    BY <2>1, <2>4 DEF Learnt
  <2>7. \A o \in fresh' : o <= po'
    <3> SUFFICES ASSUME NEW o \in fresh' PROVE o <= po
      BY <2>1
    <3>1. o \in fresh \/ o = po
      BY <2>4
    <3>2. \A m \in fresh \union {po} : m \in Int
      BY <2>1 DEF TypeOK, POs
    <3> QED BY <2>3, <3>1, <3>2
  <2>8. Learnt' = Learnt
    BY <2>1 DEF Learnt
  <2> QED BY <2>1, <2>5, <2>6, <2>7, <2>8 DEF Complete, DummiesOne
<1>3. CASE Exit
  <2>1. Complete
    OBVIOUS
  <2> QED BY <1>3, <2>1 DEF Complete, Exit, inputs, generated, Learnt, DummiesOne
<1>4. CASE SATOptimization
  <2>1. /\ po \in POs /\ classifyPO[po] = 2 /\ pc = "optimise" /\ TypeOK
        /\ po \in Nat /\ po' = po + 1 /\ po \notin DOMAIN main
        /\ pc' = "build" /\ fresh' = fresh /\ fresh \subseteq POs
        /\ oracle' = oracle /\ classifyPO' = classifyPO
        /\ kept \subseteq InputIds
    BY <1>4 DEF SATOptimization, Consistent, TypeOK, POs, inputs, generated
  <2>2. used'[po] = kept /\ \A o \in POs \ {po} : used'[o] = used[o]
    BY <1>4, <2>1 DEF SATOptimization, TypeOK
  <2>3. \A o \in fresh' : o < po'
    <3>1. \A o \in fresh : o <= po
      <4>1. Complete
        OBVIOUS
      <4> QED BY <2>1, <4>1 DEF Complete
    <3>2. \A o \in fresh : o \in Int
      BY <2>1 DEF POs
    <3> QED BY <2>1, <3>1, <3>2
  <2>4. Learnt \subseteq POs \ {po}
    BY <2>1 DEF Learnt, TypeOK, POs
  <2>5. CASE NothingToWrite
    <3>1. main' = main
      BY <1>4, <2>5 DEF SATOptimization
    <3>2. Learnt' = Learnt
      BY <2>1, <3>1 DEF Learnt
    <3>3. \A o \in Learnt' \cap fresh' :
            \A p \in AllPatterns : main'[o][p] = oracle'[o][DummiesOne(p, used'[o])]
      <4> SUFFICES ASSUME NEW o \in Learnt \cap fresh, NEW p \in AllPatterns
                   PROVE  main[o][p] = oracle[o][DummiesOne(p, used'[o])]
        BY <2>1, <3>1, <3>2
      <4>1. used'[o] = used[o]
        BY <2>2, <2>4
      <4> QED BY <4>1 DEF Complete
    <3> QED BY <2>1, <2>3, <3>1, <3>2, <3>3 DEF Complete, DummiesOne
  <2>6. CASE ~ NothingToWrite
    <3>1. PICK f \in CoversOf(kept, Table) : Drive([p \in AllPatterns |-> f[On(p, kept)]])
      BY <1>4, <2>6 DEF SATOptimization
    <3>2. \A p \in AllPatterns : On(p, kept) \in PatternsOn(kept)
      BY <2>1 DEF On, AllPatterns, PatternsOn
    <3>3. [p \in AllPatterns |-> f[On(p, kept)]] \in [AllPatterns -> Bit]
      BY <3>1, <3>2 DEF CoversOf
    <3>4. /\ DOMAIN main' = DOMAIN main \union {po}
          /\ main'[po] = [p \in AllPatterns |-> f[On(p, kept)]]
          /\ \A o \in DOMAIN main : main'[o] = main[o]
      BY <2>1, <3>1, <3>3, DriveType
    <3>5. Learnt' = Learnt \union {po}
      BY <2>1, <3>4 DEF Learnt
    <3>6. ASSUME NEW o \in Learnt \cap fresh, NEW p \in AllPatterns
          PROVE  main'[o][p] = oracle'[o][DummiesOne(p, used'[o])]
      <4>1. o \in DOMAIN main /\ o \in POs \ {po}
        BY <2>4 DEF Learnt
      <4>2. main[o][p] = oracle[o][DummiesOne(p, used[o])]
        BY DEF Complete
      <4>3. main'[o] = main[o]
        BY <3>4, <4>1
      <4>4. used'[o] = used[o] /\ oracle'[o] = oracle[o]
        BY <2>1, <2>2, <4>1
      <4> QED BY <4>2, <4>3, <4>4
    <3>7. ASSUME po \in fresh, NEW p \in AllPatterns
          PROVE  main'[po][p] = oracle'[po][DummiesOne(p, used'[po])]
      <4>1. /\ On(p, kept) \in DOMAIN Table
            /\ Table[On(p, kept)] = oracle[po][DummiesOne(p, kept)]
        BY <2>1, <3>7, TableExact
      <4>2. f[On(p, kept)] = Table[On(p, kept)]
        BY <3>1, <4>1 DEF CoversOf
      <4> QED BY <2>1, <2>2, <3>4, <4>1, <4>2
    <3>8. \A o \in Learnt' \cap fresh' :
            \A p \in AllPatterns : main'[o][p] = oracle'[o][DummiesOne(p, used'[o])]
      BY <2>1, <3>5, <3>6, <3>7
    <3>9. \A o \in DOMAIN main' \ Learnt' : main'[o] = Constant(classifyPO'[o])
      BY <2>1, <3>4, <3>5 DEF Complete
    <3> QED BY <2>1, <2>3, <3>8, <3>9 DEF Complete, DummiesOne
  <2> QED BY <2>5, <2>6
<1>5. CASE WriteBlifEnd
  <2>1. Complete
    OBVIOUS
  <2> QED BY <1>5, <2>1
          DEF Complete, WriteBlifEnd, inputs, generated, Learnt, DummiesOne
<1>6. CASE UNCHANGED vars
  <2>1. Complete
    OBVIOUS
  <2> QED BY <1>6, <2>1 DEF Complete, vars, inputs, generated, Learnt, DummiesOne
<1> QED BY <1>1, <1>2, <1>3, <1>4, <1>5, <1>6 DEF Next

LEMMA InitIInv == Init => IInv
BY InitConsistent, InitComplete DEF IInv

LEMMA NextIInv == ASSUME IInv, [Next]_vars PROVE IInv'
BY NextConsistent, NextComplete DEF IInv

THEOREM Invariance == Spec => []IInv
BY InitIInv, NextIInv, PTL DEF Spec

-----------------------------------------------------------------------------
(* Every file, list and table passed on is well formed.                    *)
THEOREM TypeCorrect == Spec => []TypeOK
<1>1. IInv => TypeOK
  BY DEF IInv, Consistent
<1> QED BY <1>1, Invariance, PTL

(* Whatever the ratios, no more inputs are kept than a row has digits.     *)
THEOREM KeepsWithinLimit == Spec => []IndexInRange
<1>1. IInv => IndexInRange
  BY DEF IInv, Consistent
<1> QED BY <1>1, Invariance, PTL

(* A table tells the truth about the rows it was made of, its own or the   *)
(* ones a failed iogen left behind.                                        *)
THEOREM TablesTellTheTruth == Spec => []LearntRight
<1>1. IInv => LearntRight
  BY DEF IInv, Consistent, LearntRight, KeptSuffice
<1> QED BY <1>1, Invariance, PTL

(* The list of real inputs stays in step with the outputs' numbers, for    *)
(* every mix of constants and tables and for outputs that get no table.    *)
THEOREM ListStaysAligned == Spec => []AlignedRealPI
<1>1. IInv => AlignedRealPI
  BY DEF IInv, Consistent, AlignedRealPI
<1> QED BY <1>1, Invariance, PTL

(* If the kept inputs suffice, setting the dummies to 1 changes nothing.   *)
LEMMA IInvExact == IInv => LearntExact
<1> SUFFICES ASSUME IInv, NEW o \in Learnt \cap fresh
             PROVE  /\ \A p \in AllPatterns :
                          main[o][p] = oracle[o][DummiesOne(p, used[o])]
                    /\ KeptSuffice(o, AllPatterns) => main[o] = oracle[o]
  BY DEF LearntExact
<1>1. \A p \in AllPatterns : main[o][p] = oracle[o][DummiesOne(p, used[o])]
  BY DEF IInv, Complete
<1>2. ASSUME KeptSuffice(o, AllPatterns) PROVE main[o] = oracle[o]
  <2>1. /\ main[o] \in [AllPatterns -> Bit] /\ oracle[o] \in [AllPatterns -> Bit]
    <3>1. o \in DOMAIN main /\ o \in POs
      BY NumPOAssumption DEF IInv, Consistent, TypeOK, Learnt, POs
    <3> QED BY <3>1, CircuitsAssumption DEF IInv, Consistent, TypeOK
  <2>2. ASSUME NEW p \in AllPatterns PROVE main[o][p] = oracle[o][p]
    <3>1. DummiesOne(p, used[o]) \in AllPatterns
      BY DEF DummiesOne, AllPatterns, PatternsOn, Bit
    <3>2. used[o] \subseteq InputIds
      BY DEF IInv, Consistent, TypeOK
    <3>3. SameKept(o, p, DummiesOne(p, used[o]))
      BY <3>2 DEF SameKept, DummiesOne
    <3> QED BY <1>1, <1>2, <3>1, <3>3 DEF KeptSuffice
  <2> QED BY <2>1, <2>2
<1> QED BY <1>1, <1>2

(* An output iogen answered itself is learnt exactly, up to the inputs     *)
(* that were dropped.                                                      *)
THEOREM LearnsExactly == Spec => []LearntExact
BY Invariance, IInvExact, PTL

(* Counting through the numbers of up_limit digits sets the kept inputs in *)
(* all ways, and equally often.                                            *)
THEOREM CountsEqually == Spec => []SettingsEquallyOften
<1>1. IInv => SettingsEquallyOften
  <2> SUFFICES ASSUME IInv, pc = "optimise", po \in fresh, NEW s \in PatternsOn(kept)
               PROVE  Cardinality({i \in DOMAIN rows : On(rows[i], kept) = s})
                        = Pow2[up_limit - Cardinality(kept)]
    BY DEF SettingsEquallyOften
  <2>1. /\ kept \in SUBSET InputIds /\ up_limit \in Nat
        /\ Cardinality(kept) <= up_limit
        /\ rows = InPat(kept, up_limit)
    BY LimitsAssumption DEF IInv, Consistent, TypeOK, IndexInRange, Complete
  <2> QED BY <2>1, RowsCounted
<1> QED BY <1>1, Invariance, PTL

-----------------------------------------------------------------------------
(* Fixing the circuit that was built.  Fixing is Learn's Fix together with *)
(* its theorems; the two instances' definitions agree.                     *)
Fixing == INSTANCE FixNetworkProofs WITH
            Circuits <- [AllPatterns -> Bit], po <- fixed, pc <- fixing

LEMMA SameConstants ==
  /\ Fix!AllPatterns = AllPatterns /\ Fixing!AllPatterns = AllPatterns
  /\ Fix!Bit = Bit /\ Fixing!Bit = Bit
  /\ Fix!POs = POs /\ Fixing!POs = POs
  /\ Fix!CubesOn(InputIds) = Fixing!CubesOn(InputIds)
BY DEF AllPatterns, Fix!AllPatterns, Fixing!AllPatterns,
       PatternsOn, Fix!PatternsOn, Fixing!PatternsOn, Bit, Fix!Bit, Fixing!Bit,
       POs, Fix!POs, Fixing!POs, Fix!CubesOn, Fixing!CubesOn

LEMMA SameOperators ==
  /\ \A o, T, bit : Fix!FaultCubes(o, T, bit) = Fixing!FaultCubes(o, T, bit)
  /\ \A o, p : Fix!Mixed(o, p) = Fixing!Mixed(o, p)
  /\ \A real : Fix!TestSets(real) = Fixing!TestSets(real)
<1>1. \A o, T, bit : Fix!FaultCubes(o, T, bit) = Fixing!FaultCubes(o, T, bit)
  BY DEF Fix!FaultCubes, Fixing!FaultCubes, Fix!FaultCube, Fixing!FaultCube
<1>2. \A o, p : Fix!Mixed(o, p) = Fixing!Mixed(o, p)
  BY DEF Fix!Mixed, Fixing!Mixed, Fix!Or, Fixing!Or, Fix!And, Fixing!And,
         Fix!Wrong0, Fixing!Wrong0, Fix!Wrong1, Fixing!Wrong1,
         Fix!CoveredBy, Fixing!CoveredBy, Fix!Covers, Fixing!Covers
<1>3. \A real : Fix!TestSets(real) = Fixing!TestSets(real)
  <2>1. \A A : Fix!Setting(A) = Fixing!Setting(A)
    BY DEF Fix!Setting, Fixing!Setting
  <2>2. \A real : Fix!TestSetsOf(InputIds, real) = Fixing!TestSetsOf(InputIds, real)
    BY DEF Fix!TestSetsOf, Fixing!TestSetsOf
  <2> QED BY <2>1, <2>2 DEF Fix!TestSets, Fixing!TestSets
<1> QED BY <1>1, <1>2, <1>3

LEMMA SameInvariant == Fix!IInv <=> Fixing!IInv
BY SameConstants, SameOperators
   DEF Fix!IInv, Fixing!IInv, Fix!TypeOK, Fixing!TypeOK

(* What FixNetwork assumes holds here.                                     *)
LEMMA FixingAssumptions ==
  /\ NumPO \in Nat
  /\ [AllPatterns -> Bit] \subseteq [Fixing!AllPatterns -> Fixing!Bit]
  /\ Fixing!IsFiniteSet(InputIds)
<1>1. IsFiniteSet(InputIds)
  BY FiniteInputs
<1>2. Fixing!IsFiniteSet(InputIds)
  BY <1>1 DEF IsFiniteSet, Fixing!IsFiniteSet
<1> QED BY <1>2, NumPOAssumption, SameConstants

LEMMA FixInvariantKept ==
  ASSUME Fix!IInv, Fix!Next \/ UNCHANGED <<sharedVars, fixVars>>
  PROVE  Fix!IInv'
<1>1. Fixing!IInv
  BY SameInvariant
<1>2. Fix!Next => Fixing!Next
  BY SameConstants, SameOperators
     DEF Fix!Next, Fixing!Next, Fix!Skip, Fixing!Skip, Fix!FixOutput, Fixing!FixOutput,
         Fix!MixVerilog, Fixing!MixVerilog, Fix!given, Fixing!given
<1>3. [Fixing!Next]_Fixing!vars
  BY <1>2 DEF Fixing!vars, sharedVars, fixVars
<1>4. Fixing!IInv'
  BY <1>1, <1>3, FixingAssumptions, Fixing!NextIInv
<1> QED BY <1>4, SameInvariant, PTL

(* Fixing only reads what was built: seen without it, the learner is the   *)
(* loop over the outputs.                                                  *)
THEOREM LearnImplementsBuilding == LearnSpec => Spec
<1>1. LearnInit => Init
  BY DEF LearnInit
<1>2. [LearnNext]_learnVars => [Next]_vars
  <2>1. BuildStep => Next
    BY DEF BuildStep
  <2>2. StartFixing => UNCHANGED vars
    BY DEF StartFixing, buildVars, sharedVars, vars, inputs, generated
  <2>3. FixStep => UNCHANGED vars
    BY DEF FixStep, Fix!Next, Fix!Skip, Fix!FixOutput, Fix!MixVerilog, Fix!given,
           buildVars, vars, inputs, generated
  <2>4. UNCHANGED learnVars => UNCHANGED vars
    BY DEF learnVars, buildVars, sharedVars, vars, inputs, generated
  <2> QED BY <2>1, <2>2, <2>3, <2>4 DEF LearnNext
<1> QED BY <1>1, <1>2, PTL DEF LearnSpec, Spec

LEMMA LearnInitInv == LearnInit => LearnInv
BY InitIInv DEF LearnInit, LearnInv

(* What has been built is a circuit, and the list has an entry for all     *)
(* outputs.                                                                *)
LEMMA BuiltCircuit ==
  ASSUME IInv, pc = "done", DOMAIN main = POs
  PROVE  /\ oracle \in [POs -> [AllPatterns -> Bit]]
         /\ main \in [POs -> [AllPatterns -> Bit]]
         /\ realPI_to_PO \in [POs -> SUBSET InputIds]
         /\ \A o \in POs : realPI_to_PO[o] = RealInputs(o)
<1>1. po = NumPO + 1 /\ po - 1 = NumPO
  BY NumPOAssumption DEF IInv, Complete
<1>2. realPI_to_PO = [o \in POs |-> RealInputs(o)]
  BY <1>1 DEF IInv, Consistent, POs
<1>3. \A o \in POs : RealInputs(o) \subseteq InputIds
  BY DEF IInv, Consistent, TypeOK, RealInputs
<1>4. oracle \in [POs -> [AllPatterns -> Bit]]
  BY CircuitsAssumption DEF IInv, Consistent, TypeOK
<1> QED BY <1>2, <1>3, <1>4 DEF IInv, Consistent, TypeOK

LEMMA LearnNextInv == ASSUME LearnInv, [LearnNext]_learnVars PROVE LearnInv'
<1>1. CASE BuildStep
  <2>1. IInv'
    BY <1>1, NextIInv DEF BuildStep, LearnInv
  <2> QED BY <1>1, <2>1 DEF BuildStep, fixVars, LearnInv
<1>2. CASE StartFixing
  <2>1. UNCHANGED vars
    BY <1>2 DEF StartFixing, buildVars, sharedVars, vars, inputs, generated
  <2>2. IInv'
    BY <2>1, NextIInv DEF LearnInv
  <2>3. pc' = "done" /\ DOMAIN main' = POs /\ result' = main' /\ fixing' = "fix"
        /\ notTruth' = notTruth /\ fixed' = fixed /\ tested' = tested
        /\ fault0' = fault0 /\ fault1' = fault1
    BY <1>2 DEF StartFixing, buildVars, sharedVars
  <2>4. /\ fixed = 1
        /\ notTruth \in SUBSET POs
        /\ tested = [o \in POs |-> {}]
        /\ fault0 = [o \in POs |-> {}]
        /\ fault1 = [o \in POs |-> {}]
    BY <1>2 DEF StartFixing, LearnInv
  <2>5. /\ oracle' \in [POs -> [AllPatterns -> Bit]]
        /\ main' \in [POs -> [AllPatterns -> Bit]]
        /\ realPI_to_PO' \in [POs -> SUBSET InputIds]
    <3>1. /\ oracle \in [POs -> [AllPatterns -> Bit]]
          /\ main \in [POs -> [AllPatterns -> Bit]]
          /\ realPI_to_PO \in [POs -> SUBSET InputIds]
      BY <1>2, BuiltCircuit DEF StartFixing, LearnInv
    <3> QED BY <2>1, <3>1 DEF vars, inputs, generated
  <2>6. Fix!TypeOK'
    <3>1. 1 \in 1 .. NumPO + 1
      BY NumPOAssumption
    <3>2. {} \in SUBSET AllPatterns /\ {} \in SUBSET Fix!CubesOn(InputIds)
      OBVIOUS
    <3> QED BY <2>3, <2>4, <2>5, <3>1, <3>2, SameConstants DEF Fix!TypeOK
  <2>7. \A bit : \A o \in POs : Fix!FaultCubes(o, {}, bit)' = {}
    BY DEF Fix!FaultCubes
  <2>8. Fix!IInv'
    BY <2>3, <2>4, <2>6, <2>7, SameConstants DEF Fix!IInv
  <2> QED BY <2>2, <2>3, <2>8 DEF LearnInv
<1>3. CASE FixStep
  <2>1. Fix!Next /\ fixing = "fix" /\ UNCHANGED vars
    BY <1>3 DEF FixStep, Fix!Next, Fix!Skip, Fix!FixOutput, Fix!MixVerilog, Fix!given,
                buildVars, vars, inputs, generated
  <2>2. IInv'
    BY <2>1, NextIInv DEF LearnInv
  <2>3. Fix!IInv'
    BY <2>1, FixInvariantKept DEF LearnInv
  <2>4. fixing' \in {"fix", "done"} /\ pc' = pc /\ main' = main
    BY <2>1 DEF Fix!Next, Fix!Skip, Fix!FixOutput, Fix!MixVerilog, vars
  <2> QED BY <2>1, <2>2, <2>3, <2>4 DEF LearnInv
<1>4. CASE UNCHANGED learnVars
  <2>1. UNCHANGED vars /\ UNCHANGED <<sharedVars, fixVars>>
    BY <1>4 DEF learnVars, buildVars, sharedVars, vars, inputs, generated
  <2>2. IInv'
    BY <2>1, NextIInv DEF LearnInv
  <2>3. fixing # "wait" => Fix!IInv'
    BY <2>1, FixInvariantKept DEF LearnInv
  <2> QED BY <2>1, <2>2, <2>3 DEF LearnInv, sharedVars, fixVars, vars
<1> QED BY <1>1, <1>2, <1>3, <1>4 DEF LearnNext

(* The building's invariant holds throughout, and the fixing's from its    *)
(* first step on: the composition keeps what each part promises.           *)
THEOREM LearnInvariance == LearnSpec => []LearnInv
BY LearnInitInv, LearnNextInv, PTL DEF LearnSpec

-----------------------------------------------------------------------------
(* The delivered circuit.                                                  *)
LEMMA Delivered ==
  ASSUME LearnInv, fixing = "done"
  PROVE  /\ IInv /\ pc = "done" /\ DOMAIN main = POs
         /\ Fixing!IInv
         /\ Fixing!TestedFixed /\ Fixing!CorrectionsAreLocal /\ Fixing!NoNewErrors
         /\ result \in [POs -> [AllPatterns -> Bit]]
         /\ \A o \in POs : tested[o] \subseteq AllPatterns
<1>1. IInv /\ pc = "done" /\ DOMAIN main = POs /\ Fixing!IInv
  BY SameInvariant DEF LearnInv
<1>2. Fixing!TestedFixed
  BY <1>1, FixingAssumptions, Fixing!IInvTestedFixed
<1>3. Fixing!CorrectionsAreLocal
  BY <1>1, FixingAssumptions, Fixing!IInvLocal
<1>4. Fixing!NoNewErrors
  BY <1>1, <1>3, FixingAssumptions, Fixing!LocalAddsNone
<1>5. /\ result \in [POs -> [AllPatterns -> Bit]]
      /\ \A o \in POs : tested[o] \subseteq AllPatterns
  BY <1>1, SameConstants DEF Fixing!IInv, Fixing!TypeOK
<1> QED BY <1>1, <1>2, <1>3, <1>4, <1>5

(* What was learnt exactly is not touched by the corrections: none of its  *)
(* tests was wrong.                                                        *)
THEOREM ExactCircuitsStayExact == LearnSpec => []ExactStaysExact
<1>1. LearnInv => ExactStaysExact
  <2> SUFFICES ASSUME LearnInv, fixing = "done", NEW o \in Learnt \cap fresh,
                      KeptSuffice(o, AllPatterns)
               PROVE  result[o] = oracle[o]
    BY DEF ExactStaysExact
  <2>1. o \in POs /\ main[o] = oracle[o]
    BY Delivered, IInvExact DEF LearntExact, Learnt
  <2>2. ASSUME NEW p \in AllPatterns, result[o][p] # main[o][p] PROVE FALSE
    <3>1. PICK q \in tested[o] : main[o][q] # oracle[o][q]
      BY <2>1, <2>2, Delivered, SameConstants DEF Fixing!CorrectionsAreLocal
    <3> QED BY <2>1, <3>1
  <2>3. result[o] \in [AllPatterns -> Bit] /\ oracle[o] \in [AllPatterns -> Bit]
    BY <2>1, Delivered, BuiltCircuit
  <2> QED BY <2>1, <2>2, <2>3
<1> QED BY <1>1, LearnInvariance, PTL

(* Before fixing, an output says what its constant or its table says.      *)
LEMMA MainGuesses ==
  ASSUME IInv, DOMAIN main = POs, NEW o \in POs, classifyPO[o] # 2 \/ o \in fresh,
         NEW p \in AllPatterns
  PROVE  main[o][p] = Guess(o, p)
<1>1. CASE classifyPO[o] = 2
  <2>1. o \in Learnt \cap fresh
    BY <1>1 DEF Learnt
  <2> QED BY <1>1, <2>1 DEF IInv, Complete, Guess
<1>2. CASE classifyPO[o] # 2
  <2>1. main[o] = Constant(classifyPO[o])
    BY <1>2 DEF IInv, Complete, Learnt
  <2> QED BY <1>2, <2>1 DEF Constant, Guess
<1> QED BY <1>1, <1>2

(* If the real inputs in the log suffice, every error that is delivered    *)
(* was there before, and no test had the same real inputs: patterns with   *)
(* the same real inputs are guessed and corrected alike.                   *)
THEOREM EveryErrorExplained == LearnSpec => []ErrorsExplained
<1>1. LearnInv => ErrorsExplained
  <2> SUFFICES ASSUME LearnInv, fixing = "done", NEW o \in POs,
                      classifyPO[o] # 2 \/ o \in fresh, RealSuffices(o),
                      NEW p \in AllPatterns, ~ Right(o, p)
               PROVE  /\ Guess(o, p) # oracle[o][p]
                      /\ \A q \in tested[o] : ~ SameReal(o, p, q)
    BY DEF ErrorsExplained
  <2>1. /\ IInv /\ DOMAIN main = POs /\ tested[o] \subseteq AllPatterns
        /\ realPI_to_PO[o] = RealInputs(o)
    BY Delivered, BuiltCircuit
  <2>2. \A x, y : Fixing!SameReal(o, x, y) <=> SameReal(o, x, y)
    BY <2>1 DEF Fixing!SameReal, SameReal
  <2>3. \A x \in AllPatterns : main[o][x] = Guess(o, x)
    BY <2>1, MainGuesses
  <2>4. Guess(o, p) # oracle[o][p]
    <3>1. Fixing!RealSufficesAlways(o)
      BY <2>2, SameConstants DEF Fixing!RealSufficesAlways, RealSuffices
    <3> QED BY <2>3, <3>1, Delivered, SameConstants DEF Fixing!NoNewErrors, Right
  <2>5. ASSUME NEW q \in tested[o], SameReal(o, p, q) PROVE FALSE
    <3>1. q \in AllPatterns /\ oracle[o][p] = oracle[o][q]
      BY <2>1, <2>5 DEF RealSuffices
    <3>2. main[o][p] = main[o][q]
      <4>1. CASE classifyPO[o] = 2
        <5>1. DummiesOne(p, used[o]) \in AllPatterns /\ DummiesOne(q, used[o]) \in AllPatterns
          BY <3>1 DEF DummiesOne, AllPatterns, PatternsOn, Bit
        <5>2. RealInputs(o) \subseteq InputIds
          BY <2>1 DEF IInv, Consistent, TypeOK, RealInputs
        <5>3. SameReal(o, DummiesOne(p, used[o]), DummiesOne(q, used[o]))
          BY <2>5, <5>2 DEF SameReal, DummiesOne
        <5>4. oracle[o][DummiesOne(p, used[o])] = oracle[o][DummiesOne(q, used[o])]
          BY <5>1, <5>3 DEF RealSuffices
        <5> QED BY <2>3, <3>1, <4>1, <5>4 DEF Guess
      <4>2. CASE classifyPO[o] # 2
        BY <2>3, <3>1, <4>2 DEF Guess
      <4> QED BY <4>1, <4>2
    <3>3. Fixing!Mixed(o, p) = Fixing!Mixed(o, q)
      BY <2>2, <2>5, <3>1, <3>2, Delivered, FixingAssumptions, SameConstants,
         Fixing!SameCorrections
    <3>4. result[o][p] = result[o][q]
      BY <3>1, <3>3, Delivered, SameConstants DEF Fixing!IInv
    <3>5. Fixing!RealSuffices(o)
      BY <2>1, <2>2 DEF Fixing!RealSuffices, RealSuffices
    <3>6. result[o][q] = oracle[o][q]
      BY <3>5, Delivered, SameConstants DEF Fixing!TestedFixed
    <3> QED BY <3>1, <3>4, <3>6 DEF Right
  <2> QED BY <2>4, <2>5
<1> QED BY <1>1, LearnInvariance, PTL
=============================================================================
