---------------------------- MODULE TimingProofs ----------------------------
(***************************************************************************)
(* Proofs about Timing, for all limits, speeds, sizes and durations.       *)
(*                                                                         *)
(* The sums main recorded grow, so an output's inputs are never more than  *)
(* the sum that is left and its share never more than the whole.  Hence a  *)
(* capacity is at most what the remaining time allows, the patterns are at *)
(* most four fifths of it, and simulating them leaves time for the rest.   *)
(***************************************************************************)
EXTENDS Timing, TLAPS

-----------------------------------------------------------------------------
(* Facts about the integers.                                               *)

LEMMA QuotientAtMost ==
  ASSUME NEW a \in Int, NEW q \in Int, NEW m \in Nat \ {0}, a <= q * m
  PROVE  a \div m \in Int /\ a \div m <= q
<1>1. a \div m \in Int /\ a % m \in 0 .. m - 1 /\ a = m * (a \div m) + (a % m)
  OBVIOUS
<1>2. m * (a \div m) <= q * m
  BY <1>1
<1> SUFFICES ASSUME a \div m >= q + 1 PROVE FALSE
  BY <1>1
<1>3. m * (a \div m) >= m * (q + 1)
  BY <1>1
<1> QED BY <1>1, <1>2, <1>3

LEMMA QuotientTimes ==
  ASSUME NEW a \in Int, NEW m \in Nat \ {0}
  PROVE  a \div m \in Int /\ (a \div m) * m <= a
OBVIOUS

LEMMA QuotientNat ==
  ASSUME NEW a \in Nat, NEW m \in Nat \ {0} PROVE a \div m \in Nat
OBVIOUS

LEMMA TimesGrows ==
  ASSUME NEW a \in Int, NEW b \in Int, NEW c \in Nat, a <= b PROVE a * c <= b * c
OBVIOUS

LEMMA TimesCancels ==
  ASSUME NEW a \in Int, NEW b \in Int, NEW c \in Nat \ {0}, a * c <= b * c
  PROVE  a <= b
OBVIOUS

LEMMA WrapBound ==
  ASSUME NEW x \in Int PROVE Wrap(x) \in Int /\ Wrap(x) <= IntMax
<1> DEFINE y == 2 * (IntMax + 1)
<1>1. y \in Nat \ {0} /\ x + IntMax + 1 \in Int /\ IntMax \in Nat
  BY CapAssumption
<1> HIDE DEF y
<1>2. (x + IntMax + 1) % y \in 0 .. y - 1
  BY <1>1
<1>3. CASE - IntMax <= x /\ x <= IntMax
  BY <1>3 DEF Wrap
<1>4. CASE ~ (- IntMax <= x /\ x <= IntMax)
  <2>1. Wrap(x) = ((x + IntMax + 1) % y) - (IntMax + 1)
    BY <1>4 DEF Wrap, y
  <2> QED BY <1>1, <1>2, <2>1 DEF y
<1> QED BY <1>3, <1>4

-----------------------------------------------------------------------------
(* The measured rate is an integer and bounded, overflow or not.           *)
LEMMA RateBound ==
  ASSUME pattern_per_min \in Nat
  PROVE  Rate \in Int /\ Rate <= IntMax \div Base
<1> DEFINE w == Wrap(pattern_per_min * SimRate)
           b == pattern_per_min \div PerMin + Base
<1>1. w \in Int /\ w <= IntMax
  BY RateAssumption, WrapBound
<1>2. b \in Nat \ {0} /\ b >= Base /\ Base \in Nat \ {0} /\ IntMax \in Nat
  <2>1. pattern_per_min \div PerMin \in Nat
    BY RateAssumption, QuotientNat
  <2> QED BY <2>1, RateAssumption, CapAssumption
<1>3. Rate = Quotient(w, b)
  BY DEF Rate
<1> HIDE DEF w, b
<1>4. IntMax \div Base \in Nat
  BY <1>2, QuotientNat
<1>5. CASE w < 0
  <2>1. (- w) \div b \in Nat
    BY <1>1, <1>2, <1>5, QuotientNat
  <2> QED BY <1>3, <1>4, <1>5, <2>1 DEF Quotient
<1>6. CASE w >= 0
  <2>1. w \div b \in Nat /\ (w \div b) * b <= w
    BY <1>1, <1>2, <1>6, QuotientNat, QuotientTimes
  <2>2. (w \div b) * Base <= IntMax
    BY <1>1, <1>2, <2>1, TimesGrows
  <2>3. w \div b <= IntMax \div Base
    <3> DEFINE q == w \div b
               r == IntMax \div Base
    <3>1. q \in Nat /\ q * Base <= IntMax
      BY <2>1, <2>2
    <3>2. IntMax < (r + 1) * Base /\ r \in Nat
      BY <1>2, <1>4
    <3> HIDE DEF q, r
    <3> SUFFICES ASSUME q >= r + 1 PROVE FALSE
      BY <3>1, <3>2 DEF q, r
    <3>3. (r + 1) * Base <= q * Base
      BY <1>2, <3>1, <3>2, TimesGrows
    <3>4. (r + 1) * Base \in Int /\ q * Base \in Int
      BY <1>2, <3>1, <3>2
    <3> QED BY <1>2, <3>1, <3>2, <3>3, <3>4
  <2> QED BY <1>1, <1>3, <1>6, <2>1, <2>3 DEF Quotient
<1> QED BY <1>1, <1>5, <1>6

(* A share of the whole is no more than the whole.                         *)
LEMMA ShareBound ==
  ASSUME NEW left \in Nat, NEW m \in Nat, NEW whole \in Nat \ {0}, m <= whole,
         NEW rate \in Int, NEW mag \in {1, 2}
  PROVE  /\ Quotient(left * m * rate * mag, whole) \in Int
         /\ rate >= 0 => Quotient(left * m * rate * mag, whole) \in 0 .. left * rate * mag
         /\ rate < 0 => Quotient(left * m * rate * mag, whole) <= 0
<1> DEFINE p == left * m * rate * mag
<1>1. p \in Int
  OBVIOUS
<1>2. CASE rate >= 0
  <2> DEFINE u == left * rate * mag
  <2>1. u \in Nat
    <3>1. left * rate \in Nat
      BY <1>2
    <3> QED BY <3>1
  <2>2. p = m * u
    OBVIOUS
  <2> HIDE DEF p, u
  <2>3. m * u <= whole * u /\ whole * u = u * whole /\ m * u \in Nat
    BY <2>1, TimesGrows
  <2>4. p \in Nat /\ p <= u * whole
    BY <2>2, <2>3
  <2>5. p \div whole \in Nat /\ p \div whole <= u
    BY <2>1, <2>4, QuotientAtMost, QuotientNat
  <2>6. Quotient(p, whole) \in 0 .. u
    BY <2>1, <2>4, <2>5 DEF Quotient
  <2> QED BY <1>2, <2>6 DEF p, u
<1>3. CASE rate < 0
  <2>1. p <= 0
    <3>1. left * m \in Nat
      OBVIOUS
    <3>2. (left * m) * rate <= 0 /\ (left * m) * rate \in Int
      BY <1>3, <3>1
    <3> QED BY <3>2
  <2> HIDE DEF p
  <2>2. (- p) \div whole \in Nat
    BY <1>1, <2>1, QuotientNat
  <2>3. Quotient(p, whole) \in Int /\ Quotient(p, whole) <= 0
    BY <1>1, <2>1, <2>2 DEF Quotient
  <2> QED BY <1>3, <2>3 DEF p
<1> QED BY <1>2, <1>3

-----------------------------------------------------------------------------
(* What Timing_function returns for an output with n of the t0 inputs.     *)
LEMMA CapacityBound ==
  ASSUME TypeOK, remaining_time >= 0, NEW n \in Nat, n <= t0,
         NEW c \in Capacities(n)
  PROVE  /\ c \in Int
         /\ CappedCapacity(c) \in 0 .. Cap
         /\ Rate > 0 /\ c >= 0 => c <= remaining_time * Rate * Mag(n)
<1> DEFINE left == remaining_time
           top  == IntMax \div Base
<1>1. left \in 0 .. AltTimeLimit
  BY LimitsAssumption DEF TypeOK, Budget, remaining_time
<1>2. Rate \in Int /\ Rate <= top
  BY RateBound, InputsAssumption DEF TypeOK
<1>3. Mag(n) \in {1, 2}
  BY DEF Mag
<1>4. top \in Nat
  BY RateAssumption, CapAssumption, QuotientNat
<1>5. AltTimeLimit \in Nat /\ Cap \in Nat /\ 2 * AltTimeLimit * top <= Cap
  BY LimitsAssumption, CapAssumption
<1>6. t0 \in Nat
  BY DEF TypeOK
<1>7. CASE t0 = 0
  <2>1. c = -1
    BY <1>7 DEF Capacities
  <2> QED BY <1>5, <2>1 DEF CappedCapacity
<1>8. CASE t0 # 0
  <2> DEFINE q == Quotient(left * n * Rate * Mag(n), t0)
  <2>1. /\ q \in Int
        /\ Rate >= 0 => q \in 0 .. left * Rate * Mag(n)
        /\ Rate < 0 => q <= 0
    <3>1. left \in Nat /\ t0 \in Nat \ {0} /\ Rate \in Int
      BY <1>1, <1>2, <1>5, <1>6, <1>8
    <3> HIDE DEF left
    <3> QED BY <1>3, <3>1, ShareBound
  <2>2. c \in {q} \/ (q > 0 /\ c \in {q, q - 1}) \/ (q < 0 /\ c \in {q, q + 1})
    BY <1>8 DEF Capacities, Capacity
  <2> HIDE DEF q, left, top
  <2>3. c \in Int
    BY <2>1, <2>2
  <2>4. CASE Rate >= 0
    <3> DEFINE u == left * Rate * Mag(n)
    <3>1. left * Rate <= AltTimeLimit * Rate /\ left * Rate \in Nat
      BY <1>1, <1>2, <1>5, <2>4, TimesGrows
    <3>2. AltTimeLimit * Rate \in Nat /\ AltTimeLimit * top \in Nat
      BY <1>2, <1>4, <1>5, <2>4
    <3>3. Rate * AltTimeLimit <= top * AltTimeLimit
      BY <1>2, <1>4, <1>5, TimesGrows
    <3>4. AltTimeLimit * Rate <= AltTimeLimit * top
      BY <1>2, <1>4, <1>5, <3>3
    <3>5. left * Rate <= AltTimeLimit * top
      BY <3>1, <3>2, <3>4
    <3>6. u \in Nat /\ u <= 2 * (AltTimeLimit * top)
      BY <1>3, <3>1, <3>2, <3>5
    <3>7. 2 * (AltTimeLimit * top) = 2 * AltTimeLimit * top
      BY <1>4, <1>5
    <3> HIDE DEF u
    <3>8. c \in Int /\ c >= 0 /\ c <= u
      <4>1. q \in 0 .. u
        BY <2>1, <2>4 DEF u
      <4> QED BY <2>2, <3>6, <4>1
    <3>9. c <= Cap
      BY <1>5, <3>2, <3>6, <3>7, <3>8
    <3> QED BY <1>5, <3>8, <3>9 DEF CappedCapacity, u, left
  <2>5. CASE Rate < 0
    <3>1. c <= 0
      BY <2>1, <2>2, <2>5
    <3> QED BY <1>2, <1>5, <2>3, <2>5, <3>1 DEF CappedCapacity
  <2> QED BY <1>2, <2>4, <2>5
<1> QED BY <1>6, <1>7, <1>8

(* The patterns planned are at most four fifths of the capacity.           *)
LEMMA LimitBound ==
  ASSUME TypeOK, NEW n \in Nat, NEW c \in Nat
  PROVE  /\ Limit(n, c) \in Nat
         /\ 5 * (2 * Limit(n, c) * Rounds(n)) <= 4 * c
<1> DEFINE r == Rounds(n)
           f == FourFifthsHalved(c)
           l == Limit(n, c)
<1>1. r \in Nat \ {0}
  BY QuotientNat DEF Rounds
<1>2. f \in Nat /\ 5 * f <= 2 * c
  <2>1. /\ c \div 5 \in Nat /\ c % 5 \in 0 .. 4
        /\ c = 5 * (c \div 5) + (c % 5)
    OBVIOUS
  <2>2. /\ ((c % 5) * 2) \div 5 \in Nat
        /\ 5 * (((c % 5) * 2) \div 5) <= (c % 5) * 2
    BY <2>1
  <2> QED BY <2>1, <2>2 DEF FourFifthsHalved
<1>3. f \div r \in Nat /\ (f \div r) * r <= f
  <2> HIDE DEF f, r
  <2> QED BY <1>1, <1>2, QuotientNat, QuotientTimes
<1>4. l \in Nat /\ l <= f \div r
  BY <1>3, LimitsAssumption DEF Limit
<1> HIDE DEF r, f, l
<1>5. l * r <= (f \div r) * r
  BY <1>1, <1>3, <1>4, TimesGrows
<1>6. l * r \in Nat /\ (f \div r) * r \in Nat
  BY <1>1, <1>3, <1>4
<1>7. 2 * l * r = 2 * (l * r)
  BY <1>1, <1>4
<1> QED BY <1>2, <1>3, <1>4, <1>5, <1>6, <1>7 DEF l, r

LEMMA CountsBound ==
  ASSUME NEW n \in Nat, NEW l \in Nat, NEW c \in 0 .. Cap,
         5 * (2 * l * Rounds(n)) <= 4 * c
  PROVE  l <= IntMax /\ l * n <= IntMax
<1> DEFINE r == 2 * Rounds(n)
<1>1. r \in Nat /\ n <= r /\ 1 <= r /\ Rounds(n) \in Nat
  BY DEF Rounds
<1> HIDE DEF r
<1>2. n * l <= r * l /\ 1 * l <= r * l
  BY <1>1, TimesGrows
<1>3. r * l \in Nat /\ r * l = 2 * l * Rounds(n)
  BY <1>1 DEF r
<1>4. 5 * (r * l) <= 4 * Cap /\ Cap \in Nat /\ IntMax \in Nat
  BY <1>3, CapAssumption
<1> DEFINE k == r * l
<1> HIDE DEF k
<1>5. k <= IntMax
  <2>1. Cap = 5 * (Cap \div 5) + (Cap % 5) /\ Cap % 5 \in 0 .. 4 /\ Cap \div 5 \in Nat
    BY <1>4
  <2>2. k \in Nat /\ 5 * k <= 4 * Cap
    BY <1>3, <1>4 DEF k
  <2>3. (Cap \div 5) * 4 + 4 <= IntMax
    BY CapAssumption
  <2> QED BY <1>4, <2>1, <2>2, <2>3
<1>6. n * l \in Nat /\ n * l = l * n /\ 1 * l = l
  OBVIOUS
<1> QED BY <1>2, <1>3, <1>4, <1>5, <1>6 DEF k

LEMMA Unchanged ==
  ASSUME given' = given PROVE Rate' = Rate /\ Budget' = Budget
BY DEF given, Rate, Budget

-----------------------------------------------------------------------------
(* The invariant holds at the start and every step keeps it.               *)
LEMMA InitIInv == Init => IInv
<1> SUFFICES ASSUME Init PROVE IInv
  OBVIOUS
<1>1. NumFix \in Nat /\ begin \in Nat /\ IntMax \in Nat
  BY InputsAssumption, CapAssumption DEF Init
<1>2. TypeOK
  <2>1. {capped, doubled, late} \subseteq BOOLEAN
    BY DEF Init
  <2>2. next \in 1 .. NumFix + 1 /\ begin <= elapsed /\ elapsed \in Nat
    BY <1>1 DEF Init
  <2> QED BY <1>1, <2>1, <2>2 DEF Init, TypeOK
<1>3. PartialInv
  BY DEF Init, PartialInv, Summed
<1>4. SharesAddUp /\ PlanInv
  BY DEF Init, SharesAddUp, PlanInv
<1>5. CountsFitInt
  BY <1>1 DEF Init, CountsFitInt
<1>6. OnTime
  BY DEF Init, OnTime
<1> QED BY <1>2, <1>3, <1>4, <1>5, <1>6 DEF IInv

LEMMA AddInputsIInv == IInv /\ AddInputs => IInv'
<1> SUFFICES ASSUME IInv, AddInputs PROVE IInv'
  OBVIOUS
<1>1. TypeOK /\ PartialInv
  BY DEF IInv
<1>2. next \in 1 .. NumFix /\ sizes[next] \in Nat /\ t0 \in Nat /\ NumFix \in Nat
  BY <1>1, InputsAssumption DEF AddInputs, TypeOK
<1>3. TypeOK'
  BY <1>1, <1>2 DEF TypeOK, AddInputs, given
<1>4. Summed = next - 1 /\ Summed' = next
  BY <1>2 DEF AddInputs, Summed
<1>5. /\ DOMAIN partial' = 0 .. next
      /\ partial'[next] = t0 + sizes[next]
      /\ \A m \in 0 .. next - 1 : partial'[m] = partial[m]
  BY <1>2 DEF AddInputs
<1>6. /\ partial[0] = 0 /\ t0 = partial[next - 1]
      /\ \A m \in 0 .. next - 1 : partial[m] \in Nat /\ partial[m] <= t0
      /\ \A m \in 1 .. next - 1 : partial[m] = partial[m - 1] + sizes[m]
  BY <1>1, <1>4 DEF PartialInv, AddInputs
<1>7. PartialInv'
  <2>1. partial'[0] = 0 /\ t0' = partial'[next' - 1] /\ sizes' = sizes
    BY <1>2, <1>5, <1>6 DEF AddInputs, given
  <2>2. \A m \in 0 .. next : partial'[m] \in Nat /\ partial'[m] <= partial'[next]
    <3> TAKE m \in 0 .. next
    <3>1. CASE m = next
      BY <1>2, <1>5, <3>1
    <3>2. CASE m \in 0 .. next - 1
      <4>1. partial'[m] = partial[m] /\ partial[m] \in Nat /\ partial[m] <= t0
        BY <1>5, <1>6, <3>2
      <4>2. partial'[next] = t0 + sizes[next] /\ t0 \in Nat /\ sizes[next] \in Nat
        BY <1>2, <1>5
      <4> QED BY <4>1, <4>2
    <3> QED BY <1>2, <3>1, <3>2
  <2>3. \A m \in 1 .. next : partial'[m] = partial'[m - 1] + sizes[m]
    <3> TAKE m \in 1 .. next
    <3>1. m - 1 \in 0 .. next - 1
      BY <1>2
    <3>2. CASE m = next
      BY <1>2, <1>5, <1>6, <3>1, <3>2
    <3>3. CASE m \in 1 .. next - 1
      BY <1>2, <1>5, <1>6, <3>1, <3>3
    <3> QED BY <1>2, <3>2, <3>3
  <2> QED BY <1>4, <1>5, <2>1, <2>2, <2>3 DEF PartialInv
<1>8. SharesAddUp' /\ PlanInv'
  BY DEF AddInputs, SharesAddUp, PlanInv
<1>9. CountsFitInt'
  BY DEF IInv, AddInputs, CountsFitInt
<1>10. OnTime'
  BY Unchanged DEF IInv, AddInputs, OnTime, given
<1> QED BY <1>3, <1>7, <1>8, <1>9, <1>10 DEF IInv

LEMMA StartPlanningIInv == IInv /\ StartPlanning => IInv'
<1> SUFFICES ASSUME IInv, StartPlanning PROVE IInv'
  OBVIOUS
<1>1. TypeOK /\ PartialInv
  BY DEF IInv
<1>2. next = NumFix + 1 /\ NumFix \in Nat
  BY <1>1, InputsAssumption DEF StartPlanning, TypeOK
<1>3. TypeOK'
  BY <1>1, <1>2 DEF TypeOK, StartPlanning, given
<1>4. Summed = NumFix /\ Summed' = NumFix /\ pc = "sum" /\ next - 1 = NumFix
  BY <1>2 DEF StartPlanning, Summed
<1>5. PartialInv'
  BY <1>1, <1>4 DEF PartialInv, StartPlanning, given
<1>6. SharesAddUp'
  BY <1>1, <1>2, <1>4 DEF PartialInv, SharesAddUp, StartPlanning, TypeOK
<1>7. CountsFitInt' /\ PlanInv'
  BY DEF IInv, StartPlanning, CountsFitInt, PlanInv
<1>8. OnTime'
  BY Unchanged DEF IInv, StartPlanning, OnTime, given
<1> QED BY <1>3, <1>5, <1>6, <1>7, <1>8 DEF IInv

(* An output's inputs are never more than the sum that is left.            *)
LEMMA TakenFits ==
  ASSUME IInv, pc = "plan", next \in DOMAIN sizes, TakeInputs,
         UNCHANGED <<given, partial>>, pc' = "fix"
  PROVE  /\ next \in 1 .. NumFix
         /\ sizes[next] \in Nat /\ t0 \in Nat /\ sizes[next] <= t0
         /\ t0' = t0 - sizes[next] /\ t1' = sizes[next] /\ next' = next + 1
         /\ PartialInv' /\ SharesAddUp'
<1>1. TypeOK /\ PartialInv /\ SharesAddUp
  BY DEF IInv
<1>2. next \in 1 .. NumFix /\ sizes[next] \in Nat /\ t0 \in Nat /\ NumFix \in Nat
  BY <1>1, InputsAssumption DEF TypeOK
<1>3. Summed = NumFix /\ Summed' = NumFix
  BY DEF Summed
<1>4. t0 = partial[NumFix] - partial[next - 1]
  BY <1>1 DEF SharesAddUp
<1>5. /\ partial[next] \in Nat /\ partial[next - 1] \in Nat /\ partial[NumFix] \in Nat
      /\ partial[next] <= partial[NumFix]
      /\ partial[next] = partial[next - 1] + sizes[next]
  BY <1>1, <1>2, <1>3 DEF PartialInv
<1>6. t0' = t0 - sizes[next] /\ t1' = sizes[next] /\ next' = next + 1
  BY DEF TakeInputs
<1>7. PartialInv'
  BY <1>1, <1>3 DEF PartialInv, given
<1>8. SharesAddUp'
  <2>1. next' - 1 = next
    BY <1>2, <1>6
  <2> QED BY <1>2, <1>4, <1>5, <1>6, <2>1 DEF SharesAddUp
<1> QED BY <1>2, <1>4, <1>5, <1>6, <1>7, <1>8

LEMMA RunOutIInv == IInv /\ RunOut => IInv'
<1> SUFFICES ASSUME IInv, RunOut PROVE IInv'
  OBVIOUS
<1>1. /\ next \in 1 .. NumFix
      /\ sizes[next] \in Nat /\ t0 \in Nat /\ sizes[next] <= t0
      /\ t0' = t0 - sizes[next] /\ t1' = sizes[next] /\ next' = next + 1
      /\ PartialInv' /\ SharesAddUp'
  BY TakenFits DEF RunOut
<1>2. NumFix \in Nat /\ IntMax \in Nat
  BY InputsAssumption, CapAssumption
<1>3. TypeOK'
  BY <1>1, <1>2 DEF IInv, TypeOK, RunOut, given
<1>4. CountsFitInt' /\ PlanInv'
  BY <1>1, <1>2 DEF RunOut, CountsFitInt, PlanInv
<1>5. OnTime'
  BY Unchanged DEF IInv, RunOut, OnTime, given
<1> QED BY <1>1, <1>3, <1>4, <1>5 DEF IInv

LEMMA PlanIInv == IInv /\ Plan => IInv'
<1> SUFFICES ASSUME IInv, Plan PROVE IInv'
  OBVIOUS
<1> DEFINE n == sizes[next]
<1>1. /\ next \in 1 .. NumFix
      /\ n \in Nat /\ t0 \in Nat /\ n <= t0
      /\ t0' = t0 - n /\ t1' = n /\ next' = next + 1
      /\ PartialInv' /\ SharesAddUp'
  BY TakenFits DEF Plan
<1>2. PICK c \in Capacities(n) :
        /\ full_capacity' = CappedCapacity(c)
        /\ up_limit' = Limit(n, full_capacity')
        /\ capped' = (capped \/ c < 0)
  BY DEF Plan
<1>3. TypeOK /\ remaining_time >= 0
  BY DEF IInv, Plan
<1>4. /\ c \in Int
      /\ CappedCapacity(c) \in 0 .. Cap
      /\ Rate > 0 /\ c >= 0 => c <= remaining_time * Rate * Mag(n)
  BY <1>1, <1>3, CapacityBound
<1> DEFINE f == CappedCapacity(c)
           l == Limit(n, f)
<1>5. f \in Nat
  BY <1>4, CapAssumption
<1>6. l \in Nat /\ 5 * (2 * l * Rounds(n)) <= 4 * f
  <2> HIDE DEF f, n
  <2> QED BY <1>1, <1>3, <1>5, LimitBound
<1>7. up_limit' = l /\ full_capacity' = f
  BY <1>2
<1>8. given' = given /\ elapsed' = elapsed /\ partial' = partial /\ late' = late
  BY DEF Plan
<1>9. doubled' = (doubled \/ Mag(n) = 2) /\ pc' = "fix"
  BY DEF Plan
<1>10. NumFix \in Nat
  BY InputsAssumption
<1>11. TypeOK'
  <2>1. next' \in 1 .. NumFix + 1 /\ t0' \in Nat /\ t1' \in Nat
    BY <1>1, <1>10
  <2>2. {capped', doubled', late'} \subseteq BOOLEAN
    BY <1>2, <1>3, <1>8, <1>9 DEF TypeOK
  <2> HIDE DEF f, l
  <2> QED BY <1>3, <1>5, <1>6, <1>7, <1>8, <1>9, <2>1, <2>2 DEF TypeOK, given
<1>12. CountsFitInt'
  <2>1. l <= IntMax /\ l * n <= IntMax
    <3> HIDE DEF f, l, n
    <3> QED BY <1>1, <1>4, <1>6, CountsBound DEF f
  <2> QED BY <1>1, <1>7, <2>1 DEF CountsFitInt
<1>13. PlanInv'
  <2> SUFFICES ASSUME ~ capped', Rate > 0
               PROVE  /\ elapsed <= Budget
                      /\ 5 * PlannedPatterns' <=
                           (IF doubled' THEN 8 ELSE 4) * (Budget - elapsed) * Rate
    BY <1>8, Unchanged DEF PlanInv
  <2>1. elapsed \in Nat /\ Budget \in Nat /\ elapsed <= Budget
    BY <1>3, LimitsAssumption DEF TypeOK, remaining_time, Budget
  <2>2. Rate \in Int
    BY <1>3, RateBound, InputsAssumption DEF TypeOK
  <2>3. f = c /\ c >= 0
    <3>1. ~ (c < 0)
      BY <1>2, Zenon
    <3> QED BY <1>4, <3>1 DEF CappedCapacity
  <2> DEFINE u == (Budget - elapsed) * Rate
  <2>4. u \in Nat
    BY <2>1, <2>2
  <2>5. Mag(n) \in {1, 2} /\ c <= u * Mag(n)
    BY <1>4, <2>3 DEF remaining_time, Mag
  <2>6. PlannedPatterns' = 2 * l * Rounds(n)
    BY <1>1, <1>7 DEF PlannedPatterns, Rounds
  <2> DEFINE p == 2 * l * Rounds(n)
  <2>7. p \in Nat
    BY <1>1, <1>6 DEF Rounds
  <2>8. (IF doubled' THEN 8 ELSE 4) * (Budget - elapsed) * Rate
          = (IF doubled' THEN 8 ELSE 4) * u
    BY <2>1, <2>2
  <2>9. 5 * p <= 4 * c
    BY <1>6, <2>3
  <2> HIDE DEF u, p, f, l, n
  <2>10. 5 * p <= (IF doubled' THEN 8 ELSE 4) * u
    <3>1. CASE Mag(n) = 2
      <4>1. doubled'
        BY <1>9, <3>1, Zenon
      <4>2. c <= 2 * u
        BY <1>4, <2>4, <2>5, <3>1
      <4> QED BY <1>4, <2>4, <2>7, <2>9, <4>1, <4>2
    <3>2. CASE Mag(n) = 1
      <4>1. c <= u
        BY <1>4, <2>4, <2>5, <3>2
      <4> QED BY <1>4, <2>4, <2>7, <2>9, <4>1
    <3> QED BY <2>5, <3>1, <3>2
  <2> QED BY <2>1, <2>6, <2>8, <2>10 DEF p
<1>14. OnTime'
  <2> SUFFICES ASSUME ~ late', ~ capped', Rate > 0, begin <= Budget
               PROVE  IF doubled' THEN 5 * elapsed <= 8 * Budget ELSE elapsed <= Budget
    BY <1>8, Unchanged DEF OnTime, given
  <2>1. elapsed \in Nat /\ Budget \in Nat /\ elapsed <= Budget
    BY <1>3, LimitsAssumption DEF TypeOK, remaining_time, Budget
  <2> QED BY <2>1
<1> QED BY <1>1, <1>11, <1>12, <1>13, <1>14 DEF IInv

LEMMA FixIInv == IInv /\ Fix => IInv'
<1> SUFFICES ASSUME IInv, Fix PROVE IInv'
  OBVIOUS
<1>1. PICK d \in Durations :
        /\ elapsed' = elapsed + d
        /\ late' = (late \/ d * Rate > PlannedPatterns)
  BY DEF Fix
<1>2. d \in Nat /\ TypeOK
  BY InputsAssumption DEF IInv
<1>3. TypeOK'
  BY <1>1, <1>2 DEF TypeOK, Fix, given
<1>4. PartialInv' /\ SharesAddUp'
  BY DEF IInv, Fix, PartialInv, SharesAddUp, Summed, given
<1>5. CountsFitInt' /\ PlanInv'
  BY DEF IInv, Fix, CountsFitInt, PlanInv
<1>6. OnTime'
  <2> SUFFICES ASSUME ~ late', ~ capped, Rate > 0, begin <= Budget
               PROVE  IF doubled THEN 5 * (elapsed + d) <= 8 * Budget
                      ELSE elapsed + d <= Budget
    BY <1>1, Unchanged DEF OnTime, Fix, given
  <2>1. elapsed \in Nat /\ Budget \in Nat /\ Rate \in Nat \ {0}
    BY <1>2, RateBound, InputsAssumption, LimitsAssumption DEF TypeOK, Budget
  <2>2. IF doubled THEN 5 * elapsed <= 8 * Budget ELSE elapsed <= Budget
    BY <1>1 DEF IInv, OnTime
  <2>3. d * Rate <= PlannedPatterns /\ PlannedPatterns \in Nat
    <3>1. ~ (d * Rate > PlannedPatterns)
      BY <1>1, Zenon
    <3>2. PlannedPatterns \in Nat
      <4>1. Rounds(t1) \in Nat /\ up_limit \in Nat
        BY <1>2 DEF TypeOK, Rounds
      <4> QED BY <4>1 DEF PlannedPatterns
    <3>3. d * Rate \in Nat
      BY <1>2, <2>1
    <3> QED BY <3>1, <3>2, <3>3
  <2>4. CASE up_limit = 0
    <3>1. PlannedPatterns = 0
      BY <1>2, <2>4 DEF TypeOK, PlannedPatterns, Rounds
    <3>2. d * Rate <= 0 * Rate
      BY <2>1, <2>3, <3>1
    <3>3. d = 0
      BY <1>2, <2>1, <3>2, TimesCancels
    <3> QED BY <2>1, <2>2, <3>3
  <2>5. CASE up_limit # 0
    <3> DEFINE k == IF doubled THEN 8 ELSE 4
    <3>1. elapsed <= Budget /\ 5 * PlannedPatterns <= k * (Budget - elapsed) * Rate
      BY <2>5 DEF IInv, PlanInv, Fix
    <3>2. (5 * d) * Rate <= (k * (Budget - elapsed)) * Rate
      <4>1. (5 * d) * Rate = 5 * (d * Rate) /\ d * Rate \in Nat
        BY <1>2, <2>1
      <4>2. k * (Budget - elapsed) * Rate = (k * (Budget - elapsed)) * Rate
        OBVIOUS
      <4>3. k * (Budget - elapsed) * Rate \in Int
        BY <2>1, <1>2 DEF TypeOK
      <4> DEFINE x == k * (Budget - elapsed) * Rate
                 y == d * Rate
      <4>4. 5 * PlannedPatterns <= x /\ x \in Int /\ y \in Nat
        BY <3>1, <4>1, <4>3
      <4> HIDE DEF k, x, y
      <4>5. 5 * y <= x
        BY <2>3, <4>4 DEF y
      <4> QED BY <4>1, <4>2, <4>5 DEF x, y
    <3>3. k * (Budget - elapsed) \in Int
      BY <2>1
    <3>4. 5 * d <= k * (Budget - elapsed)
      <4> HIDE DEF k
      <4> QED BY <1>2, <2>1, <3>2, <3>3, TimesCancels
    <3> QED BY <1>2, <2>1, <3>1, <3>4
  <2> QED BY <2>4, <2>5
<1> QED BY <1>3, <1>4, <1>5, <1>6 DEF IInv

-----------------------------------------------------------------------------
(* The invariant of main's loop over the outputs to be fixed.              *)
THEOREM Invariance == Spec => []IInv
<1>1. IInv /\ [Next]_vars => IInv'
  <2> SUFFICES ASSUME IInv, [Next]_vars PROVE IInv'
    OBVIOUS
  <2>1. CASE UNCHANGED vars
    <3>1. Rate' = Rate /\ Budget' = Budget /\ PlannedPatterns' = PlannedPatterns
      BY <2>1, Unchanged DEF vars, given, PlannedPatterns, Rounds
    <3>2. TypeOK' /\ PartialInv' /\ SharesAddUp' /\ CountsFitInt'
      BY <2>1 DEF vars, given, IInv, TypeOK, PartialInv, Summed, SharesAddUp,
                  CountsFitInt
    <3>3. PlanInv' /\ OnTime'
      BY <2>1, <3>1 DEF vars, given, IInv, PlanInv, OnTime
    <3> QED BY <3>2, <3>3 DEF IInv
  <2> QED BY <2>1, AddInputsIInv, StartPlanningIInv, RunOutIInv, PlanIInv, FixIInv
          DEF Next
<1> QED BY <1>1, InitIInv, PTL DEF Spec

(* The sum of inputs, the capacities and the limits are natural numbers.   *)
THEOREM TypeCorrect == Spec => []TypeOK
BY Invariance, PTL DEF IInv

(* timing_info[0] is what is left of main's sum before every call.         *)
THEOREM LastGetsAll == Spec => []SharesAddUp
BY Invariance, PTL DEF IInv

(* The limit and the choices counted up to it fit C's int.                 *)
THEOREM CountsFit == Spec => []CountsFitInt
BY Invariance, PTL DEF IInv

(* Simulating at the measured rate never exceeds the time limit.           *)
THEOREM FixingIsOnTime == Spec => []OnTime
BY Invariance, PTL DEF IInv
=============================================================================
