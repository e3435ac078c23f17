------------------------------- MODULE Timing -------------------------------
(***************************************************************************)
(* Timing_function of src/TimingFunc.cpp and the loop of main that calls   *)
(* it: each output whose truth table was too large is given a number of    *)
(* test patterns, from the time that is left and its share of the inputs.  *)
(*                                                                         *)
(* Doubles are modelled by the integers they are truncated to.  A quotient *)
(* that is whole may come out just below, and so one less.  An int product *)
(* that overflows wraps, and a NaN becomes the smallest long, which is     *)
(* what the build does.                                                    *)
(***************************************************************************)
EXTENDS Integers

CONSTANTS
  TimeLimit,     (* TIME_LIMIT, seconds; 2000 in the code                  *)
  AltTimeLimit,  (* alt_time_limit, for small circuits; 2500               *)
  ManyGates,     (* above this TimeLimit applies; 200                      *)
  FewGates,      (* below this the capacity may be doubled; 60             *)
  FewInputs,     (* and only with fewer inputs than this; 40               *)
  Large,         (* input counts with a limit of their own; 70 and 71      *)
  LargeLimit,    (* which is 110000                                        *)
  SimRate,       (* 166                                                    *)
  PerMin,        (* 60                                                     *)
  Base,          (* 10000                                                  *)
  Cap,           (* the capacity taken for one "exceeded"; 2000000000      *)
  IntMax,        (* the largest int                                        *)
  InputCounts,   (* bound: sizes of the lists in realPI_to_PO              *)
  NumFix,        (* how many outputs not_truth_table_PO lists              *)
  GateCounts,    (* bound: gate counts of the circuit                      *)
  Speeds,        (* bound: values of pattern_per_min                       *)
  Durations      (* bound: seconds the build or a FixNetwork may take      *)

ASSUME LimitsAssumption ==
  /\ TimeLimit \in Nat /\ AltTimeLimit \in Nat /\ TimeLimit <= AltTimeLimit
  /\ LargeLimit \in Nat /\ FewInputs \in Nat
  /\ ManyGates \in Nat /\ FewGates \in Nat
ASSUME RateAssumption ==
  /\ SimRate \in Nat \ {0} /\ PerMin \in Nat \ {0} /\ Base \in Nat \ {0}
ASSUME CapAssumption ==
  /\ IntMax \in Nat /\ Cap \in Nat
  /\ 2 * AltTimeLimit * (IntMax \div Base) <= Cap
  /\ (Cap \div 5) * 4 + 4 <= IntMax
ASSUME InputsAssumption ==
  /\ InputCounts \subseteq Nat /\ NumFix \in Nat
  /\ GateCounts \subseteq Nat /\ Speeds \subseteq Nat /\ Durations \subseteq Nat

VARIABLES
  pattern_per_min,  (* timing_info[2], measured by BuildDummyInfo          *)
  gatecnt,          (* of the circuit before fixing                        *)
  sizes,            (* the input counts of the outputs to be fixed         *)
  next,             (* the output the loop is at, counted from 1           *)
  t0,               (* timing_info[0]                                      *)
  partial,          (* its value after each step of the summing (history)  *)
  t1,               (* timing_info[1]                                      *)
  begin,            (* the seconds the build took (history)                *)
  elapsed,          (* difftime(time(NULL), start_clk)                     *)
  full_capacity,    (* of the last call                                    *)
  up_limit,         (* what the last call returned                         *)
  capped,           (* has full_capacity been replaced?  (history)         *)
  doubled,          (* has it been doubled?  (history)                     *)
  late,             (* has fixing taken longer than its patterns? (history)*)
  pc                (* "sum", "plan" or "fix"                              *)

given == <<pattern_per_min, gatecnt, begin, sizes>>

vars == <<given, next, t0, partial, t1, elapsed, full_capacity, up_limit, capped,
          doubled, late, pc>>

-----------------------------------------------------------------------------
(* C's int: products wrap, quotients are cut off towards zero.             *)

Wrap(x) ==
  IF - IntMax <= x /\ x <= IntMax THEN x
  ELSE ((x + IntMax + 1) % (2 * (IntMax + 1))) - (IntMax + 1)

Quotient(a, b) == IF a < 0 THEN - ((- a) \div b) ELSE a \div b

(* Patterns per second through iogen and the simulator together.           *)
Rate ==
  Quotient(Wrap(pattern_per_min * SimRate), pattern_per_min \div PerMin + Base)

Budget == IF gatecnt > ManyGates THEN TimeLimit ELSE AltTimeLimit

remaining_time == Budget - elapsed

(* Is PI_num_ratio 1?  Then this output gets all the time there is.        *)
Alone(n) == n = t0 /\ n # 0

Mag(n) == IF gatecnt < FewGates /\ Alone(n) /\ n < FewInputs THEN 2 ELSE 1

(* The long that remaining_time * (n / t0) * Rate * Mag becomes, t0 # 0.   *)
Capacity(n) ==
  LET product == remaining_time * n * Rate * Mag(n)
      q       == Quotient(product, t0)
      whole   == q * t0 = product /\ n # t0
  IN  IF whole /\ q > 0 THEN {q, q - 1}
      ELSE IF whole /\ q < 0 THEN {q, q + 1}
      ELSE {q}

(* "exceeded"                                                              *)
CappedCapacity(c) == IF c < 0 THEN Cap ELSE c

(* Rounds of patterns: n / 2 numbers of ones and the two random loops.     *)
Rounds(n) == n \div 2 + 2

(* Faulty variant: complements are not counted.                            *)
FourFifths(c) == (c \div 5) * 4 + ((c % 5) * 4) \div 5

FourFifthsHalved(c) == (c \div 5) * 2 + ((c % 5) * 2) \div 5

Limit(n, c) ==
  LET limit == FourFifthsHalved(c) \div Rounds(n)
  IN  IF Alone(n) /\ n \in Large /\ limit > LargeLimit THEN LargeLimit ELSE limit

-----------------------------------------------------------------------------
Init ==
  /\ pattern_per_min \in Speeds
  /\ gatecnt \in GateCounts
  /\ sizes \in [1 .. NumFix -> InputCounts]
  /\ next = 1
  /\ t0 = 0
  /\ partial = [m \in {0} |-> 0]
  /\ t1 = 0
  /\ begin \in Durations
  /\ elapsed = begin
  /\ full_capacity = 0
  /\ up_limit = 0
  /\ capped = FALSE
  /\ doubled = FALSE
  /\ late = FALSE
  /\ pc = "sum"

(* main adds up the real inputs of the outputs to be fixed.                *)
AddInputs ==
  /\ pc = "sum"
  /\ next \in DOMAIN sizes
  /\ t0' = t0 + sizes[next]
  /\ partial' = [m \in 0 .. next |-> IF m = next THEN t0' ELSE partial[m]]
  /\ next' = next + 1
  /\ UNCHANGED <<given, t1, elapsed, full_capacity, up_limit, capped, doubled,
                 late, pc>>

StartPlanning ==
  /\ pc = "sum"
  /\ next \notin DOMAIN sizes
  /\ next' = 1
  /\ pc' = "plan"
  /\ UNCHANGED <<given, t0, partial, t1, elapsed, full_capacity, up_limit,
                 capped, doubled, late>>

(* Faulty variant: the sum is left as it was.                              *)
KeepSum ==
  /\ t1' = sizes[next]
  /\ t0' = t0
  /\ next' = next + 1

(* timing_info[1] is set by main, timing_info[0] reduced by the function.  *)
TakeInputs ==
  /\ t1' = sizes[next]
  /\ t0' = t0 - sizes[next]
  /\ next' = next + 1

(* The time has run out: no patterns.                                      *)
RunOut ==
  /\ pc = "plan"
  /\ next \in DOMAIN sizes
  /\ remaining_time < 0
  /\ TakeInputs
  /\ full_capacity' = 0
  /\ up_limit' = 0
  /\ pc' = "fix"
  /\ UNCHANGED <<given, partial, elapsed, capped, doubled, late>>

(* 0 / 0 is no number, and what it is converted to is negative.            *)
Capacities(n) == IF t0 = 0 THEN {-1} ELSE Capacity(n)

Plan ==
  /\ pc = "plan"
  /\ next \in DOMAIN sizes
  /\ remaining_time >= 0
  /\ TakeInputs
  /\ \E c \in Capacities(sizes[next]) :
       /\ full_capacity' = CappedCapacity(c)
       /\ up_limit' = Limit(sizes[next], full_capacity')
       /\ capped' = (capped \/ c < 0)
  /\ doubled' = (doubled \/ Mag(sizes[next]) = 2)
  /\ pc' = "fix"
  /\ UNCHANGED <<given, partial, elapsed, late>>

(* What CreatePattern makes of the limit, random loops included.  The two  *)
(* patterns, or four, by which a round may pass it are not counted.        *)
PlannedPatterns == 2 * up_limit * Rounds(t1)

(* FixNetwork returns after any time.                                      *)
Fix ==
  /\ pc = "fix"
  /\ \E d \in Durations :
       /\ elapsed' = elapsed + d
       /\ late' = (late \/ d * Rate > PlannedPatterns)
  /\ pc' = "plan"
  /\ UNCHANGED <<given, next, t0, partial, t1, full_capacity, up_limit, capped,
                 doubled>>

Next == AddInputs \/ StartPlanning \/ RunOut \/ Plan \/ Fix

Spec == Init /\ [][Next]_vars

-----------------------------------------------------------------------------
(* Properties.                                                             *)

(* Type correctness.                                                       *)
TypeOK ==
  /\ pattern_per_min \in Speeds
  /\ gatecnt \in GateCounts
  /\ sizes \in [1 .. NumFix -> InputCounts]
  /\ next \in 1 .. NumFix + 1
  /\ t0 \in Nat
  /\ t1 \in Nat
  /\ begin \in Nat
  /\ elapsed \in Nat
  /\ begin <= elapsed
  /\ full_capacity \in Nat
  /\ up_limit \in Nat
  /\ {capped, doubled, late} \subseteq BOOLEAN
  /\ pc \in {"sum", "plan", "fix"}

(* timing_info[0] is the number of real inputs of the outputs still to     *)
(* come, so that no share exceeds the whole and the last output gets all   *)
(* the time that is left.                                                  *)
SharesAddUp ==
  pc # "sum" => t0 = partial[NumFix] - partial[next - 1]

(* main passes the long on as an int, and combinator counts in an int the  *)
(* choices of k of n, at most n times the last number within the limit:    *)
(* whatever overflowed before, or was no number, both fit.                 *)
CountsFitInt == up_limit <= IntMax /\ up_limit * t1 <= IntMax

(* If simulating never takes longer than the measured rate promises, no    *)
(* output exceeds the time limit or finds the time run out, in whatever    *)
(* order many and few inputs come.  A doubled capacity, which only the     *)
(* last output can get, may exceed it, by three fifths.  Nothing is        *)
(* promised once a capacity was replaced by Cap.                           *)
OnTime ==
  ~ late /\ ~ capped /\ Rate > 0 /\ begin <= Budget =>
    IF doubled THEN 5 * elapsed <= 8 * Budget ELSE elapsed <= Budget

(* The inductive invariant.  The sums recorded grow from step to step;     *)
(* between planning and fixing, the patterns planned take at most four     *)
(* fifths of the time that is left, or of twice that time.                 *)
Summed == IF pc = "sum" THEN next - 1 ELSE NumFix

PartialInv ==
  /\ DOMAIN partial = 0 .. Summed
  /\ partial[0] = 0
  /\ \A m \in 0 .. Summed : partial[m] \in Nat /\ partial[m] <= partial[Summed]
  /\ \A m \in 1 .. Summed : partial[m] = partial[m - 1] + sizes[m]
  /\ pc = "sum" => t0 = partial[next - 1]

PlanInv ==
  pc = "fix" /\ ~ capped /\ Rate > 0 =>
    \/ up_limit = 0
    \/ /\ elapsed <= Budget
       /\ 5 * PlannedPatterns <= (IF doubled THEN 8 ELSE 4) * (Budget - elapsed) * Rate

IInv ==
  /\ TypeOK
  /\ PartialInv
  /\ SharesAddUp
  /\ CountsFitInt
  /\ PlanInv
  /\ OnTime
=============================================================================
