------------------------------ MODULE Subsets ------------------------------
(***************************************************************************)
(* The k-subsets of 0 .. n-1 in the order the "01 swap" enumerates them:   *)
(* colexicographically, a set before another when the largest position in  *)
(* which they differ belongs to the other.                                 *)
(***************************************************************************)
EXTENDS Integers, FiniteSets

Positions(n) == 0 .. n - 1

KSubsets(n, k) == {S \in SUBSET Positions(n) : Cardinality(S) = k}

SymDiff(S, T) == (S \ T) \union (T \ S)

ColexLess(S, T) ==
  \E m \in T \ S : \A d \in SymDiff(S, T) : d <= m

Rank(S, n, k) == Cardinality({T \in KSubsets(n, k) : ColexLess(T, S)})

(* How many sets Comb gets to: the first one always, then one for every    *)
(* two of the budget.                                                      *)
Quota(limit) == IF limit <= 2 THEN 1 ELSE (limit + 1) \div 2

Printed(n, k, limit) == {S \in KSubsets(n, k) : Rank(S, n, k) < Quota(limit)}
=============================================================================
