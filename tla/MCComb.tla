------------------------------- MODULE MCComb -------------------------------
(***************************************************************************)
(* Comb for all its parameters up to the bounds: eight inputs give up to   *)
(* 56 choices, and the budgets reach from none to one for all of them.     *)
(***************************************************************************)
EXTENDS Comb
=============================================================================
