------------------------------ MODULE MCTiming ------------------------------
(***************************************************************************)
(* Timing with ints of twelve bits, small enough for TLC and for products  *)
(* that wrap.                                                              *)
(***************************************************************************)
EXTENDS Timing

(* The code's own numbers satisfy what Timing assumes of the constants.    *)
ASSUME CodesNumbers ==
  /\ 2 * 2500 * (2147483647 \div 10000) <= 2000000000
  /\ (2000000000 \div 5) * 4 + 4 <= 2147483647
=============================================================================
