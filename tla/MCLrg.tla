------------------------------- MODULE MCLrg -------------------------------
(***************************************************************************)
(* Lrg with two outputs and two runs: the smallest instance in which one   *)
(* output can meet another's files, and one run an earlier run's.          *)
(***************************************************************************)
EXTENDS Lrg
=============================================================================
