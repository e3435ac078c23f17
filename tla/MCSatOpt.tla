------------------------------ MODULE MCSatOpt ------------------------------
(***************************************************************************)
(* SatOpt on every function of RealPINum inputs: the rows are the whole    *)
(* truth table, which is what Last_Generation asks iogen for.              *)
(***************************************************************************)
EXTENDS SatOpt

MCRows == [0 .. RealPINum - 1 -> {"0", "1"}]
=============================================================================
