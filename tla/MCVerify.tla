------------------------------ MODULE MCVerify ------------------------------
(***************************************************************************)
(* Verify with two inputs, two outputs and three of the four patterns, one *)
(* from each loop.  The circuits tell the order of the inputs and of the   *)
(* outputs apart.                                                          *)
(***************************************************************************)
EXTENDS Verify

Two(f(_, _), g(_, _)) ==
  [p \in AllPatterns |-> [o \in POs |-> IF o = 0 THEN f(p[0], p[1]) ELSE g(p[0], p[1])]]

LOCAL First1(a, b) == a
LOCAL Second1(a, b) == b
LOCAL And(a, b) == IF a = "1" THEN b ELSE "0"
LOCAL ButNot(a, b) == IF b = "1" THEN "0" ELSE a

MCCircuits == {Two(First1, And), Two(ButNot, Second1)}
=============================================================================
