------------------------------ MODULE MCLearn ------------------------------
(***************************************************************************)
(* Learn with two outputs, which depend on one input or on both.           *)
(***************************************************************************)
EXTENDS Learn

Fn(Holds(_)) == [p \in AllPatterns |-> IF Holds(p) THEN "1" ELSE "0"]

Ones(p) == Cardinality({k \in InputIds : p[k] = "1"})

Parity(p) == Ones(p) % 2 = 1
First(p)  == p[0] = "1"

MCCircuits == {Fn(Parity), Fn(First)}
=============================================================================
