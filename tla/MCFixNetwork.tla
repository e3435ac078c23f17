---------------------------- MODULE MCFixNetwork ----------------------------
(***************************************************************************)
(* FixNetwork on small instances.  The circuits are a handful of functions *)
(* with few and many ones, dependent on few and on all inputs.             *)
(***************************************************************************)
EXTENDS FixNetwork

Fn(Holds(_)) == [p \in AllPatterns |-> IF Holds(p) THEN "1" ELSE "0"]

Ones(p) == Cardinality({k \in InputIds : p[k] = "1"})

AnyOne(p)   == Ones(p) > 0
All(p)      == Ones(p) = Cardinality(InputIds)
Parity(p)   == Ones(p) % 2 = 1
First(p)    == p[1] = "1"
NotFirst(p) == p[1] = "0"
Exclude(p)  == p[1] = "1" /\ p[2] = "0"
Majority(p) == Ones(p) > 1
Never(p)    == FALSE
Always(p)   == TRUE

MCCircuits == {Fn(AnyOne), Fn(All), Fn(Parity), Fn(First), Fn(NotFirst),
               Fn(Exclude), Fn(Majority), Fn(Never), Fn(Always)}

MCFewCircuits == {Fn(First), Fn(Parity), Fn(All), Fn(Never)}
=============================================================================
