------------------------------ MODULE TestSets ------------------------------
(***************************************************************************)
(* What CreatePattern hands to FixNetwork: a set of test patterns, each    *)
(* given as the set of the inputs that are 1.  Only the inputs an output   *)
(* is taken to depend on are ever set; and every pattern comes with its    *)
(* complement, in which the others are all 1.                              *)
(***************************************************************************)

TestSetsOf(ids, real) ==
  {T \in SUBSET SUBSET ids :
     \A x \in T : ids \ x \in T /\ (x \subseteq real \/ ids \ x \subseteq real)}
=============================================================================
