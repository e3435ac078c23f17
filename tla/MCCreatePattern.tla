--------------------------- MODULE MCCreatePattern ---------------------------
(***************************************************************************)
(* CreatePattern with the six inputs it takes to have a third round; the   *)
(* output depends on all of them, or on four or three not all adjacent.    *)
(***************************************************************************)
EXTENDS CreatePattern

MCVectors == {<<0, 1, 2, 3, 4, 5>>, <<0, 1, 2, 4>>, <<0, 2, 4>>}
=============================================================================
