--------------------------- MODULE MCConstOutput ---------------------------
(***************************************************************************)
(* ConstOutput scaled down: eight patterns, of which six or nine are to be *)
(* drawn, and a threshold one answer in six stays below.                   *)
(***************************************************************************)
EXTENDS ConstOutput
=============================================================================
