------------------------------ MODULE Patterns ------------------------------
(***************************************************************************)
(* Bit patterns and cubes, the data every stage of the learner exchanges.  *)
(*                                                                         *)
(* A pattern is a row of an in_pat or io_rel file: one bit per primary     *)
(* input.  A cube is the input part of a row of a .names table: "-" stands *)
(* for either bit.  Both are functions on a set of positions, which is     *)
(* what the code's string, vector<string> and dynamic_bitset have in       *)
(* common; bits are strings as they are in the files.                      *)
(***************************************************************************)

Bit == {"0", "1"}

PatternsOn(S) == [S -> Bit]

CubesOn(S) == [S -> Bit \union {"-"}]

(* A cube stands for every pattern it agrees with on its literals.         *)
Covers(cube, pat) ==
  \A k \in DOMAIN cube : cube[k] = "-" \/ cube[k] = pat[k]

DontCares(cube) == {k \in DOMAIN cube : cube[k] = "-"}

Literals(cube) == DOMAIN cube \ DontCares(cube)

(* What a circuit made from a table may compute: what the table says where *)
(* it says something, and anything elsewhere.                              *)
CoversOf(ids, table) ==
  {f \in [PatternsOn(ids) -> Bit] : \A p \in DOMAIN table : f[p] = table[p]}
=============================================================================
