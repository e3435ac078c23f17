------------------------------ MODULE SopCover ------------------------------
(***************************************************************************)
(* What two-level minimisation promises for one primary output: starting   *)
(* from a table that gives the output bit of some input patterns, it       *)
(* collects cubes, each a prime implicant that pays for itself by covering *)
(* an on-set pattern no earlier cube covers, and stops only when the whole *)
(* on-set is covered.  SatOpt implements this specification.               *)
(***************************************************************************)
EXTENDS Patterns

CONSTANTS
  Ids,    (* the positions of a pattern                                    *)
  Rows    (* the input patterns the table lists                            *)

VARIABLES
  table,  (* the output bit of every listed pattern                        *)
  cubes,  (* the cubes collected so far                                    *)
  done    (* has the cover been handed over?                               *)

vars == <<table, cubes, done>>

OnSet == {p \in Rows : table[p] = "1"}

OffSet == {p \in Rows : table[p] = "0"}

Implicant(c) == \A p \in OffSet : ~ Covers(c, p)

Prime(c) ==
  /\ Implicant(c)
  /\ \A k \in Literals(c) : ~ Implicant([c EXCEPT ![k] = "-"])

Init ==
  /\ table \in [Rows -> Bit]
  /\ cubes = {}
  /\ done = FALSE

AddCube(c) ==
  /\ ~ done
  /\ Prime(c)
  /\ \E p \in OnSet : Covers(c, p) /\ \A d \in cubes : ~ Covers(d, p)
  /\ cubes' = cubes \union {c}
  /\ UNCHANGED <<table, done>>

HandOver ==
  /\ ~ done
  /\ \A p \in OnSet : \E c \in cubes : Covers(c, p)
  /\ done' = TRUE
  /\ UNCHANGED <<table, cubes>>

Next == HandOver \/ \E c \in CubesOn(Ids) : AddCube(c)

Spec == Init /\ [][Next]_vars
=============================================================================
