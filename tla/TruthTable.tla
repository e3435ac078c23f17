----------------------------- MODULE TruthTable -----------------------------
(***************************************************************************)
(* How main builds the circuit: for every output either a constant or a    *)
(* truth table.  PatternsGeneration (src/pattern.cpp) keeps the best few   *)
(* inputs, sets them in all ways with the other inputs at 1 and asks       *)
(* iogen; SATOptimization and WriteBlif turn the answers into a .names     *)
(* table of the kept inputs.                                               *)
(*                                                                         *)
(* The minimisation itself is SatOpt; what its theorems leave open, the    *)
(* value on settings the table does not list, is a choice here.  iogen may *)
(* fail, and then the file holds the answers for an output before.         *)
(***************************************************************************)
EXTENDS Integers, FiniteSets, Sequences, Patterns

CONSTANTS
  InputNum,         (* input_num                                           *)
  NumPO,            (* output_num                                          *)
  Circuits,         (* the functions iogen's outputs may be                *)
  MaxRatio,         (* bound: ratios in beyond_DummyInfo.log, to compare   *)
  MaxLimit,         (* bound: the up_limit DecideUpLimit may choose        *)
  NotDummyUpLimit   (* NOT_DUMMY_UP_LIMIT; 30 in the code                  *)

InputIds == 0 .. InputNum - 1

AllPatterns == PatternsOn(InputIds)

POs == 1 .. NumPO

ASSUME InputNumAssumption == InputNum \in Nat \ {0}
ASSUME NumPOAssumption == NumPO \in Nat
ASSUME CircuitsAssumption == Circuits \subseteq [AllPatterns -> Bit]
ASSUME LimitsAssumption == {MaxRatio, MaxLimit, NotDummyUpLimit} \subseteq Nat

VARIABLES
  oracle,       (* iogen's function of each output (external)              *)
  classifyPO,   (* 0 and 1: constant; 2: to be learnt                      *)
  real_info,    (* the inputs beyond_DummyInfo_ex.log lists per output     *)
  po,           (* main's loop variable i, from 1                          *)
  up_limit,     (* pattern.cpp's global, of the last call                  *)
  kept,         (* the inputs with PI_state 0; the others are dummy_PI     *)
  answered,     (* does beyond_to_satOpt.txt exist?                        *)
  rows,         (* the input rows it lists, by row number                  *)
  main,         (* the function of each output that has a table            *)
  realPI_to_PO, (* the list main hands to Timing_function and FixNetwork   *)
  used,         (* per output, the inputs its table has (history)          *)
  read,         (* per output, the rows its table was made of (history)    *)
  fresh,        (* the outputs iogen answered itself (history)             *)
  pc            (* "build", "optimise", "done" or "exited"                 *)

inputs == <<oracle, classifyPO, real_info>>

generated == <<up_limit, kept, answered, rows, realPI_to_PO, fresh>>

vars == <<inputs, po, generated, main, used, read, pc>>

-----------------------------------------------------------------------------
(* read_info: the order of the set, its truncation.                        *)

Ahead(ratio, j, k) == ratio[j] > ratio[k] \/ (ratio[j] = ratio[k] /\ j > k)

Listed(ratio) == {k \in InputIds : ratio[k] > 0}

(* Faulty variant: the set is cut behind position up_limit, not at it.     *)
KeptOneMore(ratio, limit) ==
  {k \in Listed(ratio) :
     Cardinality({j \in Listed(ratio) : Ahead(ratio, j, k)}) <= limit}

(* The up_limit inputs with the greatest ratios, of equals the last ones.  *)
(* With no log to read ("open fail.") none is kept, as if all were 0.      *)
Kept(ratio, limit) ==
  {k \in Listed(ratio) :
     Cardinality({j \in Listed(ratio) : Ahead(ratio, j, k)}) < limit}

-----------------------------------------------------------------------------
(* Last_Generation: row i is the number i, the first kept input its lowest *)
(* bit, every dummy 1.                                                     *)

On(p, S) == [k \in S |-> p[k]]

Column(S, k) == Cardinality({j \in S : j < k})

Pow2[c \in Nat] == IF c = 0 THEN 1 ELSE 2 * Pow2[c - 1]

BitOf(i, c) == IF (i \div Pow2[c]) % 2 = 1 THEN "1" ELSE "0"

(* Faulty variants: the index moves on for a dummy too; the dummies are 0. *)
RowIndexingDummies(S, i) ==
  [k \in InputIds |-> IF k \in S THEN BitOf(i, k) ELSE "1"]

RowDummiesZero(S, i) ==
  [k \in InputIds |-> IF k \in S THEN BitOf(i, Column(S, k)) ELSE "0"]

Row(S, i) == [k \in InputIds |-> IF k \in S THEN BitOf(i, Column(S, k)) ELSE "1"]

InPat(S, limit) == [i \in 0 .. Pow2[limit] - 1 |-> Row(S, i)]

-----------------------------------------------------------------------------
(* SATOptimization's map: settings of the kept inputs, the first row of    *)
(* each counts.                                                            *)

FirstRow(s) ==
  CHOOSE i \in DOMAIN rows :
    On(rows[i], kept) = s /\ \A j \in DOMAIN rows : On(rows[j], kept) = s => i <= j

(* Faulty variant: the columns of the outputs are counted from one.        *)
TableNextColumn ==
  [s \in {On(rows[i], kept) : i \in DOMAIN rows} |->
     oracle[IF po < NumPO THEN po + 1 ELSE po][rows[FirstRow(s)]]]

Table ==
  [s \in {On(rows[i], kept) : i \in DOMAIN rows} |-> oracle[po][rows[FirstRow(s)]]]

(* input_num is 0: the table of a file without rows or without columns.    *)
NothingToWrite == rows = <<>> \/ kept = {}

-----------------------------------------------------------------------------
Init ==
  /\ oracle \in [POs -> Circuits]
  /\ classifyPO \in [POs -> 0 .. 2]
  /\ real_info \in [POs -> SUBSET InputIds]
  /\ po = 1
  /\ up_limit = 0
  /\ kept = {}
  /\ answered = FALSE
  /\ rows = <<>>
  /\ main = <<>>
  /\ realPI_to_PO = <<>>
  /\ used = [o \in POs |-> {}]
  /\ read = [o \in POs |-> {}]
  /\ fresh = {}
  /\ pc = "build"

Constant(bit) == [p \in AllPatterns |-> IF bit = 0 THEN "0" ELSE "1"]

(* Put an output's table at the end of the blif.                           *)
Drive(f) == main' = [o \in DOMAIN main \union {po} |-> IF o = po THEN f ELSE main[o]]

(* Faulty variant: a constant's inputs are not listed.                     *)
BuildConstantUnlisted ==
  /\ pc = "build"
  /\ po \in POs /\ classifyPO[po] # 2
  /\ Drive(Constant(classifyPO[po]))
  /\ po' = po + 1
  /\ UNCHANGED <<inputs, generated, used, read, pc>>

(* WriteBlif_Constant; a constant is listed with all inputs.               *)
BuildConstant ==
  /\ pc = "build"
  /\ po \in POs /\ classifyPO[po] # 2
  /\ Drive(Constant(classifyPO[po]))
  /\ realPI_to_PO' = Append(realPI_to_PO, InputIds)
  /\ po' = po + 1
  /\ UNCHANGED <<inputs, up_limit, kept, answered, rows, used, read, fresh, pc>>

(* iogen answers the rows of beyond_in_pat.txt, or fails.  From            *)
(* NotDummyUpLimit on that file is empty, and so is the answer, if any.    *)
AskIogen(S, limit) ==
  \/ /\ answered' = TRUE
     /\ rows' = IF limit < NotDummyUpLimit THEN InPat(S, limit) ELSE <<>>
     /\ fresh' = IF limit < NotDummyUpLimit THEN fresh \union {po} ELSE fresh
  \/ UNCHANGED <<answered, rows, fresh>>

(* PatternsGeneration, and main's push_back of its realPI.                 *)
PatternsGeneration(limit, ratio) ==
  /\ pc = "build"
  /\ po \in POs /\ classifyPO[po] = 2
  /\ up_limit' = limit
  /\ kept' = Kept(ratio, limit)
  /\ AskIogen(Kept(ratio, limit), limit)
  /\ realPI_to_PO' = Append(realPI_to_PO, real_info[po])
  /\ pc' = "optimise"
  /\ UNCHANGED <<inputs, po, main, used, read>>

(* No file to open: exit(-1).  A file that is empty while there are        *)
(* dummies: a vector of negative size, and the program aborts.             *)
Fails == ~ answered \/ (rows = <<>> /\ kept # InputIds)

Exit ==
  /\ pc = "optimise"
  /\ Fails
  /\ pc' = "exited"
  /\ UNCHANGED <<inputs, po, generated, main, used, read>>

(* SATOptimization and WriteBlif.  With nothing to write, a .names line    *)
(* without signals is appended: no table for this output, which stays      *)
(* undriven in the circuit abc is given.                                   *)
SATOptimization ==
  /\ pc = "optimise"
  /\ ~ Fails
  /\ IF NothingToWrite
     THEN UNCHANGED main
     ELSE \E f \in CoversOf(kept, Table) : Drive([p \in AllPatterns |-> f[On(p, kept)]])
  /\ used' = [used EXCEPT ![po] = kept]
  /\ read' = [read EXCEPT ![po] = {rows[i] : i \in DOMAIN rows}]
  /\ po' = po + 1
  /\ pc' = "build"
  /\ UNCHANGED <<inputs, generated>>

WriteBlifEnd ==
  /\ pc = "build"
  /\ po = NumPO + 1
  /\ pc' = "done"
  /\ UNCHANGED <<inputs, po, generated, main, used, read>>

Next ==
  \/ BuildConstant
  \/ \E limit \in 0 .. MaxLimit, ratio \in [InputIds -> 0 .. MaxRatio] :
       PatternsGeneration(limit, ratio)
  \/ Exit
  \/ SATOptimization
  \/ WriteBlifEnd

Spec == Init /\ [][Next]_vars

-----------------------------------------------------------------------------
(* Properties.                                                             *)

(* Type correctness.                                                       *)
TypeOK ==
  /\ oracle \in [POs -> Circuits]
  /\ classifyPO \in [POs -> 0 .. 2]
  /\ real_info \in [POs -> SUBSET InputIds]
  /\ po \in 1 .. NumPO + 1
  /\ up_limit \in 0 .. MaxLimit
  /\ kept \subseteq InputIds
  /\ answered \in BOOLEAN
  /\ DOMAIN rows \subseteq Nat
  /\ \A i \in DOMAIN rows : rows[i] \in AllPatterns
  /\ DOMAIN main \subseteq 1 .. po - 1
  /\ main \in [DOMAIN main -> [AllPatterns -> Bit]]
  /\ realPI_to_PO \in Seq(SUBSET InputIds)
  /\ used \in [POs -> SUBSET InputIds]
  /\ read \in [POs -> SUBSET AllPatterns]
  /\ fresh \subseteq POs
  /\ pc \in {"build", "optimise", "done", "exited"}

(* A row has up_limit digits, and each kept input takes the next one: the  *)
(* string is never indexed before its beginning.                           *)
IndexInRange == pc = "optimise" => Cardinality(kept) <= up_limit

(* iogen is asked for every setting of the kept inputs, and for each       *)
(* equally often, also when fewer inputs are kept than up_limit allows:    *)
(* the tallies the minimisation orders by are not skewed.                  *)
SettingsEquallyOften ==
  pc = "optimise" /\ po \in fresh =>
    \A s \in PatternsOn(kept) :
      Cardinality({i \in DOMAIN rows : On(rows[i], kept) = s})
        = Pow2[up_limit - Cardinality(kept)]

Learnt == {o \in DOMAIN main : classifyPO[o] = 2}

SameKept(o, p, q) == \A k \in used[o] : p[k] = q[k]

KeptSuffice(o, S) ==
  \A p, q \in S : SameKept(o, p, q) => oracle[o][p] = oracle[o][q]

(* A table is right on the rows it was made of, as far as the kept inputs  *)
(* can tell them apart, even if iogen failed and the rows are another      *)
(* output's: the file answers for all outputs, and this one's column is    *)
(* read.                                                                   *)
LearntRight ==
  \A o \in Learnt :
    KeptSuffice(o, read[o]) => \A p \in read[o] : main[o][p] = oracle[o][p]

DummiesOne(p, S) == [k \in InputIds |-> IF k \in S THEN p[k] ELSE "1"]

(* A table iogen answered itself is the black box with the dummies at 1,   *)
(* and so the black box itself if that does not depend on them.            *)
LearntExact ==
  \A o \in Learnt \cap fresh :
    /\ \A p \in AllPatterns : main[o][p] = oracle[o][DummiesOne(p, used[o])]
    /\ KeptSuffice(o, AllPatterns) => main[o] = oracle[o]

RealInputs(o) == IF classifyPO[o] = 2 THEN real_info[o] ELSE InputIds

(* Constants and tables alike push one list: what FixNetwork looks up      *)
(* under an output's number is that output's.  The list is pushed to, in   *)
(* the three branches of main's loop, and never indexed until then.        *)
AlignedRealPI ==
  pc \in {"build", "done"} =>
    realPI_to_PO = [o \in 1 .. po - 1 |-> RealInputs(o)]

(* A table repeats the answer to some row with the same kept inputs, and   *)
(* the list is one step ahead of the tables while a file is made.          *)
Consistent ==
  /\ TypeOK
  /\ \A o \in Learnt :
       \A p \in read[o] : \E q \in read[o] :
         SameKept(o, p, q) /\ main[o][p] = oracle[o][q]
  /\ IndexInRange
  /\ pc = "optimise" => po \in POs /\ classifyPO[po] = 2
  /\ pc \in {"build", "done"} =>
       realPI_to_PO = [o \in 1 .. po - 1 |-> RealInputs(o)]
  /\ pc = "optimise" => realPI_to_PO = [o \in 1 .. po |-> RealInputs(o)]

(* Only a failed iogen leaves the rows of another output behind.           *)
Complete ==
  /\ pc = "build" => \A o \in fresh : o < po
  /\ pc = "optimise" => \A o \in fresh : o <= po
  /\ pc = "done" => po = NumPO + 1
  /\ pc = "optimise" /\ po \in fresh => rows = InPat(kept, up_limit)
  /\ \A o \in Learnt \cap fresh :
       \A p \in AllPatterns : main[o][p] = oracle[o][DummiesOne(p, used[o])]
  /\ \A o \in DOMAIN main \ Learnt : main[o] = Constant(classifyPO[o])

(* The inductive invariant behind the properties.                          *)
IInv == Consistent /\ Complete
=============================================================================
