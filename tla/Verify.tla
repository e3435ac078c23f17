------------------------------- MODULE Verify -------------------------------
(***************************************************************************)
(* src/verify_ncverilog.cpp: draw distinct patterns in three loops, have   *)
(* the circuits before and after fixing simulated and iogen asked on one   *)
(* file of them, read the three files that come back and count agreements. *)
(*                                                                         *)
(* The loops differ only in how likely a one is.  A tool may leave its     *)
(* file missing or end early; ">>" at the end of a file leaves the string  *)
(* it reads into as it was, so what is missing reads as the last token.    *)
(***************************************************************************)
EXTENDS Integers, FiniteSets, Patterns

CONSTANTS
  InputNum,    (* input_num                                                *)
  OutputNum,   (* output_num                                               *)
  PatternNum,  (* argv[4]                                                  *)
  Tests0,      (* TEST_PATTERNS_0                                          *)
  Tests1,      (* TEST_PATTERNS_1                                          *)
  Circuits     (* what the circuits may compute: rows to outputs           *)

Ids == 0 .. InputNum - 1

POs == 0 .. OutputNum - 1

AllPatterns == PatternsOn(Ids)

ASSUME SizesAssumption ==
  {InputNum, OutputNum, PatternNum, Tests0, Tests1} \subseteq Nat
(* run.sh asks for 100000 patterns.                                        *)
ASSUME EnoughAssumption == Tests0 + Tests1 <= PatternNum
ASSUME CircuitsAssumption == Circuits \subseteq [AllPatterns -> [POs -> Bit]]

Slots == 0 .. PatternNum - 1

VARIABLES
  circuit,  (* of iogen and the netlists before and after (external)       *)
  word,     (* how the last word read of iogen's heading reads (external)  *)
  slots,    (* iogen_input_patterns                                        *)
  ppp,      (* where each pattern was first drawn                          *)
  loop,     (* which of the three loops runs                               *)
  i,        (* its counter                                                 *)
  pc,       (* "draw", "read", "done" or "exited"                          *)
  written,  (* how many bits each file holds; -1 is no file                *)
  correct,  (* before_/after_fix_correct_result                            *)
  bits      (* before_/after_fix_bits_correct_result                       *)

vars == <<circuit, word, slots, ppp, loop, i, pc, written, correct, bits>>

Netlists == {"before", "after"}

Sources == Netlists \union {"iogen"}

(* Faulty variant: the second loop starts one slot too late.               *)
FirstLate(l) ==
  CASE l = 1 -> 0
    [] l = 2 -> PatternNum - Tests0 - Tests1 + 1
    [] l = 3 -> PatternNum - Tests0

First(l) ==
  CASE l = 1 -> 0
    [] l = 2 -> PatternNum - Tests0 - Tests1
    [] l = 3 -> PatternNum - Tests0

Past(l) ==
  CASE l = 1 -> PatternNum - Tests0 - Tests1
    [] l = 2 -> PatternNum - Tests0
    [] l = 3 -> PatternNum

Init ==
  /\ circuit \in [Sources -> Circuits]
  /\ word \in Bit
  /\ slots = [s \in Slots |-> [k \in Ids |-> "0"]]
  /\ ppp = [p \in {} |-> 0]
  /\ loop = 1
  /\ i = First(1)
  /\ pc = "draw"
  /\ written = [s \in Sources |-> -1]
  /\ correct = [n \in Netlists |-> 0]
  /\ bits = [n \in Netlists |-> [o \in POs |-> 0]]

(* Faulty variant: ppp[...] is used to look a pattern up, which inserts it. *)
DrawInserting(p) ==
  /\ pc = "draw"
  /\ i < Past(loop)
  /\ slots' = [slots EXCEPT ![i] = p]
  /\ ppp' = [q \in DOMAIN ppp \union {p} |-> IF q \in DOMAIN ppp THEN ppp[q] ELSE i]
  /\ UNCHANGED <<circuit, word, loop, i, pc, written, correct, bits>>

(* One draw; a pattern that has been drawn is drawn over in its slot.      *)
Draw(p) ==
  /\ pc = "draw"
  /\ i < Past(loop)
  /\ slots' = [slots EXCEPT ![i] = p]
  /\ IF p \in DOMAIN ppp
     THEN UNCHANGED <<ppp, i>>
     ELSE /\ ppp' = [q \in DOMAIN ppp \union {p} |-> IF q = p THEN i ELSE ppp[q]]
          /\ i' = i + 1
  /\ UNCHANGED <<circuit, word, loop, pc, written, correct, bits>>

NextLoop ==
  /\ pc = "draw"
  /\ i >= Past(loop)
  /\ loop < 3
  /\ loop' = loop + 1
  /\ i' = First(loop + 1)
  /\ UNCHANGED <<circuit, word, slots, ppp, pc, written, correct, bits>>

(* The in_pat file lists the inputs' names from the first up and the bits  *)
(* from the last down; the test benches and iogen read it by its columns.  *)
Row(r) == [k \in Ids |-> slots[r][InputNum - 1 - k]]

(* The bits of a row of a file: a log has the outputs only, the answers of *)
(* iogen follow the inputs.                                                *)
Width(s) == IF s = "iogen" THEN InputNum + OutputNum ELSE OutputNum

(* Faulty variant: iogen is asked with the columns the other way round.    *)
TokenUnreversed(s, t) ==
  LET r == t \div Width(s)
      c == t % Width(s)
  IN  IF s = "iogen"
      THEN IF c < InputNum THEN slots[r][c]
           ELSE circuit[s][slots[r]][c - InputNum]
      ELSE circuit[s][Row(r)][c]

(* Bit t of a whole file.  Anything but a "1" is read as a 0, so an output *)
(* the simulator prints as x or z is one whose circuit is 0 here.          *)
Token(s, t) ==
  LET r == t \div Width(s)
      c == t % Width(s)
  IN  IF s = "iogen"
      THEN IF c < InputNum THEN Row(r)[c]
           ELSE circuit[s][Row(r)][c - InputNum]
      ELSE circuit[s][Row(r)][c]

(* The tools run one after the other, each as far as it gets.              *)
RunTools ==
  /\ pc = "draw"
  /\ loop = 3
  /\ i >= Past(3)
  /\ written' \in {w \in [Sources -> -1 .. PatternNum * Width("iogen")] :
                     \A s \in Sources : w[s] <= PatternNum * Width(s)}
  /\ pc' = "read"
  /\ UNCHANGED <<circuit, word, slots, ppp, loop, i, correct, bits>>

(* Bit t as it is read.  Where a log has none the string is still empty;   *)
(* before iogen's first the sizes and the names have been read into it, or *)
(* as many of them as there are, and the last may well be a "1".           *)
NothingRead(s) == IF s = "iogen" THEN word ELSE "0"

ReadBit(s, t) ==
  IF t < written[s] THEN Token(s, t)
  ELSE IF written[s] = 0 THEN NothingRead(s) ELSE Token(s, written[s] - 1)

(* ..._output_patterns[r][o]                                               *)
OutputBit(s, r, o) ==
  ReadBit(s, r * Width(s) + (IF s = "iogen" THEN InputNum ELSE 0) + o)

Agree(n, r, o) == OutputBit(n, r, o) = OutputBit("iogen", r, o)

RowsCorrect(n) == {r \in Slots : \A o \in POs : Agree(n, r, o)}

Compare ==
  /\ pc = "read"
  /\ \A s \in Sources : written[s] >= 0
  /\ correct' = [n \in Netlists |-> Cardinality(RowsCorrect(n))]
  /\ bits' = [n \in Netlists |->
                [o \in POs |-> Cardinality({r \in Slots : Agree(n, r, o)})]]
  /\ pc' = "done"
  /\ UNCHANGED <<circuit, word, slots, ppp, loop, i, written>>

(* exit(-1), a file cannot be opened.                                      *)
Exit ==
  /\ pc = "read"
  /\ \E s \in Sources : written[s] < 0
  /\ pc' = "exited"
  /\ UNCHANGED <<circuit, word, slots, ppp, loop, i, written, correct, bits>>

Next == (\E p \in AllPatterns : Draw(p)) \/ NextLoop \/ RunTools \/ Compare \/ Exit

(* As in ConstOutput, rand() comes up with every pattern again and again.  *)
Spec ==
  /\ Init
  /\ [][Next]_vars
  /\ \A p \in AllPatterns : WF_vars(Draw(p))
  /\ WF_vars(NextLoop \/ RunTools \/ Compare \/ Exit)

-----------------------------------------------------------------------------
(* Properties.                                                             *)

(* Type correctness; no loop leaves the slots.                             *)
TypeOK ==
  /\ circuit \in [Sources -> Circuits]
  /\ word \in Bit
  /\ slots \in [Slots -> AllPatterns]
  /\ DOMAIN ppp \subseteq AllPatterns
  /\ loop \in 1 .. 3
  /\ i \in First(loop) .. Past(loop) /\ i <= PatternNum
  /\ pc \in {"draw", "read", "done", "exited"}
  /\ \A s \in Sources : written[s] \in -1 .. PatternNum * Width(s)
  /\ correct \in [Netlists -> 0 .. PatternNum]
  /\ bits \in [Netlists -> [POs -> 0 .. PatternNum]]

(* The three loops fill every slot once, with a pattern of its own: none   *)
(* keeps the zeros it was made with or a pattern drawn again, even where   *)
(* one loop takes over from the other.                                     *)
EverySlotDrawn ==
  pc # "draw" =>
    \A r \in Slots : slots[r] \in DOMAIN ppp /\ ppp[slots[r]] = r

(* Rows that some file of the comparison does not hold to the end.         *)
RowsLost(n) ==
  {r \in Slots : \E s \in {n, "iogen"} : (r + 1) * Width(s) > written[s]}

RightOn(n, r, o) == circuit[n][Row(r)][o] = circuit["iogen"][Row(r)][o]

Near(reported, true, off) == reported - true \in -off .. off

(* The accuracies printed are those of the netlists on the patterns drawn. *)
(* Tools that end early cannot put them off by more than the rows lost,    *)
(* although reading goes on as if nothing were missing.                    *)
CountsOffByLostRows ==
  pc = "done" =>
    \A n \in Netlists :
      LET lost == Cardinality(RowsLost(n))
      IN  /\ Near(correct[n],
                  Cardinality({r \in Slots : \A o \in POs : RightOn(n, r, o)}), lost)
          /\ \A o \in POs :
               Near(bits[n][o], Cardinality({r \in Slots : RightOn(n, r, o)}), lost)

(* The verification comes to its end.                                      *)
VerificationEnds == <>(pc \in {"done", "exited"})
=============================================================================
