-------------------------------- MODULE Lrg --------------------------------
(***************************************************************************)
(* The learner as its scripts run it: main.cpp drives its stages through   *)
(* files in the working directory, verify_ncverilog reads some of them     *)
(* afterwards, and run.sh and runall.sh repeat the pair.                   *)
(*                                                                         *)
(* What matters here is which file holds data of which run and output, so  *)
(* a file's content is the set of stamps of what it was made from.  iogen, *)
(* abc and ncverilog are called with system() and their results ignored: a *)
(* tool that fails leaves its output file as it was.                       *)
(*                                                                         *)
(* A stage is one step, whatever it loops over: that the loops which draw  *)
(* patterns may never end is ConstOutput's, CreatePattern's and Verify's   *)
(* matter.  Here such a stage is a step that is never taken, and nothing   *)
(* is claimed to happen eventually.                                        *)
(***************************************************************************)
EXTENDS Naturals, Sequences

CONSTANTS
  NumPO,         (* output_num                                             *)
  MaxRuns,       (* bound: iterations of the scripts' loops                *)
  MakeRm,        (* does "make rm" follow each run, as in runall.sh?       *)
  ToolsMayFail,  (* may iogen, abc and ncverilog fail?                     *)
  LrgMayDie      (* may lrg be killed between two steps?                   *)

ASSUME NumPOAssumption == NumPO \in Nat
ASSUME MaxRunsAssumption == MaxRuns \in Nat
ASSUME FlagsAssumption == {MakeRm, ToolsMayFail, LrgMayDie} \subseteq BOOLEAN

POs == 1 .. NumPO

Stamp == [run : 1 .. MaxRuns, po : 0 .. NumPO]

(* Files are pairs; the second component is the output or 0.               *)
ConstRel      == <<"beyond_classify_constant_io_rel.txt", 0>>
ToSatOpt      == <<"beyond_to_satOpt.txt", 0>>
Original      == <<"beyond_original_circuit.v", 0>>
BeforeFix     == <<"beyond_before_fix_circuit.v", 0>>
FixLog        == <<"beyond_fixnetwork_verify_log.txt", 0>>
FixRel        == <<"beyond_fix_io_rel.txt", 0>>
BeforeFlatten == <<"beyond_before_flatten_circuit.v", 0>>
AfterFlatten  == <<"beyond_after_flatten_circuit.v", 0>>
BeforeLog     == <<"beyond_before_fix_verify_log.txt", 0>>
AfterLog      == <<"beyond_after_fix_verify_log.txt", 0>>
VerifyRel     == <<"beyond_verify_io_rel.txt", 0>>
Result        == <<"result/circuit.v", 0>>

FaultBlifs == {"fault0.blif", "fault1.blif"} \X POs
FaultVs    == {"fault0.v", "fault1.v"} \X POs

VFile(blif) == <<IF blif[1] = "fault0.blif" THEN "fault0.v" ELSE "fault1.v", blif[2]>>

Files == {ConstRel, ToSatOpt, Original, BeforeFix, FixLog, FixRel, BeforeFlatten,
          AfterFlatten, BeforeLog, AfterLog, VerifyRel, Result}
           \union FaultBlifs \union FaultVs

VARIABLES
  run,      (* the iteration of the scripts, from 1; 0 before the first    *)
  pc,       (* the step main, verify_ncverilog or the script is at         *)
  po,       (* main's loop variable i, from 1                              *)
  constPO,  (* the outputs classified constant                             *)
  notTruth, (* not_truth_table_PO                                          *)
  blif,     (* beyond_circuit.blif, one entry per appended block           *)
  disk,     (* the content of every other file that exists                 *)
  lrg,      (* how main of this run ended                                  *)
  verify,   (* how verify_ncverilog of this run ended                      *)
  failed    (* has a tool failed in this run?  (history)                   *)

vars == <<run, pc, po, constPO, notTruth, blif, disk, lrg, verify, failed>>

Here(p) == [run |-> run, po |-> p]

Put(d, f, content) ==
  [g \in DOMAIN d \union {f} |-> IF g = f THEN content ELSE d[g]]

PutIf(ok, d, f, content) == IF ok THEN Put(d, f, content) ELSE d

(* getline and >> on a file that is not there read nothing.                *)
Content(d, f) == IF f \in DOMAIN d THEN d[f] ELSE {}

(* ncverilog cannot elaborate a netlist file that is missing or empty.     *)
Simulates(f) == Content(disk, f) # {}

Outcomes == IF ToolsMayFail THEN BOOLEAN ELSE {TRUE}

Entry(p, from) == [run |-> run, po |-> p, from |-> from]

BlifSources == UNION {blif[k].from : k \in DOMAIN blif}

-----------------------------------------------------------------------------
Init ==
  /\ run = 0
  /\ pc = "shell"
  /\ po = 1
  /\ constPO = {}
  /\ notTruth = {}
  /\ blif = <<>>
  /\ disk = [f \in {} |-> {}]
  /\ lrg = "none"
  /\ verify = "none"
  /\ failed = FALSE

(* The next iteration of the loop calls lrg.                               *)
StartLrg ==
  /\ pc = "shell"
  /\ run < MaxRuns
  /\ run' = run + 1
  /\ pc' = "classify"
  /\ lrg' = "running"
  /\ verify' = "none"
  /\ failed' = FALSE
  /\ po' = 1
  /\ constPO' = {}
  /\ notTruth' = {}
  /\ UNCHANGED <<blif, disk>>

(* exit(-1): the script goes on with verify_ncverilog all the same.        *)
ExitOr(next, exits) ==
  /\ pc' = IF exits THEN "verify" ELSE next
  /\ lrg' = IF exits THEN "exited" ELSE lrg

(* iogen answers the random patterns, once they are drawn; the classes     *)
(* depend on its answers.                                                  *)
CheckConstOutput ==
  /\ pc = "classify"
  /\ \E ok \in Outcomes :
       /\ disk' = PutIf(ok, disk, ConstRel, {Here(0)})
       /\ failed' = (failed \/ ~ ok)
  /\ ExitOr("header", ConstRel \notin DOMAIN disk')
  /\ constPO' \in SUBSET POs
  /\ UNCHANGED <<run, po, notTruth, blif, verify>>

(* Opening the blif for the header empties it.  DecideUpLimit then selects *)
(* the outputs whose truth table is too large, in any way.                 *)
WriteBlifHeader ==
  /\ pc = "header"
  /\ blif' = <<Entry(0, {Here(0)})>>
  /\ notTruth' \in SUBSET POs
  /\ po' = 1
  /\ pc' = "build"
  /\ UNCHANGED <<run, constPO, disk, lrg, verify, failed>>

(* Faulty variant: the table of a constant is not written.                 *)
BuildConstantUnwritten ==
  /\ pc = "build"
  /\ po \in constPO
  /\ po' = po + 1
  /\ UNCHANGED <<run, pc, constPO, notTruth, blif, disk, lrg, verify, failed>>

BuildConstant ==
  /\ pc = "build"
  /\ po \in constPO
  /\ blif' = Append(blif, Entry(po, disk[ConstRel]))
  /\ po' = po + 1
  /\ UNCHANGED <<run, pc, constPO, notTruth, disk, lrg, verify, failed>>

(* Faulty variant: the table is read before iogen has answered.            *)
BuildTableTooEarly ==
  /\ pc = "build"
  /\ po \in POs \ constPO
  /\ \E ok \in Outcomes :
       /\ disk' = PutIf(ok, disk, ToSatOpt, {Here(po)})
       /\ failed' = (failed \/ ~ ok)
  /\ ExitOr("build", ToSatOpt \notin DOMAIN disk')
  /\ IF ToSatOpt \in DOMAIN disk'
     THEN /\ blif' = Append(blif, Entry(po, IF ToSatOpt \in DOMAIN disk
                                           THEN disk[ToSatOpt] ELSE {Here(po)}))
          /\ po' = po + 1
     ELSE UNCHANGED <<blif, po>>
  /\ UNCHANGED <<run, constPO, notTruth, verify>>

(* PatternsGeneration asks iogen, SATOptimization reads whatever table is  *)
(* there, WriteBlif appends the cover.                                     *)
BuildTable ==
  /\ pc = "build"
  /\ po \in POs \ constPO
  /\ \E ok \in Outcomes :
       /\ disk' = PutIf(ok, disk, ToSatOpt, {Here(po)})
       /\ failed' = (failed \/ ~ ok)
  /\ ExitOr("build", ToSatOpt \notin DOMAIN disk')
  /\ IF ToSatOpt \in DOMAIN disk'
     THEN blif' = Append(blif, Entry(po, disk'[ToSatOpt])) /\ po' = po + 1
     ELSE UNCHANGED <<blif, po>>
  /\ UNCHANGED <<run, constPO, notTruth, verify>>

(* WriteBlifEnd, ABCOptimization of the whole circuit and                  *)
(* ModifyVerilogFormat(0), which empties its output file first.            *)
FinishBuild ==
  /\ pc = "build"
  /\ po = NumPO + 1
  /\ blif' = Append(blif, Entry(NumPO + 1, {}))
  /\ \E ok \in Outcomes :
       LET d == PutIf(ok, disk, Original, BlifSources)
       IN  /\ disk' = Put(d, BeforeFix, Content(d, Original))
           /\ failed' = (failed \/ ~ ok)
  /\ po' = 1
  /\ pc' = "fix"
  /\ UNCHANGED <<run, constPO, notTruth, lrg, verify>>

SkipFix ==
  /\ pc = "fix"
  /\ po \in POs \ notTruth
  /\ po' = po + 1
  /\ UNCHANGED <<run, pc, constPO, notTruth, blif, disk, lrg, verify, failed>>

(* Faulty variant: the logs of the output before are removed first.        *)
SimulateAfresh ==
  /\ pc = "fix"
  /\ po \in notTruth
  /\ \E sim \in Outcomes, gen \in Outcomes :
       /\ LET kept == [f \in DOMAIN disk \ {FixLog, FixRel} |-> disk[f]]
          IN  disk' = PutIf(gen, PutIf(sim /\ Simulates(BeforeFix), kept,
                              FixLog, {Here(po)}), FixRel, {Here(po)})
       /\ failed' = (failed \/ ~ sim \/ ~ gen)
  /\ ExitOr("patch0", ~ {FixLog, FixRel} \subseteq DOMAIN disk')
  /\ UNCHANGED <<run, po, constPO, notTruth, blif, verify>>

(* The first half of FixNetwork: ncverilog simulates the circuit,          *)
(* iogen answers, and both logs are read.                                  *)
Simulate ==
  /\ pc = "fix"
  /\ po \in notTruth
  /\ \E sim \in Outcomes, gen \in Outcomes :
       /\ disk' = PutIf(gen, PutIf(sim /\ Simulates(BeforeFix), disk,
                           FixLog, {Here(po)}), FixRel, {Here(po)})
       /\ failed' = (failed \/ ~ sim \/ ~ gen)
  /\ ExitOr("patch0", ~ {FixLog, FixRel} \subseteq DOMAIN disk')
  /\ UNCHANGED <<run, po, constPO, notTruth, blif, verify>>

(* The second half: a blif for the faults of one kind, if there are any,   *)
(* and abc's netlist of it.                                                *)
PatchFault(name) ==
  \/ UNCHANGED <<disk, failed>>
  \/ \E ok \in Outcomes :
       LET from == disk[FixLog] \union disk[FixRel] \union {Here(po)}
           d    == Put(disk, <<name, po>>, from)
       IN  /\ disk' = PutIf(ok, d, VFile(<<name, po>>), from)
           /\ failed' = (failed \/ ~ ok)

PatchFault0 ==
  /\ pc = "patch0"
  /\ PatchFault("fault0.blif")
  /\ pc' = "patch1"
  /\ UNCHANGED <<run, po, constPO, notTruth, blif, lrg, verify>>

PatchFault1 ==
  /\ pc = "patch1"
  /\ PatchFault("fault1.blif")
  /\ pc' = "fix"
  /\ po' = po + 1
  /\ UNCHANGED <<run, constPO, notTruth, blif, lrg, verify>>

FaultsPresent == FaultBlifs \cap DOMAIN disk

(* MixVerilog probes for fault blifs of every output.  Without any it      *)
(* copies the circuit abc wrote, otherwise it joins the circuit with the   *)
(* netlists of the faults; abc flattens what comes out.                    *)
MixVerilog ==
  /\ pc = "fix"
  /\ po = NumPO + 1
  /\ \E ok \in Outcomes :
       LET mixed == IF FaultsPresent = {}
                    THEN Content(disk, Original)
                    ELSE disk[BeforeFix] \union
                           UNION {Content(disk, VFile(b)) : b \in FaultsPresent}
           d == Put(disk, BeforeFlatten, mixed)
       IN  /\ disk' = PutIf(ok, d, AfterFlatten, mixed)
           /\ failed' = (failed \/ ~ ok)
  /\ pc' = "final"
  /\ UNCHANGED <<run, po, constPO, notTruth, blif, lrg, verify>>

(* Faulty variant: without a flattened circuit the result is left alone.   *)
WriteResultIfFlattened ==
  /\ pc = "final"
  /\ disk' = PutIf(AfterFlatten \in DOMAIN disk, disk, Result, Content(disk, AfterFlatten))
  /\ pc' = "rm"
  /\ UNCHANGED <<run, po, constPO, notTruth, blif, lrg, verify, failed>>

(* ModifyVerilogFormat(2) writes the result file.                          *)
WriteResult ==
  /\ pc = "final"
  /\ disk' = Put(disk, Result, Content(disk, AfterFlatten))
  /\ pc' = "rm"
  /\ UNCHANGED <<run, po, constPO, notTruth, blif, lrg, verify, failed>>

(* rm beyond_* spares only the result.                                     *)
WithoutBeyond(d) == [f \in DOMAIN d \cap {Result} |-> d[f]]

RemoveBeyond ==
  /\ pc = "rm"
  /\ disk' = WithoutBeyond(disk)
  /\ blif' = <<>>
  /\ lrg' = "ended"
  /\ pc' = "verify"
  /\ UNCHANGED <<run, po, constPO, notTruth, verify, failed>>

(* lrg is killed; its files stay.                                          *)
Die ==
  /\ LrgMayDie
  /\ lrg = "running"
  /\ lrg' = "died"
  /\ pc' = "verify"
  /\ UNCHANGED <<run, po, constPO, notTruth, blif, disk, verify, failed>>

(* verify_ncverilog simulates the circuit before and after fixing and asks *)
(* iogen; it needs all three answers to compare.                           *)
Verify ==
  /\ pc = "verify"
  /\ \E before \in Outcomes, after \in Outcomes, gen \in Outcomes :
       /\ disk' = PutIf(gen, PutIf(after /\ Simulates(Result),
                    PutIf(before /\ Simulates(BeforeFix), disk,
                      BeforeLog, {Here(0)}), AfterLog, {Here(0)}), VerifyRel, {Here(0)})
       /\ failed' = (failed \/ ~ before \/ ~ after \/ ~ gen)
  /\ verify' = IF {BeforeLog, AfterLog, VerifyRel} \subseteq DOMAIN disk'
               THEN "compared" ELSE "exited"
  /\ pc' = "next"
  /\ UNCHANGED <<run, po, constPO, notTruth, blif, lrg>>

(* Faulty variant: make rm removes neither netlists nor faults.            *)
NextRunKeepingNetlists ==
  /\ pc = "next"
  /\ disk' = IF MakeRm
             THEN [f \in DOMAIN disk \cap ({Result, Original, BeforeFix, AfterFlatten}
                                            \union FaultBlifs) |-> disk[f]]
             ELSE disk
  /\ blif' = IF MakeRm THEN <<>> ELSE blif
  /\ pc' = "shell"
  /\ UNCHANGED <<run, po, constPO, notTruth, lrg, verify, failed>>

(* The loops of run.sh and runall.sh.  All runs write one result file, as  *)
(* run.sh's do; runall.sh names one per case, where less can be mixed up.  *)
NextRun ==
  /\ pc = "next"
  /\ disk' = IF MakeRm THEN WithoutBeyond(disk) ELSE disk
  /\ blif' = IF MakeRm THEN <<>> ELSE blif
  /\ pc' = "shell"
  /\ UNCHANGED <<run, po, constPO, notTruth, lrg, verify, failed>>

MainStep ==
  \/ CheckConstOutput \/ WriteBlifHeader
  \/ BuildConstant \/ BuildTable \/ FinishBuild
  \/ SkipFix \/ Simulate \/ PatchFault0 \/ PatchFault1
  \/ MixVerilog \/ WriteResult \/ RemoveBeyond

Next == StartLrg \/ MainStep \/ Die \/ Verify \/ NextRun

Spec == Init /\ [][Next]_vars

-----------------------------------------------------------------------------
(* Properties.                                                             *)

(* Type correctness; the loop variable stays in the loops' range.          *)
TypeOK ==
  /\ run \in 0 .. MaxRuns
  /\ pc \in {"shell", "classify", "header", "build", "fix", "patch0", "patch1",
             "final", "rm", "verify", "next"}
  /\ po \in 1 .. NumPO + 1
  /\ constPO \subseteq POs
  /\ notTruth \subseteq POs
  /\ blif \in Seq([run : 1 .. MaxRuns, po : 0 .. NumPO + 1, from : SUBSET Stamp])
  /\ DOMAIN disk \subseteq Files
  /\ \A f \in DOMAIN disk : disk[f] \subseteq Stamp
  /\ lrg \in {"none", "running", "exited", "died", "ended"}
  /\ verify \in {"none", "compared", "exited"}
  /\ failed \in BOOLEAN

(* MixVerilog decides by the mere existence of a file which outputs to     *)
(* patch.  Whatever earlier runs left behind, each one it finds is a patch *)
(* FixNetwork wrote for that output in this run.                           *)
MixOwnFaults ==
  pc = "fix" /\ po = NumPO + 1 =>
    \A b \in FaultsPresent : Here(b[2]) \in disk[b]

(* A run that gives up with exit(-1) leaves no patch for the next one: the *)
(* logs FixNetwork cannot open are missing for the first output it treats  *)
(* or for none.                                                            *)
ExitLeavesNoFaults == lrg = "exited" => FaultsPresent = {}

(* The circuit given to abc has one table per output, all of this run, in  *)
(* order and between one header and one end, although every block but the  *)
(* header is appended to a file an earlier run may have left.              *)
BlifWellFormed ==
  pc = "fix" =>
    /\ Len(blif) = NumPO + 2
    /\ \A k \in DOMAIN blif : blif[k].run = run /\ blif[k].po = k - 1

(* As long as no tool has failed in this run, each table and each patch is *)
(* made from answers about its own output, although all outputs share the  *)
(* same intermediate files.                                                *)
FreshUnlessFailed ==
  lrg = "running" /\ ~ failed =>
    /\ pc \in {"build", "fix"} =>
         \A k \in DOMAIN blif : blif[k].from \subseteq {Here(0), Here(k - 1)}
    /\ pc = "fix" =>
         \A b \in FaultsPresent : disk[b] \subseteq {Here(b[2])}

(* A result file never mixes the data of two runs, which with runall.sh    *)
(* are runs on two different circuits.                                     *)
ResultOfOneRun ==
  Result \in DOMAIN disk => \A s, t \in disk[Result] : s.run = t.run

(* A run that came to its end has delivered answers of its own and no      *)
(* others, whichever tools failed and whatever was there before: a failed  *)
(* tool costs the circuit, it does not bring back the last one.  And if no *)
(* tool failed, no learnt output is lost on the way through four netlists. *)
EndedRunsDeliver ==
  lrg = "ended" =>
    /\ Content(disk, Result) \subseteq {Here(p) : p \in 0 .. NumPO}
    /\ ~ failed =>
         {Here(p) : p \in {0} \union (POs \ constPO)} \subseteq Content(disk, Result)

(* What verify_ncverilog.cpp lists as its steps 9 to 12, for a run where   *)
(* lrg ended and no tool failed: the logs are read and compared.           *)
VerifyCompares == lrg = "ended" /\ ~ failed => verify # "exited"
=============================================================================
