----------------------------- MODULE LrgProofs -----------------------------
(***************************************************************************)
(* Proofs about Lrg, for all numbers of outputs and of runs, whichever     *)
(* tools fail in whichever runs.                                           *)
(*                                                                         *)
(* Nothing is said of a file but which run and output it may be of.  The   *)
(* steps' effects on the directory are stated once, as facts about Put;    *)
(* the invariants then go through the steps of main in their order.        *)
(***************************************************************************)
EXTENDS Lrg, SequenceTheorems, TLAPS

-----------------------------------------------------------------------------
(* The directory.                                                          *)

LEMMA PutIfCases ==
  ASSUME NEW ok, NEW d, NEW f, NEW c
  PROVE  PutIf(ok, d, f, c) \in {d, Put(d, f, c)}
BY DEF PutIf

LEMMA PutFacts ==
  ASSUME NEW d, NEW f, NEW c
  PROVE  /\ \A g : g \in DOMAIN Put(d, f, c) <=> g \in DOMAIN d \/ g = f
         /\ Put(d, f, c)[f] = c
         /\ \A g \in DOMAIN d : g # f => Put(d, f, c)[g] = d[g]
BY DEF Put

(* If all files but those in X are stamped from S, they are after a write. *)
Stamped(d, X, S) == \A g \in DOMAIN d \ X : d[g] \subseteq S

LEMMA PutStamped ==
  ASSUME NEW d, NEW f, NEW c, NEW X, NEW S,
         Stamped(d, X, S), f \in X \/ c \subseteq S
  PROVE  Stamped(Put(d, f, c), X, S)
<1>1. ASSUME NEW g \in DOMAIN Put(d, f, c) \ X PROVE Put(d, f, c)[g] \subseteq S
  <2>1. CASE g = f
    BY <1>1, <2>1, PutFacts
  <2>2. CASE g # f
    BY <1>1, <2>2, PutFacts DEF Stamped
  <2> QED BY <2>1, <2>2
<1> QED BY <1>1 DEF Stamped

LEMMA PutIfStamped ==
  ASSUME NEW ok, NEW d, NEW f, NEW c, NEW X, NEW S,
         Stamped(d, X, S), f \in X \/ c \subseteq S
  PROVE  Stamped(PutIf(ok, d, f, c), X, S)
<1>1. Stamped(Put(d, f, c), X, S)
  BY PutStamped
<1> QED BY <1>1, PutIfCases

LEMMA ContentStamped ==
  ASSUME NEW d, NEW f, NEW X, NEW S, Stamped(d, X, S), f \notin X
  PROVE  Content(d, f) \subseteq S
BY DEF Stamped, Content

LEMMA OutcomesType == ASSUME NEW ok \in Outcomes PROVE ok \in BOOLEAN
BY DEF Outcomes

(* Which names are different.                                              *)
Plain == {ConstRel, ToSatOpt, Original, BeforeFix, FixLog, FixRel, BeforeFlatten,
          AfterFlatten, BeforeLog, AfterLog, VerifyRel, Result}

LEMMA Names ==
  /\ Files = Plain \union FaultBlifs \union FaultVs
  /\ Plain \cap FaultBlifs = {} /\ Plain \cap FaultVs = {}
  /\ FaultBlifs \cap FaultVs = {}
  /\ \A b \in FaultBlifs : VFile(b) \in FaultVs /\ b[2] \in POs
  /\ \A name \in {"fault0.blif", "fault1.blif"} : \A p \in POs :
       <<name, p>> \in FaultBlifs /\ <<name, p>>[2] = p
<1> USE DEF Plain, Files, FaultBlifs, FaultVs, VFile, ConstRel, ToSatOpt, Original,
          BeforeFix, FixLog, FixRel, BeforeFlatten, AfterFlatten, BeforeLog, AfterLog,
          VerifyRel, Result
<1>1. Files = Plain \union FaultBlifs \union FaultVs
  OBVIOUS
<1>2. Plain \cap FaultBlifs = {} /\ Plain \cap FaultVs = {}
  OBVIOUS
<1>3. FaultBlifs \cap FaultVs = {}
  OBVIOUS
<1>4. \A b \in FaultBlifs : VFile(b) \in FaultVs /\ b[2] \in POs
  OBVIOUS
<1>5. \A name \in {"fault0.blif", "fault1.blif"} : \A p \in POs :
        <<name, p>> \in FaultBlifs /\ <<name, p>>[2] = p
  OBVIOUS
<1> QED BY <1>1, <1>2, <1>3, <1>4, <1>5

LEMMA PlainNames ==
  /\ Result \notin {ConstRel, ToSatOpt, Original, BeforeFix, FixLog, FixRel,
                    BeforeFlatten, AfterFlatten, BeforeLog, AfterLog, VerifyRel}
  /\ FixLog # FixRel /\ BeforeFix # FixLog /\ BeforeFix # FixRel
  /\ BeforeFix # Original
  /\ ConstRel # ToSatOpt
BY DEF ConstRel, ToSatOpt, Original, BeforeFix, FixLog, FixRel, BeforeFlatten,
       AfterFlatten, BeforeLog, AfterLog, VerifyRel, Result

-----------------------------------------------------------------------------
(* Type correctness.                                                       *)

MainPCs == {"classify", "header", "build", "fix", "patch0", "patch1", "final", "rm"}

PCs == MainPCs \union {"shell", "verify", "next"}

Entries == [run : 1 .. MaxRuns, po : 0 .. NumPO + 1, from : SUBSET Stamp]

DiskTyped(d) == DOMAIN d \subseteq Files /\ Stamped(d, {}, Stamp)

(* The run number counts, the loop variable is an output where files of it *)
(* are written, and main runs as long as the step is one of its own.       *)
Control ==
  /\ run \in 0 .. MaxRuns
  /\ pc \in PCs
  /\ po \in 1 .. NumPO + 1
  /\ constPO \subseteq POs
  /\ notTruth \subseteq POs
  /\ lrg \in {"none", "running", "exited", "died", "ended"}
  /\ verify \in {"none", "compared", "exited"}
  /\ pc # "shell" => run \in 1 .. MaxRuns
  /\ pc \in {"patch0", "patch1"} => po \in notTruth
  /\ lrg = "running" <=> pc \in MainPCs
  /\ lrg = "died" => LrgMayDie

(* The files main opens without asking are there by then.                  *)
Present ==
  /\ pc \in {"header", "build"} => ConstRel \in DOMAIN disk
  /\ pc \in {"fix", "patch0", "patch1"} => BeforeFix \in DOMAIN disk
  /\ pc \in {"patch0", "patch1"} => FixLog \in DOMAIN disk /\ FixRel \in DOMAIN disk

Typed == Control /\ Present /\ failed \in BOOLEAN /\ blif \in Seq(Entries) /\ DiskTyped(disk)

LEMMA TypedIs == Typed => TypeOK
BY DEF Typed, Control, TypeOK, DiskTyped, Stamped, Entries, PCs, MainPCs

LEMMA HereType ==
  ASSUME run \in 1 .. MaxRuns, NEW p \in 0 .. NumPO PROVE Here(p) \in Stamp
BY DEF Here, Stamp

LEMMA EntryType ==
  ASSUME run \in 1 .. MaxRuns, NEW p \in 0 .. NumPO + 1, NEW from \in SUBSET Stamp
  PROVE  Entry(p, from) \in Entries
BY DEF Entry, Entries

LEMMA SourcesStamped ==
  ASSUME NEW S, \A k \in DOMAIN blif : blif[k].from \subseteq S
  PROVE  BlifSources \subseteq S
BY DEF BlifSources

LEMMA PlainFiles == Plain \subseteq Files
BY Names

LEMMA TypedInit == Init => Typed
<1> SUFFICES ASSUME Init PROVE Typed
  OBVIOUS
<1>1. Control
  BY NumPOAssumption, MaxRunsAssumption DEF Init, Control, PCs, MainPCs, POs
<1>2. blif \in Seq(Entries)
  BY DEF Init
<1>3. DiskTyped(disk)
  BY DEF Init, DiskTyped, Stamped
<1>4. failed \in BOOLEAN /\ Present
  BY DEF Init, Present
<1> QED BY <1>1, <1>2, <1>3, <1>4 DEF Typed

LEMMA ControlNext == Typed /\ [Next]_vars => Control'
<1> SUFFICES ASSUME Typed, [Next]_vars PROVE Control'
  OBVIOUS
<1> USE NumPOAssumption, MaxRunsAssumption DEF Typed, Control, PCs, MainPCs, POs
<1>1. CASE StartLrg
  BY <1>1 DEF StartLrg
<1>2. CASE CheckConstOutput
  BY <1>2 DEF CheckConstOutput, ExitOr
<1>3. CASE WriteBlifHeader
  BY <1>3 DEF WriteBlifHeader
<1>4. CASE BuildConstant
  BY <1>4 DEF BuildConstant
<1>5. CASE BuildTable
  <2>3. po \in POs /\ po' \in {po, po + 1} /\ pc = "build" /\ lrg = "running"
    BY <1>5 DEF BuildTable
  <2>4. \/ pc' = "build" /\ lrg' = lrg
        \/ pc' = "verify" /\ lrg' = "exited"
    BY <1>5 DEF BuildTable, ExitOr
  <2>5. UNCHANGED <<run, constPO, notTruth, verify>>
    BY <1>5 DEF BuildTable
  <2> QED BY <2>3, <2>4, <2>5
<1>6. CASE FinishBuild
  BY <1>6 DEF FinishBuild
<1>7. CASE SkipFix
  BY <1>7 DEF SkipFix
<1>8. CASE Simulate
  BY <1>8 DEF Simulate, ExitOr
<1>9. CASE PatchFault0
  BY <1>9 DEF PatchFault0
<1>10. CASE PatchFault1
  BY <1>10 DEF PatchFault1
<1>11. CASE MixVerilog
  BY <1>11 DEF MixVerilog
<1>12. CASE WriteResult
  BY <1>12 DEF WriteResult
<1>13. CASE RemoveBeyond
  BY <1>13 DEF RemoveBeyond
<1>14. CASE Die
  BY <1>14 DEF Die
<1>15. CASE Verify
  BY <1>15 DEF Verify
<1>16. CASE NextRun
  BY <1>16 DEF NextRun
<1>17. CASE UNCHANGED vars
  BY <1>17 DEF vars
<1> QED
  BY <1>1, <1>2, <1>3, <1>4, <1>5, <1>6, <1>7, <1>8, <1>9, <1>10, <1>11, <1>12,
     <1>13, <1>14, <1>15, <1>16, <1>17 DEF Next, MainStep

LEMMA FailedNext == failed \in BOOLEAN /\ [Next]_vars => failed' \in BOOLEAN
<1> SUFFICES ASSUME failed \in BOOLEAN, [Next]_vars PROVE failed' \in BOOLEAN
  OBVIOUS
<1>1. CASE StartLrg
  BY <1>1 DEF StartLrg
<1>2. CASE MainStep
  BY <1>2, Zenon DEF MainStep, CheckConstOutput, WriteBlifHeader, BuildConstant,
     BuildTable, FinishBuild, SkipFix, Simulate, PatchFault0, PatchFault1, PatchFault,
     MixVerilog, WriteResult, RemoveBeyond
<1>3. CASE Die \/ Verify \/ NextRun \/ UNCHANGED vars
  BY <1>3, Zenon DEF Die, Verify, NextRun, vars
<1> QED BY <1>1, <1>2, <1>3 DEF Next

LEMMA BlifTypedNext == Typed /\ [Next]_vars => blif' \in Seq(Entries)
<1> SUFFICES ASSUME Typed, [Next]_vars PROVE blif' \in Seq(Entries)
  OBVIOUS
<1>0. blif \in Seq(Entries)
  BY DEF Typed
<1>1. CASE WriteBlifHeader
  <2>1. Entry(0, {Here(0)}) \in Entries
    BY <1>1, HereType, EntryType, NumPOAssumption DEF WriteBlifHeader, Typed, Control
  <2> QED BY <1>1, <2>1 DEF WriteBlifHeader
<1>2. CASE BuildConstant
  <2>1. disk[ConstRel] \in SUBSET Stamp
    BY <1>2 DEF BuildConstant, Typed, Present, DiskTyped, Stamped
  <2>2. Entry(po, disk[ConstRel]) \in Entries
    BY <1>2, <2>1, EntryType DEF BuildConstant, Typed, Control
  <2> QED BY <1>0, <1>2, <2>2 DEF BuildConstant
<1>3. CASE BuildTable
  <2>1. PICK ok \in Outcomes : disk' = PutIf(ok, disk, ToSatOpt, {Here(po)})
    BY <1>3 DEF BuildTable
  <2>2. Here(po) \in Stamp
    BY <1>3, HereType DEF BuildTable, Typed, Control, POs
  <2>3. Stamped(disk', {}, Stamp)
    BY <2>1, <2>2, PutIfStamped DEF Typed, DiskTyped
  <2>4. ToSatOpt \in DOMAIN disk' => disk'[ToSatOpt] \in SUBSET Stamp
    BY <2>3 DEF Stamped
  <2>5. run \in 1 .. MaxRuns /\ po \in 0 .. NumPO + 1
    BY <1>3 DEF BuildTable, Typed, Control
  <2>6. ToSatOpt \in DOMAIN disk' => Entry(po, disk'[ToSatOpt]) \in Entries
    BY <2>4, <2>5, EntryType
  <2>7. \/ blif' = blif
        \/ ToSatOpt \in DOMAIN disk' /\ blif' = Append(blif, Entry(po, disk'[ToSatOpt]))
    BY <1>3 DEF BuildTable
  <2> QED BY <1>0, <2>6, <2>7
<1>4. CASE FinishBuild
  <2>1. Entry(NumPO + 1, {}) \in Entries
    BY <1>4, EntryType, NumPOAssumption DEF FinishBuild, Typed, Control
  <2> QED BY <1>0, <1>4, <2>1 DEF FinishBuild
<1>5. CASE RemoveBeyond \/ NextRun
  <2>1. blif' = <<>> \/ blif' = blif
    BY <1>5 DEF RemoveBeyond, NextRun
  <2>2. <<>> \in Seq(Entries)
    OBVIOUS
  <2> QED BY <1>0, <2>1, <2>2
<1>6. CASE UNCHANGED blif
  BY <1>0, <1>6
<1> QED
  BY <1>1, <1>2, <1>3, <1>4, <1>5, <1>6 DEF Next, MainStep, StartLrg, CheckConstOutput,
     SkipFix, Simulate, PatchFault0, PatchFault1, MixVerilog, WriteResult, Die, Verify, vars

(* What each step may do to the directory.                                 *)
LEMMA ToolWrites ==
  ASSUME [Next]_vars
  PROVE  \/ UNCHANGED disk
         \/ RemoveBeyond \/ NextRun
         \/ \A f \in DOMAIN disk : f \in DOMAIN disk'
<1>1. CASE CheckConstOutput
  BY <1>1, PutIfCases, PutFacts DEF CheckConstOutput
<1>2. CASE BuildTable
  BY <1>2, PutIfCases, PutFacts DEF BuildTable
<1>3. CASE FinishBuild
  BY <1>3, PutIfCases, PutFacts DEF FinishBuild
<1>4. CASE Simulate
  BY <1>4, PutIfCases, PutFacts DEF Simulate
<1>5. CASE PatchFault0 \/ PatchFault1
  BY <1>5, PutIfCases, PutFacts DEF PatchFault0, PatchFault1, PatchFault
<1>6. CASE MixVerilog
  BY <1>6, PutIfCases, PutFacts DEF MixVerilog
<1>7. CASE WriteResult
  BY <1>7, PutFacts DEF WriteResult
<1>8. CASE Verify
  BY <1>8, PutIfCases, PutFacts DEF Verify
<1> QED
  BY <1>1, <1>2, <1>3, <1>4, <1>5, <1>6, <1>7, <1>8 DEF Next, MainStep, StartLrg,
     WriteBlifHeader, BuildConstant, SkipFix, Die, vars

LEMMA PresentNext == Typed /\ [Next]_vars => Present'
<1> SUFFICES ASSUME Typed, [Next]_vars PROVE Present'
  OBVIOUS
<1> USE DEF Typed, Present
<1>1. CASE CheckConstOutput
  BY <1>1 DEF CheckConstOutput, ExitOr
<1>2. CASE BuildTable
  <2>1. ConstRel \in DOMAIN disk'
    BY <1>2, PutIfCases, PutFacts DEF BuildTable
  <2>2. pc' \in {"build", "verify"}
    BY <1>2 DEF BuildTable, ExitOr
  <2> QED BY <2>1, <2>2
<1>3. CASE FinishBuild
  BY <1>3, PutFacts DEF FinishBuild
<1>4. CASE Simulate
  <2>1. BeforeFix \in DOMAIN disk'
    BY <1>4, PutIfCases, PutFacts DEF Simulate
  <2>2. \/ pc' = "verify"
        \/ pc' = "patch0" /\ FixLog \in DOMAIN disk' /\ FixRel \in DOMAIN disk'
    BY <1>4 DEF Simulate, ExitOr
  <2> QED BY <2>1, <2>2
<1>5. CASE PatchFault0 \/ PatchFault1
  <2>1. \A f \in DOMAIN disk : f \in DOMAIN disk'
    BY <1>5, PutIfCases, PutFacts DEF PatchFault0, PatchFault1, PatchFault
  <2>2. pc' \in {"patch1", "fix"} /\ pc \in {"patch0", "patch1"}
    BY <1>5 DEF PatchFault0, PatchFault1
  <2> QED BY <2>1, <2>2
<1>6. CASE MixVerilog \/ WriteResult \/ RemoveBeyond
  BY <1>6 DEF MixVerilog, WriteResult, RemoveBeyond
<1>7. CASE Verify \/ NextRun \/ Die \/ StartLrg
  BY <1>7 DEF Verify, NextRun, Die, StartLrg
<1>8. CASE WriteBlifHeader \/ BuildConstant \/ SkipFix
  BY <1>8 DEF WriteBlifHeader, BuildConstant, SkipFix
<1>9. CASE UNCHANGED vars
  BY <1>9 DEF vars
<1> QED
  BY <1>1, <1>2, <1>3, <1>4, <1>5, <1>6, <1>7, <1>8, <1>9 DEF Next, MainStep

(* The files that exist are those the module names.                        *)
LEMMA FilesNext == DOMAIN disk \subseteq Files /\ Typed /\ [Next]_vars => DOMAIN disk' \subseteq Files
<1> SUFFICES ASSUME DOMAIN disk \subseteq Files, Typed, [Next]_vars
             PROVE  \A f \in DOMAIN disk' : f \in Files
  OBVIOUS
<1> USE PlainFiles, PutIfCases, PutFacts DEF Plain
<1>1. CASE CheckConstOutput
  BY <1>1 DEF CheckConstOutput
<1>2. CASE BuildTable
  BY <1>2 DEF BuildTable
<1>3. CASE FinishBuild
  BY <1>3 DEF FinishBuild
<1>4. CASE Simulate
  BY <1>4 DEF Simulate
<1>5. CASE PatchFault0 \/ PatchFault1
  <2>1. PICK name \in {"fault0.blif", "fault1.blif"} : PatchFault(name) /\ po \in POs
    BY <1>5 DEF PatchFault0, PatchFault1, Typed, Control
  <2>2. <<name, po>> \in Files /\ VFile(<<name, po>>) \in Files
    BY <2>1, Names
  <2> QED BY <2>1, <2>2 DEF PatchFault
<1>6. CASE MixVerilog
  BY <1>6 DEF MixVerilog
<1>7. CASE WriteResult
  BY <1>7 DEF WriteResult
<1>8. CASE RemoveBeyond \/ NextRun
  BY <1>8 DEF RemoveBeyond, NextRun, WithoutBeyond
<1>9. CASE Verify
  BY <1>9 DEF Verify
<1>10. CASE UNCHANGED disk
  BY <1>10
<1> QED
  BY <1>1, <1>2, <1>3, <1>4, <1>5, <1>6, <1>7, <1>8, <1>9, <1>10 DEF Next, MainStep,
     StartLrg, WriteBlifHeader, BuildConstant, SkipFix, Die, vars

(* What files are made of: stamps of this run, of the files read and of    *)
(* the circuit.  S may be all stamps, or those of one run.                 *)
LEMMA StampedNext ==
  ASSUME NEW S, NEW X \in SUBSET {Result}, Typed, [Next]_vars,
         pc # "shell" => \A p \in 0 .. NumPO : Here(p) \in S,
         pc = "build" => \A k \in DOMAIN blif : blif[k].from \subseteq S,
         Stamped(disk, X, S)
  PROVE  Stamped(disk', X, S)
<1>0. \A f : f # Result => Content(disk, f) \subseteq S
  BY ContentStamped
<1> USE PlainNames
<1>1. CASE CheckConstOutput
  <2>1. {Here(0)} \subseteq S
    BY <1>1, NumPOAssumption DEF CheckConstOutput
  <2> QED BY <1>1, <2>1, PutIfStamped DEF CheckConstOutput
<1>2. CASE BuildTable
  <2>1. {Here(po)} \subseteq S
    BY <1>2 DEF BuildTable, POs
  <2> QED BY <1>2, <2>1, PutIfStamped DEF BuildTable
<1>3. CASE FinishBuild
  <2>1. BlifSources \subseteq S
    BY <1>3, SourcesStamped DEF FinishBuild
  <2>2. PICK ok \in Outcomes :
          disk' = Put(PutIf(ok, disk, Original, BlifSources), BeforeFix,
                      Content(PutIf(ok, disk, Original, BlifSources), Original))
    BY <1>3 DEF FinishBuild
  <2>3. Stamped(PutIf(ok, disk, Original, BlifSources), X, S)
    BY <2>1, PutIfStamped
  <2>4. Content(PutIf(ok, disk, Original, BlifSources), Original) \subseteq S
    BY <2>3, ContentStamped
  <2> QED BY <2>2, <2>3, <2>4, PutStamped
<1>4. CASE Simulate
  <2>1. {Here(po)} \subseteq S
    BY <1>4 DEF Simulate, Typed, Control, POs
  <2>2. PICK sim \in Outcomes, gen \in Outcomes :
          disk' = PutIf(gen, PutIf(sim /\ Simulates(BeforeFix), disk,
                           FixLog, {Here(po)}), FixRel, {Here(po)})
    BY <1>4 DEF Simulate
  <2>3. Stamped(PutIf(sim /\ Simulates(BeforeFix), disk, FixLog, {Here(po)}), X, S)
    BY <2>1, PutIfStamped
  <2> QED BY <2>1, <2>2, <2>3, PutIfStamped
<1>5. CASE PatchFault0 \/ PatchFault1
  <2> DEFINE from == disk[FixLog] \union disk[FixRel] \union {Here(po)}
  <2>1. CASE UNCHANGED disk
    BY <2>1
  <2>2. CASE ~ UNCHANGED disk
    <3>1. PICK name \in {"fault0.blif", "fault1.blif"} : PatchFault(name)
      BY <1>5 DEF PatchFault0, PatchFault1
    <3>2. PICK ok \in Outcomes :
            disk' = PutIf(ok, Put(disk, <<name, po>>, from), VFile(<<name, po>>), from)
      BY <2>2, <3>1 DEF PatchFault
    <3>3. pc \in {"patch0", "patch1"} /\ po \in POs /\ FixLog \in DOMAIN disk
            /\ FixRel \in DOMAIN disk
      BY <1>5 DEF PatchFault0, PatchFault1, Typed, Control, Present
    <3>4. Here(po) \in S
      BY <3>3 DEF POs
    <3>5. from \subseteq S
      BY <3>3, <3>4 DEF Stamped
    <3> HIDE DEF from
    <3>6. Stamped(Put(disk, <<name, po>>, from), X, S)
      BY <3>5, PutStamped
    <3> QED BY <3>2, <3>5, <3>6, PutIfStamped
  <2> QED BY <2>1, <2>2
<1>6. CASE MixVerilog
  <2> DEFINE mixed == IF FaultsPresent = {}
                      THEN Content(disk, Original)
                      ELSE disk[BeforeFix] \union
                             UNION {Content(disk, VFile(b)) : b \in FaultsPresent}
  <2>1. mixed \subseteq S
    <3>1. disk[BeforeFix] \subseteq S
      BY <1>6 DEF MixVerilog, Typed, Present, Stamped
    <3>2. \A b \in FaultsPresent : Content(disk, VFile(b)) \subseteq S
      <4>1. \A b \in FaultsPresent : VFile(b) # Result
        BY Names DEF FaultsPresent, Plain
      <4> QED BY <1>0, <4>1
    <3> QED BY <1>0, <3>1, <3>2
  <2>2. PICK ok \in Outcomes :
          disk' = PutIf(ok, Put(disk, BeforeFlatten, mixed), AfterFlatten, mixed)
    BY <1>6 DEF MixVerilog
  <2> HIDE DEF mixed
  <2>3. Stamped(Put(disk, BeforeFlatten, mixed), X, S)
    BY <2>1, PutStamped
  <2> QED BY <2>1, <2>2, <2>3, PutIfStamped
<1>7. CASE WriteResult
  BY <1>0, <1>7, PutStamped DEF WriteResult
<1>8. CASE RemoveBeyond \/ NextRun
  BY <1>8 DEF RemoveBeyond, NextRun, WithoutBeyond, Stamped
<1>9. CASE Verify
  <2>1. {Here(0)} \subseteq S
    BY <1>9, NumPOAssumption DEF Verify
  <2> DEFINE d1(ok) == PutIf(ok, disk, BeforeLog, {Here(0)})
             d2(k, l) == PutIf(l, d1(k), AfterLog, {Here(0)})
  <2>2. \E k, l, m : disk' = PutIf(m, d2(k, l), VerifyRel, {Here(0)})
    BY <1>9 DEF Verify
  <2>3. \A k : Stamped(d1(k), X, S)
    BY <2>1, PutIfStamped
  <2>4. \A k, l : Stamped(d2(k, l), X, S)
    BY <2>1, <2>3, PutIfStamped
  <2> QED BY <2>1, <2>2, <2>4, PutIfStamped
<1>10. CASE UNCHANGED disk
  BY <1>10
<1> QED
  BY <1>1, <1>2, <1>3, <1>4, <1>5, <1>6, <1>7, <1>8, <1>9, <1>10 DEF Next, MainStep,
     StartLrg, WriteBlifHeader, BuildConstant, SkipFix, Die, vars

LEMMA EntriesFrom == Typed => \A k \in DOMAIN blif : blif[k].from \subseteq Stamp
<1> SUFFICES ASSUME Typed, NEW k \in DOMAIN blif PROVE blif[k].from \subseteq Stamp
  OBVIOUS
<1>1. blif[k] \in Entries
  BY DEF Typed
<1> QED BY <1>1 DEF Entries

LEMMA DiskTypedNext == Typed /\ [Next]_vars => DiskTyped(disk')
<1> SUFFICES ASSUME Typed, [Next]_vars PROVE DiskTyped(disk')
  OBVIOUS
<1>1. pc # "shell" => \A p \in 0 .. NumPO : Here(p) \in Stamp
  BY HereType DEF Typed, Control
<1>2. Stamped(disk', {}, Stamp)
  BY <1>1, EntriesFrom, StampedNext DEF Typed, DiskTyped
<1> QED BY <1>2, FilesNext DEF Typed, DiskTyped

(* The types of TypeOK, of every step.                                     *)
LEMMA TypedNext == Typed /\ [Next]_vars => Typed'
BY ControlNext, FailedNext, PresentNext, BlifTypedNext, DiskTypedNext DEF Typed

THEOREM TypeCorrect == Spec => []TypeOK
BY TypedInit, TypedNext, TypedIs, PTL DEF Spec

-----------------------------------------------------------------------------
(* The circuit given to abc.                                               *)

(* The blocks of a blif of run r, one for each output from the header on.  *)
Aligned(s, r) == \A k \in 1 .. Len(s) : s[k].run = r /\ s[k].po = k - 1

Blocks ==
  /\ pc = "build" => Len(blif) = po /\ Aligned(blif, run)
  /\ pc \in {"fix", "patch0", "patch1"} => Len(blif) = NumPO + 2 /\ Aligned(blif, run)

LEMMA AppendAligned ==
  ASSUME NEW s \in Seq(Entries), NEW r, Aligned(s, r),
         NEW e \in Entries, e.run = r, e.po = Len(s)
  PROVE  Len(Append(s, e)) = Len(s) + 1 /\ Aligned(Append(s, e), r)
<1>1. /\ Len(Append(s, e)) = Len(s) + 1
      /\ \A k \in 1 .. Len(s) : Append(s, e)[k] = s[k]
      /\ Append(s, e)[Len(s) + 1] = e
  BY AppendProperties
<1>2. Len(s) \in Nat
  BY LenProperties
<1>3. ASSUME NEW k \in 1 .. Len(s) + 1
      PROVE  Append(s, e)[k].run = r /\ Append(s, e)[k].po = k - 1
  <2>1. CASE k \in 1 .. Len(s)
    BY <1>1, <2>1 DEF Aligned
  <2>2. CASE k = Len(s) + 1
    BY <1>1, <1>2, <2>2
  <2> QED BY <1>2, <1>3, <2>1, <2>2
<1> QED BY <1>1, <1>3 DEF Aligned

LEMMA BlocksNext == Typed /\ Blocks /\ [Next]_vars => Blocks'
<1> SUFFICES ASSUME Typed, Blocks, [Next]_vars PROVE Blocks'
  OBVIOUS
<1>0. blif \in Seq(Entries) /\ pc \in PCs /\ po \in 1 .. NumPO + 1
  BY DEF Typed, Control
<1>1. CASE WriteBlifHeader
  <2>1. blif' = <<Entry(0, {Here(0)})>> /\ po' = 1 /\ pc' = "build" /\ run' = run
    BY <1>1 DEF WriteBlifHeader
  <2>2. Len(blif') = 1 /\ blif'[1].run = run /\ blif'[1].po = 0
    BY <2>1 DEF Entry
  <2> QED BY <2>1, <2>2 DEF Blocks, Aligned
<1>2. CASE BuildConstant
  <2>1. /\ blif' = Append(blif, Entry(po, disk[ConstRel]))
        /\ Entry(po, disk[ConstRel]).run = run /\ Entry(po, disk[ConstRel]).po = po
        /\ Len(blif) = po /\ Aligned(blif, run)
    BY <1>2 DEF BuildConstant, Blocks, Entry
  <2>2. Entry(po, disk[ConstRel]) \in Entries
    <3>1. disk[ConstRel] \in SUBSET Stamp /\ run \in 1 .. MaxRuns /\ po \in 0 .. NumPO + 1
      BY <1>2 DEF BuildConstant, Typed, Control, Present, DiskTyped, Stamped
    <3> QED BY <3>1, EntryType
  <2>3. Len(blif') = po + 1 /\ Aligned(blif', run)
    BY <1>0, <2>1, <2>2, AppendAligned
  <2> QED BY <1>2, <2>3 DEF BuildConstant, Blocks
<1>3. CASE BuildTable
  <2>1. Len(blif) = po /\ Aligned(blif, run) /\ run' = run /\ pc' \in {"build", "verify"}
    BY <1>3 DEF BuildTable, ExitOr, Blocks
  <2>2. CASE ToSatOpt \in DOMAIN disk'
    <3>1. blif' = Append(blif, Entry(po, disk'[ToSatOpt])) /\ po' = po + 1
      BY <1>3, <2>2 DEF BuildTable
    <3>2. disk'[ToSatOpt] \in SUBSET Stamp /\ run \in 1 .. MaxRuns /\ po \in 0 .. NumPO + 1
      <4>1. DiskTyped(disk')
        BY DiskTypedNext
      <4>2. disk'[ToSatOpt] \in SUBSET Stamp
        BY <2>2, <4>1 DEF DiskTyped, Stamped
      <4>3. run \in 1 .. MaxRuns /\ po \in 0 .. NumPO + 1
        BY <1>3 DEF BuildTable, Typed, Control
      <4> QED BY <4>2, <4>3
    <3>3. Entry(po, disk'[ToSatOpt]) \in Entries
      BY <3>2, EntryType
    <3>4. Entry(po, disk'[ToSatOpt]).run = run /\ Entry(po, disk'[ToSatOpt]).po = po
      BY DEF Entry
    <3>5. Len(blif') = po + 1 /\ Aligned(blif', run)
      BY <1>0, <2>1, <3>1, <3>3, <3>4, AppendAligned
    <3> QED BY <2>1, <3>1, <3>5 DEF Blocks
  <2>3. CASE ToSatOpt \notin DOMAIN disk'
    <3>1. pc' = "verify"
      BY <1>3, <2>3 DEF BuildTable, ExitOr
    <3> QED BY <3>1 DEF Blocks
  <2> QED BY <2>2, <2>3
<1>4. CASE FinishBuild
  <2>1. /\ blif' = Append(blif, Entry(NumPO + 1, {}))
        /\ Entry(NumPO + 1, {}).run = run /\ Entry(NumPO + 1, {}).po = NumPO + 1
        /\ Len(blif) = NumPO + 1 /\ Aligned(blif, run)
        /\ run' = run /\ pc' = "fix"
    BY <1>4 DEF FinishBuild, Blocks, Entry
  <2>2. Entry(NumPO + 1, {}) \in Entries
    BY <1>4, EntryType, NumPOAssumption DEF FinishBuild, Typed, Control
  <2>3. Len(blif') = NumPO + 1 + 1 /\ Aligned(blif', run)
    BY <1>0, <2>1, <2>2, AppendAligned
  <2>4. Len(blif') = NumPO + 2
    BY <2>3, NumPOAssumption
  <2> QED BY <2>1, <2>3, <2>4 DEF Blocks
<1>5. CASE SkipFix \/ PatchFault0 \/ PatchFault1
  BY <1>5 DEF SkipFix, PatchFault0, PatchFault1, Blocks
<1>6. CASE Simulate
  <2>1. pc = "fix" /\ pc' \in {"patch0", "verify"} /\ UNCHANGED <<run, blif>>
    BY <1>6 DEF Simulate, ExitOr
  <2> QED BY <2>1 DEF Blocks
<1>7. CASE UNCHANGED vars
  BY <1>7 DEF vars, Blocks
<1>8. CASE StartLrg \/ CheckConstOutput \/ MixVerilog \/ WriteResult
             \/ RemoveBeyond \/ Die \/ Verify \/ NextRun
  <2>1. pc' \notin {"build", "fix", "patch0", "patch1"}
    BY <1>8 DEF StartLrg, CheckConstOutput, ExitOr, MixVerilog, WriteResult,
       RemoveBeyond, Die, Verify, NextRun
  <2> QED BY <2>1 DEF Blocks
<1> QED
  BY <1>1, <1>2, <1>3, <1>4, <1>5, <1>6, <1>7, <1>8 DEF Next, MainStep

(* abc reads one block per output, all of this run and in order, whatever  *)
(* an earlier run left in the file that is appended to.                    *)
THEOREM CircuitWellFormed == Spec => []BlifWellFormed
<1>1. Init => Blocks
  BY DEF Init, Blocks
<1>2. Typed /\ Blocks => BlifWellFormed
  BY DEF Typed, Blocks, Aligned, BlifWellFormed
<1> QED BY <1>1, <1>2, BlocksNext, TypedInit, TypedNext, PTL DEF Spec

-----------------------------------------------------------------------------
(* Files a step leaves alone.                                              *)

Kept(d, e, g) == (g \in DOMAIN e <=> g \in DOMAIN d) /\ (g \in DOMAIN d => e[g] = d[g])

LEMMA PutKeeps ==
  ASSUME NEW ok, NEW d, NEW f, NEW c, NEW h, NEW g, g # f, Kept(h, d, g)
  PROVE  Kept(h, PutIf(ok, d, f, c), g) /\ Kept(h, Put(d, f, c), g)
<1>1. Kept(h, Put(d, f, c), g)
  BY PutFacts DEF Kept
<1> QED BY <1>1, PutIfCases

(* The faults' blifs are written by PatchFault alone, the result by        *)
(* WriteResult.                                                            *)
LEMMA KeptNext ==
  ASSUME Typed, [Next]_vars, ~ RemoveBeyond, ~ NextRun,
         NEW g \in FaultBlifs \union {Result},
         g = Result => ~ WriteResult,
         g \in FaultBlifs => ~ PatchFault0 /\ ~ PatchFault1
  PROVE  Kept(disk, disk', g)
<1>0. Kept(disk, disk, g)
  BY DEF Kept
<1>a. \A f \in Plain : g = f => f = Result
  BY Names DEF Plain
<1>1. CASE CheckConstOutput
  BY <1>0, <1>1, <1>a, PlainNames, PutKeeps DEF CheckConstOutput, Plain
<1>2. CASE BuildTable
  BY <1>0, <1>2, <1>a, PlainNames, PutKeeps DEF BuildTable, Plain
<1>3. CASE FinishBuild
  <2>1. g # Original /\ g # BeforeFix
    BY <1>a, PlainNames DEF Plain
  <2>2. \A ok, c : Kept(disk, PutIf(ok, disk, Original, c), g)
    BY <1>0, <2>1, PutKeeps
  <2> QED BY <1>3, <2>1, <2>2, PutKeeps DEF FinishBuild
<1>4. CASE Simulate
  <2>1. g # FixLog /\ g # FixRel
    BY <1>a, PlainNames DEF Plain
  <2>2. \A ok, c : Kept(disk, PutIf(ok, disk, FixLog, c), g)
    BY <1>0, <2>1, PutKeeps
  <2> QED BY <1>4, <2>1, <2>2, PutKeeps DEF Simulate
<1>5. CASE PatchFault0 \/ PatchFault1
  <2>1. g = Result
    BY <1>5
  <2>2. PICK name \in {"fault0.blif", "fault1.blif"} : PatchFault(name) /\ po \in POs
    BY <1>5 DEF PatchFault0, PatchFault1, Typed, Control
  <2>3. g # <<name, po>> /\ g # VFile(<<name, po>>)
    BY <2>1, <2>2, Names DEF Plain
  <2>4. \A c : Kept(disk, Put(disk, <<name, po>>, c), g)
    BY <1>0, <2>3, PutKeeps
  <2> QED BY <1>0, <2>2, <2>3, <2>4, PutKeeps DEF PatchFault
<1>6. CASE MixVerilog
  <2>1. g # BeforeFlatten /\ g # AfterFlatten
    BY <1>a, PlainNames DEF Plain
  <2>2. \A c : Kept(disk, Put(disk, BeforeFlatten, c), g)
    BY <1>0, <2>1, PutKeeps
  <2> QED BY <1>6, <2>1, <2>2, PutKeeps DEF MixVerilog
<1>7. CASE WriteResult
  BY <1>0, <1>7, PutKeeps DEF WriteResult
<1>8. CASE Verify
  <2>1. g # BeforeLog /\ g # AfterLog /\ g # VerifyRel
    BY <1>a, PlainNames DEF Plain
  <2>2. \A k, c : Kept(disk, PutIf(k, disk, BeforeLog, c), g)
    BY <1>0, <2>1, PutKeeps
  <2>3. \A k, l, c : Kept(disk, PutIf(l, PutIf(k, disk, BeforeLog, c), AfterLog, c), g)
    BY <2>1, <2>2, PutKeeps
  <2> QED BY <1>8, <2>1, <2>3, PutKeeps DEF Verify
<1>9. CASE UNCHANGED disk
  BY <1>0, <1>9
<1> QED
  BY <1>1, <1>2, <1>3, <1>4, <1>5, <1>6, <1>7, <1>8, <1>9 DEF Next, MainStep,
     StartLrg, WriteBlifHeader, BuildConstant, SkipFix, Die, vars

-----------------------------------------------------------------------------
(* One run's result, when make rm follows every run.                       *)

Mine(r) == [run : {r}, po : 0 .. NumPO]

OneRun ==
  /\ pc = "shell" => DOMAIN disk \subseteq {Result}
  /\ Stamped(disk, {Result}, Mine(run))
  /\ pc = "build" => \A k \in DOMAIN blif : blif[k].from \subseteq Mine(run)
  /\ ResultOfOneRun

LEMMA OneRunNext ==
  ASSUME MakeRm = TRUE, Typed, OneRun, [Next]_vars PROVE OneRun'
<1>0. \A p \in 0 .. NumPO : Here(p) \in Mine(run)
  BY DEF Here, Mine
<1>1. DOMAIN disk' \subseteq {Result} \/ pc' # "shell"
  <2>1. CASE NextRun
    BY <2>1 DEF NextRun, WithoutBeyond
  <2>2. CASE UNCHANGED vars
    BY <2>2 DEF vars, OneRun
  <2> QED
    BY <2>1, <2>2 DEF Next, MainStep, StartLrg, CheckConstOutput, ExitOr,
       WriteBlifHeader, Typed, Control, BuildConstant, BuildTable, FinishBuild, SkipFix,
       Simulate, PatchFault0, PatchFault1, MixVerilog, WriteResult, RemoveBeyond, Die, Verify
<1>2. Stamped(disk', {Result}, Mine(run'))
  <2>1. CASE StartLrg
    BY <2>1 DEF StartLrg, OneRun, Stamped
  <2>2. CASE ~ StartLrg
    <3>1. run' = run
      BY <2>2 DEF Next, MainStep, CheckConstOutput, WriteBlifHeader, BuildConstant,
         BuildTable, FinishBuild, SkipFix, Simulate, PatchFault0, PatchFault1,
         MixVerilog, WriteResult, RemoveBeyond, Die, Verify, NextRun, vars
    <3>2. PICK S : S = Mine(run)
      OBVIOUS
    <3>3. Stamped(disk', {Result}, S)
      BY <1>0, <3>2, StampedNext DEF OneRun
    <3> QED BY <3>1, <3>2, <3>3
  <2> QED BY <2>1, <2>2
<1>3. ASSUME pc' = "build", NEW k \in DOMAIN blif' PROVE blif'[k].from \subseteq Mine(run')
  <2>1. blif \in Seq(Entries) /\ run' = run
    BY <1>3 DEF Typed, Control, Next, MainStep, StartLrg, CheckConstOutput, ExitOr,
       WriteBlifHeader, BuildConstant,
       BuildTable, FinishBuild, SkipFix, Simulate, PatchFault0, PatchFault1,
       MixVerilog, WriteResult, RemoveBeyond, Die, Verify, NextRun, vars
  <2>2. CASE WriteBlifHeader
    BY <1>0, <1>3, <2>1, <2>2, NumPOAssumption DEF WriteBlifHeader, Entry
  <2>3. CASE BuildConstant
    <3>1. disk[ConstRel] \subseteq Mine(run)
      BY <2>3, PlainNames DEF BuildConstant, Typed, Present, OneRun, Stamped
    <3>2. \/ k \in DOMAIN blif /\ blif'[k] = blif[k]
          \/ blif'[k].from = disk[ConstRel]
      BY <1>3, <2>1, <2>3 DEF BuildConstant, Entry
    <3> QED BY <2>1, <2>3, <3>1, <3>2 DEF BuildConstant, OneRun
  <2>4. CASE BuildTable
    <3>1. ToSatOpt \in DOMAIN disk' /\ blif' = Append(blif, Entry(po, disk'[ToSatOpt]))
      BY <1>3, <2>4 DEF BuildTable, ExitOr
    <3>2. disk'[ToSatOpt] \subseteq Mine(run)
      BY <1>2, <2>1, <3>1, PlainNames DEF Stamped
    <3>3. \/ k \in DOMAIN blif /\ blif'[k] = blif[k]
          \/ blif'[k].from = disk'[ToSatOpt]
      BY <1>3, <2>1, <3>1 DEF Entry
    <3> QED BY <2>1, <2>4, <3>2, <3>3 DEF BuildTable, OneRun
  <2>5. CASE UNCHANGED vars
    BY <1>3, <2>5 DEF vars, OneRun
  <2> QED
    BY <1>3, <2>2, <2>3, <2>4, <2>5 DEF Next, MainStep, StartLrg, CheckConstOutput, ExitOr,
       FinishBuild, SkipFix, Simulate, PatchFault0, PatchFault1, MixVerilog, WriteResult,
       RemoveBeyond, Die, Verify, NextRun
<1>4. ResultOfOneRun'
  <2>1. CASE WriteResult
    <3>1. Content(disk, AfterFlatten) \subseteq Mine(run)
      BY PlainNames, ContentStamped DEF OneRun
    <3>2. disk'[Result] \subseteq Mine(run)
      BY <2>1, <3>1, PutFacts DEF WriteResult
    <3> QED BY <3>2 DEF ResultOfOneRun, Mine
  <2>2. CASE RemoveBeyond \/ NextRun
    BY <2>2 DEF RemoveBeyond, NextRun, WithoutBeyond, OneRun, ResultOfOneRun
  <2>3. CASE ~ WriteResult /\ ~ RemoveBeyond /\ ~ NextRun
    <3>1. Kept(disk, disk', Result)
      BY <2>3, KeptNext, Names DEF Plain
    <3> QED BY <3>1 DEF Kept, OneRun, ResultOfOneRun
  <2> QED BY <2>1, <2>2, <2>3
<1> QED BY <1>1, <1>2, <1>3, <1>4 DEF OneRun

(* With runall.sh a result is made from the answers of one run, whatever   *)
(* runs before it were killed at whatever step, and whichever tools fail.  *)
THEOREM OneRunPerResult == ASSUME MakeRm = TRUE PROVE Spec => []ResultOfOneRun
<1>1. Init => OneRun
  BY DEF Init, OneRun, Stamped, ResultOfOneRun
<1>2. OneRun => ResultOfOneRun
  BY DEF OneRun
<1>3. Typed /\ OneRun /\ [Next]_vars => OneRun'
  BY OneRunNext
<1> QED BY <1>1, <1>2, <1>3, TypedInit, TypedNext, PTL DEF Spec

-----------------------------------------------------------------------------
(* The patches MixVerilog finds.                                           *)

(* FixNetwork's logs are there from the first patch on, so a run that      *)
(* cannot open them has not patched anything; main begins without patches  *)
(* and leaves none unless it is killed.                                    *)
OwnFaults ==
  /\ pc \in {"shell", "classify", "header", "build"} \/ lrg \in {"exited", "ended"}
       => \A b \in FaultBlifs : b \notin DOMAIN disk
  /\ pc \in {"fix", "patch0", "patch1"} =>
       \A b \in FaultBlifs :
         b \in DOMAIN disk =>
           Here(b[2]) \in disk[b] /\ FixLog \in DOMAIN disk /\ FixRel \in DOMAIN disk
  /\ pc \in {"verify", "next"} => lrg \in {"exited", "died", "ended"}

LEMMA PatchOwnFaults ==
  ASSUME Typed, OwnFaults, pc \in {"patch0", "patch1"}, run' = run,
         NEW name \in {"fault0.blif", "fault1.blif"}, PatchFault(name)
  PROVE  \A b \in FaultBlifs :
           b \in DOMAIN disk' =>
             Here(b[2]) \in disk'[b] /\ FixLog \in DOMAIN disk' /\ FixRel \in DOMAIN disk'
<1> DEFINE from == disk[FixLog] \union disk[FixRel] \union {Here(po)}
<1>0. po \in POs /\ FixLog \in DOMAIN disk /\ FixRel \in DOMAIN disk
  BY DEF Typed, Control, Present
<1>1. CASE UNCHANGED disk
  BY <1>1 DEF OwnFaults
<1>2. CASE ~ UNCHANGED disk
  <2>1. PICK ok \in Outcomes :
          disk' = PutIf(ok, Put(disk, <<name, po>>, from), VFile(<<name, po>>), from)
    BY <1>2 DEF PatchFault
  <2>2. Here(po) \in from
    OBVIOUS
  <2> HIDE DEF from
  <2>3. FixLog \in DOMAIN disk' /\ FixRel \in DOMAIN disk'
    BY <1>0, <2>1, PutIfCases, PutFacts
  <2>4. ASSUME NEW b \in FaultBlifs, b \in DOMAIN disk' PROVE Here(b[2]) \in disk'[b]
    <3>1. b # VFile(<<name, po>>) /\ <<name, po>>[2] = po
      BY <1>0, Names
    <3>2. b \in DOMAIN Put(disk, <<name, po>>, from)
            /\ disk'[b] = Put(disk, <<name, po>>, from)[b]
      BY <2>1, <2>4, <3>1, PutIfCases, PutFacts
    <3>3. CASE b = <<name, po>>
      BY <2>2, <3>1, <3>2, <3>3, PutFacts
    <3>4. CASE b # <<name, po>>
      BY <3>2, <3>4, PutFacts DEF OwnFaults
    <3> QED BY <3>3, <3>4
  <2> QED BY <2>3, <2>4
<1> QED BY <1>1, <1>2

LEMMA OwnFaultsNext ==
  ASSUME LrgMayDie => MakeRm = TRUE, Typed, OwnFaults, [Next]_vars PROVE OwnFaults'
<1>1. CASE PatchFault0 \/ PatchFault1
  <2>1. PICK name \in {"fault0.blif", "fault1.blif"} : PatchFault(name)
    BY <1>1 DEF PatchFault0, PatchFault1
  <2>2. pc \in {"patch0", "patch1"} /\ pc' \in {"patch1", "fix"} /\ run' = run /\ lrg' = "running"
    BY <1>1 DEF PatchFault0, PatchFault1, Typed, Control, MainPCs
  <2>3. \A b \in FaultBlifs :
          b \in DOMAIN disk' =>
            Here(b[2]) \in disk'[b] /\ FixLog \in DOMAIN disk' /\ FixRel \in DOMAIN disk'
    BY <2>1, <2>2, PatchOwnFaults
  <2> QED BY <2>2, <2>3 DEF OwnFaults, Here
<1>2. CASE RemoveBeyond
  <2>1. \A b \in FaultBlifs : b \notin DOMAIN disk'
    BY <1>2, Names DEF RemoveBeyond, WithoutBeyond, Plain
  <2> QED BY <1>2, <2>1 DEF RemoveBeyond, OwnFaults
<1>3. CASE NextRun
  <2>1. \A b \in FaultBlifs : b \notin DOMAIN disk'
    <3>1. CASE MakeRm = TRUE
      BY <1>3, <3>1, Names DEF NextRun, WithoutBeyond, Plain
    <3>2. CASE ~ LrgMayDie
      BY <1>3, <3>2 DEF NextRun, OwnFaults, Typed, Control, WithoutBeyond
    <3> QED BY <3>1, <3>2
  <2> QED BY <1>3, <2>1 DEF NextRun, OwnFaults
<1>4. CASE UNCHANGED vars
  BY <1>4 DEF vars, OwnFaults, Here
<1>5. CASE Next /\ ~ PatchFault0 /\ ~ PatchFault1 /\ ~ RemoveBeyond /\ ~ NextRun
  <2>1. \A b \in FaultBlifs : Kept(disk, disk', b)
    BY <1>5, KeptNext, Names DEF Plain
  <2>2. \A b \in FaultBlifs : /\ b \in DOMAIN disk' <=> b \in DOMAIN disk
                              /\ b \in DOMAIN disk => disk'[b] = disk[b]
    BY <2>1 DEF Kept
  <2>3. CASE StartLrg \/ WriteBlifHeader \/ BuildConstant \/ CheckConstOutput \/ BuildTable
    BY <2>2, <2>3 DEF StartLrg, WriteBlifHeader, BuildConstant, CheckConstOutput,
       BuildTable, ExitOr, OwnFaults
  <2>4. CASE FinishBuild
    BY <2>2, <2>4 DEF FinishBuild, OwnFaults, Typed, Control, MainPCs
  <2>5. CASE SkipFix
    BY <2>5 DEF SkipFix, OwnFaults, Here
  <2>6. CASE Simulate
    <3>1. FixLog \in DOMAIN disk => FixLog \in DOMAIN disk'
      BY <2>6, PutIfCases, PutFacts DEF Simulate
    <3>2. FixRel \in DOMAIN disk => FixRel \in DOMAIN disk'
      BY <2>6, PutIfCases, PutFacts DEF Simulate
    <3>3. CASE FixLog \in DOMAIN disk' /\ FixRel \in DOMAIN disk'
      <4>1. pc' = "patch0" /\ lrg' = "running" /\ run' = run
        BY <2>6, <3>3 DEF Simulate, ExitOr, Typed, Control, MainPCs
      <4> QED BY <2>2, <2>6, <3>3, <4>1 DEF Simulate, OwnFaults, Here
    <3>4. CASE ~ (FixLog \in DOMAIN disk' /\ FixRel \in DOMAIN disk')
      <4>1. pc' = "verify" /\ lrg' = "exited"
        BY <2>6, <3>4 DEF Simulate, ExitOr
      <4>2. \A b \in FaultBlifs : b \notin DOMAIN disk
        BY <2>6, <3>1, <3>2, <3>4 DEF Simulate, OwnFaults
      <4> QED BY <2>2, <4>1, <4>2 DEF OwnFaults
    <3> QED BY <3>3, <3>4
  <2>7. CASE MixVerilog \/ WriteResult
    BY <2>7 DEF MixVerilog, WriteResult, OwnFaults, Typed, Control, MainPCs
  <2>8. CASE Die
    BY <2>8 DEF Die, OwnFaults
  <2>9. CASE Verify
    BY <2>2, <2>9 DEF Verify, OwnFaults
  <2> QED
    BY <1>5, <2>3, <2>4, <2>5, <2>6, <2>7, <2>8, <2>9 DEF Next, MainStep
<1> QED BY <1>1, <1>2, <1>3, <1>4, <1>5

LEMMA OwnFaultsAlways == ASSUME LrgMayDie => MakeRm = TRUE PROVE Spec => []OwnFaults
<1>1. Init => OwnFaults
  BY DEF Init, OwnFaults
<1>2. Typed /\ OwnFaults /\ [Next]_vars => OwnFaults'
  BY OwnFaultsNext
<1> QED BY <1>1, <1>2, TypedInit, TypedNext, PTL DEF Spec

(* Provided lrg is not killed, or its files are removed after every run,   *)
(* each patch MixVerilog joins was written by FixNetwork in this run for   *)
(* the output its name says, for any number of outputs and runs.           *)
THEOREM MixesOwnFaults == ASSUME LrgMayDie => MakeRm = TRUE PROVE Spec => []MixOwnFaults
<1>1. OwnFaults => MixOwnFaults
  BY DEF OwnFaults, MixOwnFaults, FaultsPresent
<1> QED BY <1>1, OwnFaultsAlways, PTL

(* With the same proviso, a run that gives up leaves no patch.             *)
THEOREM ExitsClean == ASSUME LrgMayDie => MakeRm = TRUE PROVE Spec => []ExitLeavesNoFaults
<1>1. OwnFaults => ExitLeavesNoFaults
  BY DEF OwnFaults, ExitLeavesNoFaults, FaultsPresent
<1> QED BY <1>1, OwnFaultsAlways, PTL

-----------------------------------------------------------------------------
(* Answers about the right output, as long as no tool fails.               *)

(* What the shared files hold while main runs: the answers just read are   *)
(* those just asked for, and the circuit to be simulated is there.         *)
FreshFiles ==
  /\ pc \in {"header", "build"} => disk[ConstRel] \subseteq {Here(0)}
  /\ pc = "build" => Here(0) \in blif[1].from
  /\ pc \in {"build", "fix", "patch0", "patch1"} =>
       \A k \in 1 .. Len(blif) : blif[k].from \subseteq {Here(0), Here(k - 1)}
  /\ pc \in {"fix", "patch0", "patch1"} => disk[BeforeFix] # {}
  /\ pc \in {"patch0", "patch1"} =>
       disk[FixLog] \subseteq {Here(po)} /\ disk[FixRel] \subseteq {Here(po)}
  /\ pc \in {"fix", "patch0", "patch1"} =>
       \A b \in FaultBlifs : b \in DOMAIN disk => disk[b] \subseteq {Here(b[2])}

Fresh == lrg = "running" /\ ~ failed => FreshFiles

LEMMA PatchFresh ==
  ASSUME Typed, FreshFiles, pc \in {"patch0", "patch1"},
         NEW name \in {"fault0.blif", "fault1.blif"}, PatchFault(name)
  PROVE  /\ Kept(disk, disk', BeforeFix) /\ Kept(disk, disk', FixLog)
         /\ Kept(disk, disk', FixRel)
         /\ \A b \in FaultBlifs : b \in DOMAIN disk' => disk'[b] \subseteq {Here(b[2])}
<1> DEFINE from == disk[FixLog] \union disk[FixRel] \union {Here(po)}
<1>0. po \in POs /\ FixLog \in DOMAIN disk /\ FixRel \in DOMAIN disk
  BY DEF Typed, Control, Present
<1>1. CASE UNCHANGED disk
  BY <1>1 DEF FreshFiles, Kept
<1>2. CASE ~ UNCHANGED disk
  <2>1. PICK ok \in Outcomes :
          disk' = PutIf(ok, Put(disk, <<name, po>>, from), VFile(<<name, po>>), from)
    BY <1>2 DEF PatchFault
  <2>2. from \subseteq {Here(po)}
    BY DEF FreshFiles
  <2> HIDE DEF from
  <2>3. ASSUME NEW f \in {BeforeFix, FixLog, FixRel} PROVE Kept(disk, disk', f)
    <3>1. f # <<name, po>> /\ f # VFile(<<name, po>>)
      BY <1>0, Names DEF Plain
    <3>2. Kept(disk, Put(disk, <<name, po>>, from), f)
      <4>1. Kept(disk, disk, f)
        BY DEF Kept
      <4> QED BY <3>1, <4>1, PutKeeps
    <3> QED BY <2>1, <3>1, <3>2, PutKeeps
  <2>4. ASSUME NEW b \in FaultBlifs, b \in DOMAIN disk' PROVE disk'[b] \subseteq {Here(b[2])}
    <3>1. b # VFile(<<name, po>>) /\ <<name, po>>[2] = po
      BY <1>0, Names
    <3>2. b \in DOMAIN Put(disk, <<name, po>>, from)
            /\ disk'[b] = Put(disk, <<name, po>>, from)[b]
      BY <2>1, <2>4, <3>1, PutIfCases, PutFacts
    <3>3. CASE b = <<name, po>>
      BY <2>2, <3>1, <3>2, <3>3, PutFacts
    <3>4. CASE b # <<name, po>>
      BY <3>2, <3>4, PutFacts DEF FreshFiles
    <3> QED BY <3>3, <3>4
  <2> QED BY <2>3, <2>4
<1> QED BY <1>1, <1>2

LEMMA FreshNext ==
  ASSUME LrgMayDie => MakeRm = TRUE, Typed, Blocks, OwnFaults, Fresh, [Next]_vars,
         lrg' = "running", ~ failed'
  PROVE  FreshFiles'
<1>0. pc' \in MainPCs
  BY ControlNext DEF Control
<1>r. CASE pc \notin MainPCs \/ UNCHANGED vars
  <2>1. CASE UNCHANGED vars
    BY <2>1 DEF vars, Fresh, FreshFiles, Here
  <2>2. CASE StartLrg
    BY <2>2 DEF StartLrg, FreshFiles
  <2> QED
    BY <1>0, <1>r, <2>1, <2>2 DEF Next, MainStep, MainPCs, CheckConstOutput, WriteBlifHeader,
       BuildConstant, BuildTable, FinishBuild, SkipFix, Simulate, PatchFault0, PatchFault1,
       MixVerilog, WriteResult, RemoveBeyond, Die, Verify, NextRun, Typed, Control
<1>1. CASE CheckConstOutput
  <2>1. PICK ok \in Outcomes : disk' = PutIf(ok, disk, ConstRel, {Here(0)})
                              /\ failed' = (failed \/ ~ ok)
    BY <1>1, Zenon DEF CheckConstOutput
  <2>2. ok
    BY <2>1, Zenon
  <2>3. disk' = Put(disk, ConstRel, {Here(0)})
    BY <2>1, <2>2, Zenon DEF PutIf
  <2>4. disk'[ConstRel] = {Here(0)}
    BY <2>3, PutFacts
  <2>5. pc' \in {"header", "verify"} /\ run' = run
    BY <1>1 DEF CheckConstOutput, ExitOr
  <2> QED BY <2>4, <2>5 DEF FreshFiles, Here
<1>2. CASE WriteBlifHeader
  <2>1. FreshFiles /\ disk' = disk /\ run' = run /\ pc = "header" /\ pc' = "build"
    BY <1>2 DEF WriteBlifHeader, Fresh, Typed, Control, MainPCs
  <2>2. blif' = <<Entry(0, {Here(0)})>>
    BY <1>2 DEF WriteBlifHeader
  <2>3. Len(blif') = 1 /\ blif'[1].from = {Here(0)}
    BY <2>2 DEF Entry
  <2> QED BY <2>1, <2>3 DEF FreshFiles, Here
<1> DEFINE Own(s) == \A k \in 1 .. Len(s) : s[k].from \subseteq {Here(0), Here(k - 1)}
<1>3. ASSUME pc = "build", lrg = "running", ~ failed, po \in 1 .. NumPO + 1,
             NEW from \in SUBSET Stamp, from \subseteq {Here(0), Here(po)},
             blif' = Append(blif, Entry(po, from))
      PROVE  Own(blif') /\ Here(0) \in blif'[1].from /\ Len(blif') = Len(blif) + 1
  <2>1. FreshFiles /\ Len(blif) = po /\ blif \in Seq(Entries)
    BY <1>3 DEF Fresh, Blocks, Typed
  <2>2. Entry(po, from) \in Entries
    BY <1>3, EntryType DEF Typed, Control
  <2>3. Entry(po, from).from = from
    BY DEF Entry
  <2>4. /\ Len(blif') = Len(blif) + 1
        /\ \A k \in 1 .. Len(blif) : blif'[k] = blif[k]
        /\ blif'[Len(blif) + 1] = Entry(po, from)
    BY <1>3, <2>1, <2>2, AppendProperties
  <2>5. ASSUME NEW k \in 1 .. Len(blif') PROVE blif'[k].from \subseteq {Here(0), Here(k - 1)}
    <3>1. CASE k \in 1 .. Len(blif)
      BY <1>3, <2>1, <2>4, <3>1 DEF FreshFiles
    <3>2. CASE k = Len(blif) + 1
      <4>1. k - 1 = po
        BY <1>3, <2>1, <3>2, NumPOAssumption
      <4> QED BY <1>3, <2>3, <2>4, <3>2, <4>1
    <3> QED BY <1>3, <2>1, <2>4, <3>1, <3>2, NumPOAssumption
  <2>6. Here(0) \in blif'[1].from
    BY <1>3, <2>1, <2>4, NumPOAssumption DEF FreshFiles
  <2> QED BY <2>4, <2>5, <2>6
<1>4. CASE BuildConstant
  <2>1. FreshFiles /\ disk' = disk /\ run' = run /\ pc = "build" /\ pc' = "build"
          /\ ~ failed /\ lrg = "running" /\ po \in 1 .. NumPO + 1
    BY <1>4 DEF BuildConstant, Fresh, Typed, Control, MainPCs
  <2>2. disk[ConstRel] \in SUBSET Stamp /\ disk[ConstRel] \subseteq {Here(0), Here(po)}
    BY <2>1 DEF FreshFiles, Typed, Present, DiskTyped, Stamped
  <2>3. Own(blif') /\ Here(0) \in blif'[1].from
    BY <1>3, <1>4, <2>1, <2>2 DEF BuildConstant
  <2> QED BY <2>1, <2>3 DEF FreshFiles, Here
<1>5. CASE BuildTable
  <2>1. PICK ok \in Outcomes : disk' = PutIf(ok, disk, ToSatOpt, {Here(po)})
                              /\ failed' = (failed \/ ~ ok)
    BY <1>5, Zenon DEF BuildTable
  <2>2. ok /\ ~ failed
    BY <2>1, Zenon
  <2>3. disk' = Put(disk, ToSatOpt, {Here(po)})
    BY <2>1, <2>2, Zenon DEF PutIf
  <2>4. disk'[ToSatOpt] = {Here(po)} /\ ToSatOpt \in DOMAIN disk'
    BY <2>3, PutFacts
  <2>5. pc = "build" /\ pc' = "build" /\ lrg = "running" /\ po \in POs /\ run' = run
          /\ blif' = Append(blif, Entry(po, disk'[ToSatOpt]))
    BY <1>5, <2>4 DEF BuildTable, ExitOr
  <2>6. disk'[ToSatOpt] \in SUBSET Stamp /\ po \in 1 .. NumPO + 1
    <3>1. Here(po) \in Stamp /\ po \in 1 .. NumPO + 1
      BY <2>5, HereType DEF POs, Typed, Control
    <3> QED BY <2>4, <3>1
  <2>7. Own(blif') /\ Here(0) \in blif'[1].from
    BY <1>3, <2>2, <2>4, <2>5, <2>6
  <2>8. disk'[ConstRel] \subseteq {Here(0)}
    BY <2>2, <2>3, <2>5, PutFacts, PlainNames DEF Fresh, FreshFiles, Typed, Present
  <2> QED BY <2>5, <2>7, <2>8 DEF FreshFiles, Here
<1>6. CASE FinishBuild
  <2>1. PICK ok \in Outcomes :
          /\ disk' = Put(PutIf(ok, disk, Original, BlifSources), BeforeFix,
                         Content(PutIf(ok, disk, Original, BlifSources), Original))
          /\ failed' = (failed \/ ~ ok)
    BY <1>6, Zenon DEF FinishBuild
  <2>2. ok /\ ~ failed
    BY <2>1, Zenon
  <2>3. pc = "build" /\ pc' = "fix" /\ lrg = "running" /\ run' = run
          /\ po = NumPO + 1 /\ blif' = Append(blif, Entry(po, {}))
    BY <1>6 DEF FinishBuild, Typed, Control, MainPCs
  <2>4. Own(blif')
    BY <1>3, <2>2, <2>3 DEF Typed, Control
  <2>5. disk'[BeforeFix] # {}
    <3>1. Here(0) \in BlifSources
      BY <2>2, <2>3, NumPOAssumption DEF BlifSources, Fresh, FreshFiles, Blocks, Typed
    <3>2. PutIf(ok, disk, Original, BlifSources) = Put(disk, Original, BlifSources)
      BY <2>2, Zenon DEF PutIf
    <3>3. Content(Put(disk, Original, BlifSources), Original) = BlifSources
      BY PutFacts DEF Content
    <3> QED BY <2>1, <3>1, <3>2, <3>3, PutFacts
  <2>6. \A b \in FaultBlifs : b \notin DOMAIN disk'
    <3>1. \A b \in FaultBlifs : Kept(disk, disk', b)
      BY <1>6, KeptNext, Names DEF Plain, FinishBuild, PatchFault0, PatchFault1,
         RemoveBeyond, NextRun
    <3> QED BY <2>3, <3>1 DEF Kept, OwnFaults
  <2> QED BY <2>3, <2>4, <2>5, <2>6 DEF FreshFiles, Here
<1>7. CASE SkipFix
  BY <1>7 DEF SkipFix, Fresh, FreshFiles, Here
<1>8. CASE Simulate
  <2>1. PICK sim \in Outcomes, gen \in Outcomes :
          /\ disk' = PutIf(gen, PutIf(sim /\ Simulates(BeforeFix), disk,
                           FixLog, {Here(po)}), FixRel, {Here(po)})
          /\ failed' = (failed \/ ~ sim \/ ~ gen)
    BY <1>8, Zenon DEF Simulate
  <2>2. sim /\ gen /\ ~ failed
    BY <2>1, Zenon
  <2>3. pc = "fix" /\ pc' \in {"patch0", "verify"} /\ lrg = "running"
          /\ UNCHANGED <<run, po, blif>>
    BY <1>8 DEF Simulate, ExitOr, Typed, Control, MainPCs
  <2>4. FreshFiles
    BY <2>2, <2>3 DEF Fresh
  <2>5. Simulates(BeforeFix)
    BY <2>3, <2>4 DEF Simulates, Content, FreshFiles, Typed, Present
  <2>6. PutIf(sim /\ Simulates(BeforeFix), disk, FixLog, {Here(po)})
          = Put(disk, FixLog, {Here(po)})
    BY <2>2, <2>5, Zenon DEF PutIf
  <2>7. disk' = Put(Put(disk, FixLog, {Here(po)}), FixRel, {Here(po)})
    BY <2>1, <2>2, <2>6, Zenon DEF PutIf
  <2>8. /\ disk'[FixLog] = {Here(po)} /\ disk'[FixRel] = {Here(po)}
        /\ disk'[BeforeFix] = disk[BeforeFix]
    BY <2>3, <2>7, PutFacts, PlainNames DEF Typed, Present
  <2>9. \A b \in FaultBlifs : Kept(disk, disk', b)
    BY <1>8, <2>3, KeptNext, Names DEF Plain, Simulate, PatchFault0, PatchFault1,
       RemoveBeyond, NextRun
  <2> QED BY <2>3, <2>4, <2>8, <2>9 DEF FreshFiles, Here, Kept
<1>9. CASE PatchFault0 \/ PatchFault1
  <2>1. ~ failed
    BY <1>9, Zenon DEF PatchFault0, PatchFault1, PatchFault
  <2>2. PICK name \in {"fault0.blif", "fault1.blif"} : PatchFault(name)
    BY <1>9 DEF PatchFault0, PatchFault1
  <2>3. pc \in {"patch0", "patch1"} /\ lrg = "running" /\ UNCHANGED <<run, blif>>
          /\ pc' \in {"patch1", "fix"} /\ (pc' = "patch1" => po' = po)
    BY <1>9 DEF PatchFault0, PatchFault1, Typed, Control, MainPCs
  <2>4. FreshFiles
    BY <2>1, <2>3 DEF Fresh
  <2>5. /\ Kept(disk, disk', BeforeFix) /\ Kept(disk, disk', FixLog)
        /\ Kept(disk, disk', FixRel)
        /\ \A b \in FaultBlifs : b \in DOMAIN disk' => disk'[b] \subseteq {Here(b[2])}
    BY <2>2, <2>3, <2>4, PatchFresh
  <2> QED BY <2>3, <2>4, <2>5 DEF FreshFiles, Here, Kept, Typed, Present
<1>10. CASE MixVerilog \/ WriteResult \/ RemoveBeyond \/ Die
  BY <1>10 DEF MixVerilog, WriteResult, RemoveBeyond, Die, FreshFiles
<1> QED
  BY <1>0, <1>r, <1>1, <1>2, <1>4, <1>5, <1>6, <1>7, <1>8, <1>9, <1>10 DEF Next, MainStep,
     StartLrg, Verify, NextRun, MainPCs

(* As long as no tool has failed in a run, every table and every patch is  *)
(* made from answers about its own output.                                 *)
THEOREM AnswersFresh == ASSUME LrgMayDie => MakeRm = TRUE PROVE Spec => []FreshUnlessFailed
<1>1. Init => Blocks /\ Fresh
  BY DEF Init, Blocks, Fresh
<1>2. Typed /\ Blocks /\ OwnFaults /\ Fresh /\ [Next]_vars => Fresh'
  BY FreshNext DEF Fresh
<1>3. Typed /\ Fresh => FreshUnlessFailed
  BY DEF Typed, Fresh, FreshFiles, FreshUnlessFailed, FaultsPresent
<1> QED
  BY <1>1, <1>2, <1>3, BlocksNext, OwnFaultsAlways, TypedInit, TypedNext, PTL DEF Spec

-----------------------------------------------------------------------------
(* What a run that ends delivers.                                          *)

(* The result is written from a netlist that make rm would have removed,   *)
(* had it been another run's.                                              *)
OwnResult == pc = "rm" \/ lrg = "ended" => Content(disk, Result) \subseteq Mine(run)

LEMMA ContentKept ==
  ASSUME NEW d, NEW e, NEW g, Kept(d, e, g) PROVE Content(e, g) = Content(d, g)
BY DEF Kept, Content

LEMMA ResultSpared ==
  ASSUME RemoveBeyond \/ NextRun PROVE Content(disk', Result) = Content(disk, Result)
BY DEF RemoveBeyond, NextRun, WithoutBeyond, Content

LEMMA ResultOfVerified ==
  ASSUME Typed, Verify PROVE Content(disk', Result) = Content(disk, Result)
<1>1. pc = "verify" /\ [Next]_vars
  BY DEF Verify, Next
<1>2. ~ RemoveBeyond /\ ~ NextRun /\ ~ WriteResult
  BY <1>1 DEF RemoveBeyond, NextRun, WriteResult
<1>3. Result \notin FaultBlifs
  BY Names DEF Plain
<1> QED BY <1>1, <1>2, <1>3, KeptNext, ContentKept

LEMMA OwnResultNext ==
  ASSUME Typed, OneRun, OwnResult, [Next]_vars PROVE OwnResult'
<1>1. CASE WriteResult
  <2>1. Content(disk, AfterFlatten) \subseteq Mine(run)
    BY PlainNames, ContentStamped DEF OneRun
  <2>2. Content(disk', Result) = Content(disk, AfterFlatten) /\ run' = run
    BY <1>1, PutFacts DEF WriteResult, Content
  <2> QED BY <2>1, <2>2 DEF OwnResult
<1>2. CASE RemoveBeyond
  <2>1. pc = "rm" /\ run' = run
    BY <1>2 DEF RemoveBeyond
  <2> QED BY <1>2, <2>1, ResultSpared DEF OwnResult
<1>3. CASE NextRun
  <2>1. lrg' = lrg /\ run' = run /\ pc' = "shell"
    BY <1>3 DEF NextRun
  <2> QED BY <1>3, <2>1, ResultSpared DEF OwnResult
<1>4. CASE Verify
  <2>1. lrg' = lrg /\ run' = run /\ pc' = "next"
    BY <1>4 DEF Verify
  <2> QED BY <1>4, <2>1, ResultOfVerified DEF OwnResult
<1>5. CASE StartLrg \/ Die
  BY <1>5 DEF StartLrg, Die, OwnResult
<1>6. ASSUME MainStep, ~ WriteResult, ~ RemoveBeyond PROVE OwnResult'
  <2>1. pc \in MainPCs /\ pc' # "rm" /\ lrg' \in {lrg, "exited"}
    BY <1>6 DEF MainStep, MainPCs, CheckConstOutput, WriteBlifHeader, BuildConstant,
       BuildTable, FinishBuild, SkipFix, Simulate, PatchFault0, PatchFault1, MixVerilog, ExitOr
  <2> QED BY <2>1 DEF OwnResult, Typed, Control
<1>7. CASE UNCHANGED vars
  BY <1>7 DEF vars, OwnResult
<1> QED BY <1>1, <1>2, <1>3, <1>4, <1>5, <1>6, <1>7 DEF Next

(* The answers every circuit of this run is made from, if all tools work:  *)
(* those of the classification and those of each learnt output.            *)
Asked == {0} \union (POs \ constPO)

Holds(d, f) == \A p \in Asked : Here(p) \in Content(d, f)

(* They are handed on from block to blif, and from netlist to netlist.     *)
HandedOn ==
  /\ pc = "build" => \A p \in Asked : p < po => Here(p) \in blif[p + 1].from
  /\ pc \in {"fix", "patch0", "patch1"} => Holds(disk, Original) /\ Holds(disk, BeforeFix)
  /\ pc = "final" => Holds(disk, AfterFlatten)
  /\ pc = "rm" \/ lrg = "ended" => Holds(disk, Result)

Whole == ~ failed => HandedOn

LEMMA HoldsOn ==
  ASSUME NEW f, NEW g, UNCHANGED <<run, constPO>>,
         Content(disk, g) \subseteq Content(disk', f), Holds(disk, g)
  PROVE  Holds(disk, f)'
BY DEF Holds, Asked, Here

(* Appending the block of output po, with its answer if it is learnt.      *)
LEMMA AppendHandsOn ==
  ASSUME Typed, Blocks, HandedOn, pc = "build", po \in POs,
         UNCHANGED <<run, constPO>>, po' = po + 1, pc' = "build", lrg' = "running",
         NEW from \in SUBSET Stamp, blif' = Append(blif, Entry(po, from)),
         po \in constPO \/ Here(po) \in from
  PROVE  HandedOn'
<1>1. /\ po \in Nat /\ Len(blif) = po /\ blif \in Seq(Entries) /\ Entry(po, from) \in Entries
      /\ NumPO \in Nat
  BY EntryType, NumPOAssumption DEF Typed, Control, Blocks, POs
<1>2. /\ \A k \in 1 .. Len(blif) : blif'[k] = blif[k]
      /\ blif'[Len(blif) + 1] = Entry(po, from)
  BY <1>1, AppendProperties
<1>3. ASSUME NEW p \in Asked, p < po + 1 PROVE Here(p) \in blif'[p + 1].from
  <2>1. p \in Nat
    BY <1>1, <1>3 DEF Asked, POs
  <2>2. CASE p < po
    <3>1. p + 1 \in 1 .. Len(blif)
      BY <1>1, <2>1, <2>2
    <3> QED BY <1>2, <1>3, <2>2, <3>1 DEF HandedOn
  <2>3. CASE p = po
    <3>1. po \in POs \ constPO
      BY <1>3, <2>3 DEF Asked, POs
    <3>2. blif'[p + 1] = Entry(po, from)
      BY <1>1, <1>2, <2>3
    <3>3. Entry(po, from).from = from
      BY DEF Entry
    <3>4. Here(p) = Here(po) /\ Here(po) \in from
      BY <2>3, <3>1
    <3> QED BY <3>2, <3>3, <3>4
  <2> QED BY <1>1, <1>3, <2>1, <2>2, <2>3
<1> QED BY <1>3 DEF HandedOn, Asked, Here

LEMMA HandedOnNext ==
  ASSUME Typed, Blocks, Whole, [Next]_vars, ~ failed' PROVE HandedOn'
<1>s. CASE StartLrg
  BY <1>s DEF StartLrg, HandedOn
<1>0. ASSUME ~ StartLrg PROVE ~ failed
  <2>1. CASE MainStep
    BY <2>1, Zenon DEF MainStep, CheckConstOutput, WriteBlifHeader, BuildConstant,
       BuildTable, FinishBuild, SkipFix, Simulate, PatchFault0, PatchFault1, PatchFault,
       MixVerilog, WriteResult, RemoveBeyond
  <2>2. CASE Die \/ Verify \/ NextRun \/ UNCHANGED vars
    BY <2>2, Zenon DEF Die, Verify, NextRun, vars
  <2> QED BY <1>0, <2>1, <2>2 DEF Next
<1> SUFFICES ASSUME ~ StartLrg, HandedOn PROVE HandedOn'
  BY <1>s, <1>0 DEF Whole
<1>c. lrg = "running" <=> pc \in MainPCs
  BY DEF Typed, Control
<1>1. CASE CheckConstOutput
  BY <1>1, <1>c DEF CheckConstOutput, ExitOr, HandedOn, MainPCs
<1>2. CASE WriteBlifHeader
  <2>1. /\ blif' = <<Entry(0, {Here(0)})>> /\ po' = 1 /\ pc' = "build" /\ lrg' = "running"
        /\ UNCHANGED <<run, constPO>>
    BY <1>2, <1>c DEF WriteBlifHeader, MainPCs
  <2>2. blif'[1].from = {Here(0)}
    BY <2>1 DEF Entry
  <2>3. ASSUME NEW p \in Asked, p < 1 PROVE Here(p) \in blif'[p + 1].from
    <3>1. p = 0 /\ p + 1 = 1
      BY <2>3, NumPOAssumption DEF Asked, POs
    <3> QED BY <2>2, <3>1
  <2> QED BY <2>1, <2>3 DEF HandedOn, Asked, Here
<1>3. CASE BuildConstant
  <2>1. /\ po \in POs /\ po \in constPO /\ pc = "build" /\ pc' = "build" /\ po' = po + 1
        /\ blif' = Append(blif, Entry(po, disk[ConstRel])) /\ UNCHANGED <<run, constPO>>
        /\ lrg' = "running"
    BY <1>3, <1>c DEF BuildConstant, MainPCs, Typed, Control
  <2>2. disk[ConstRel] \in SUBSET Stamp
    BY <2>1 DEF Typed, Present, DiskTyped, Stamped
  <2> QED BY <2>1, <2>2, AppendHandsOn
<1>4. CASE BuildTable
  <2>1. PICK ok \in Outcomes : /\ disk' = PutIf(ok, disk, ToSatOpt, {Here(po)})
                              /\ failed' = (failed \/ ~ ok)
    BY <1>4, Zenon DEF BuildTable
  <2>2. ok
    BY <2>1, Zenon
  <2>3. disk' = Put(disk, ToSatOpt, {Here(po)})
    BY <2>1, <2>2, Zenon DEF PutIf
  <2>4. disk'[ToSatOpt] = {Here(po)} /\ ToSatOpt \in DOMAIN disk'
    BY <2>3, PutFacts
  <2>5. /\ po \in POs /\ pc = "build" /\ pc' = "build" /\ po' = po + 1
        /\ blif' = Append(blif, Entry(po, {Here(po)})) /\ UNCHANGED <<run, constPO>>
        /\ lrg' = "running"
    BY <1>4, <1>c, <2>4 DEF BuildTable, ExitOr, MainPCs
  <2>6. {Here(po)} \in SUBSET Stamp
    BY <2>5, HereType DEF Typed, Control, POs
  <2> QED BY <2>5, <2>6, AppendHandsOn
<1>5. CASE FinishBuild
  <2>1. PICK ok \in Outcomes :
          /\ disk' = Put(PutIf(ok, disk, Original, BlifSources), BeforeFix,
                         Content(PutIf(ok, disk, Original, BlifSources), Original))
          /\ failed' = (failed \/ ~ ok)
    BY <1>5, Zenon DEF FinishBuild
  <2>2. ok
    BY <2>1, Zenon
  <2>3. PutIf(ok, disk, Original, BlifSources) = Put(disk, Original, BlifSources)
    BY <2>2, Zenon DEF PutIf
  <2>4. Content(Put(disk, Original, BlifSources), Original) = BlifSources
    BY PutFacts DEF Content
  <2>5. disk' = Put(Put(disk, Original, BlifSources), BeforeFix, BlifSources)
    BY <2>1, <2>3, <2>4
  <2>6. Content(disk', Original) = BlifSources /\ Content(disk', BeforeFix) = BlifSources
    BY <2>5, PutFacts, PlainNames DEF Content
  <2>7. /\ pc = "build" /\ po = NumPO + 1 /\ pc' = "fix" /\ lrg' = "running"
        /\ UNCHANGED <<run, constPO>> /\ Len(blif) = NumPO + 1 /\ blif \in Seq(Entries)
    BY <1>5, <1>c DEF FinishBuild, MainPCs, Blocks, Typed
  <2>8. ASSUME NEW p \in Asked PROVE Here(p) \in BlifSources
    <3>1. p \in 0 .. NumPO
      BY NumPOAssumption DEF Asked, POs
    <3>2. p < po /\ p + 1 \in DOMAIN blif
      BY <2>7, <3>1, NumPOAssumption
    <3> QED BY <2>7, <3>2 DEF HandedOn, BlifSources
  <2> QED BY <2>6, <2>7, <2>8 DEF HandedOn, Holds, Asked, Here
<1>6. CASE SkipFix
  BY <1>6, <1>c DEF SkipFix, HandedOn, Holds, Asked, Here, MainPCs
<1>7. CASE Simulate
  <2>1. PICK sim \in Outcomes, gen \in Outcomes :
          disk' = PutIf(gen, PutIf(sim /\ Simulates(BeforeFix), disk,
                           FixLog, {Here(po)}), FixRel, {Here(po)})
    BY <1>7 DEF Simulate
  <2>2. ASSUME NEW f \in {Original, BeforeFix} PROVE Kept(disk, disk', f)
    <3>1. f # FixLog /\ f # FixRel
      BY PlainNames DEF Original, FixLog, FixRel
    <3>2. Kept(disk, PutIf(sim /\ Simulates(BeforeFix), disk, FixLog, {Here(po)}), f)
      <4>1. Kept(disk, disk, f)
        BY DEF Kept
      <4> QED BY <3>1, <4>1, PutKeeps
    <3> QED BY <2>1, <3>1, <3>2, PutKeeps
  <2>3. /\ pc = "fix" /\ pc' \in {"patch0", "verify"} /\ lrg' \in {"running", "exited"}
        /\ UNCHANGED <<run, constPO>>
    BY <1>7, <1>c DEF Simulate, ExitOr, MainPCs
  <2>4. Holds(disk, Original)' /\ Holds(disk, BeforeFix)'
    BY <2>2, <2>3, ContentKept, HoldsOn DEF HandedOn
  <2> QED BY <2>3, <2>4 DEF HandedOn
<1>8. CASE PatchFault0 \/ PatchFault1
  <2>1. /\ pc \in {"patch0", "patch1"} /\ pc' \in {"patch1", "fix"} /\ lrg' = "running"
        /\ UNCHANGED <<run, constPO>> /\ po \in POs
    BY <1>8, <1>c DEF PatchFault0, PatchFault1, MainPCs, Typed, Control
  <2>2. PICK name \in {"fault0.blif", "fault1.blif"} : PatchFault(name)
    BY <1>8 DEF PatchFault0, PatchFault1
  <2>3. ASSUME NEW f \in {Original, BeforeFix} PROVE Kept(disk, disk', f)
    <3>0. Kept(disk, disk, f)
      BY DEF Kept
    <3>1. f # <<name, po>> /\ f # VFile(<<name, po>>)
      BY <2>1, Names DEF Plain
    <3>2. \A c : Kept(disk, Put(disk, <<name, po>>, c), f)
      BY <3>0, <3>1, PutKeeps
    <3> QED BY <2>2, <3>0, <3>1, <3>2, PutKeeps DEF PatchFault
  <2>4. Holds(disk, Original)' /\ Holds(disk, BeforeFix)'
    BY <2>1, <2>3, ContentKept, HoldsOn DEF HandedOn
  <2> QED BY <2>1, <2>4 DEF HandedOn
<1>9. CASE MixVerilog
  <2> DEFINE mixed == IF FaultsPresent = {}
                      THEN Content(disk, Original)
                      ELSE disk[BeforeFix] \union
                             UNION {Content(disk, VFile(b)) : b \in FaultsPresent}
  <2>1. PICK ok \in Outcomes :
          /\ disk' = PutIf(ok, Put(disk, BeforeFlatten, mixed), AfterFlatten, mixed)
          /\ failed' = (failed \/ ~ ok)
    BY <1>9, Zenon DEF MixVerilog
  <2>2. ok
    BY <2>1, Zenon
  <2>3. /\ pc = "fix" /\ pc' = "final" /\ lrg' = "running" /\ UNCHANGED <<run, constPO>>
    BY <1>9, <1>c DEF MixVerilog, MainPCs
  <2>4. Content(disk, BeforeFix) = disk[BeforeFix]
    BY <2>3 DEF Typed, Present, Content
  <2>5. \A p \in Asked : Here(p) \in mixed
    BY <2>3, <2>4 DEF HandedOn, Holds
  <2> HIDE DEF mixed
  <2>6. disk' = Put(Put(disk, BeforeFlatten, mixed), AfterFlatten, mixed)
    BY <2>1, <2>2, Zenon DEF PutIf
  <2>7. Content(disk', AfterFlatten) = mixed
    BY <2>6, PutFacts DEF Content
  <2> QED BY <2>3, <2>5, <2>7 DEF HandedOn, Holds, Asked, Here
<1>10. CASE WriteResult
  <2>1. /\ pc = "final" /\ pc' = "rm" /\ lrg' = "running" /\ UNCHANGED <<run, constPO>>
    BY <1>10, <1>c DEF WriteResult, MainPCs
  <2>2. Content(disk', Result) = Content(disk, AfterFlatten)
    BY <1>10, PutFacts DEF WriteResult, Content
  <2>3. Holds(disk, Result)'
    BY <2>1, <2>2, HoldsOn DEF HandedOn
  <2> QED BY <2>1, <2>3 DEF HandedOn
<1>11. CASE RemoveBeyond \/ Verify \/ NextRun
  <2>1. Content(disk', Result) = Content(disk, Result)
    BY <1>11, ResultSpared, ResultOfVerified
  <2>2. /\ UNCHANGED <<run, constPO>> /\ pc' \in {"verify", "next", "shell"}
        /\ lrg' = lrg \/ pc = "rm"
    BY <1>11 DEF RemoveBeyond, Verify, NextRun
  <2>3. lrg' = "ended" => Holds(disk, Result)'
    BY <2>1, <2>2, HoldsOn DEF HandedOn
  <2> QED BY <2>2, <2>3 DEF HandedOn
<1>12. CASE Die
  BY <1>12 DEF Die, HandedOn
<1>13. CASE UNCHANGED vars
  BY <1>13 DEF vars, HandedOn, Holds, Asked, Here
<1> QED
  BY <1>1, <1>2, <1>3, <1>4, <1>5, <1>6, <1>7, <1>8, <1>9, <1>10, <1>11, <1>12, <1>13
     DEF Next, MainStep

(* When make rm follows every run, a run that ended has delivered its own  *)
(* answers only, for any numbers of outputs and runs, whichever tools fail *)
(* and wherever runs before it were killed, and if none of its tools       *)
(* failed, those of all its learnt outputs.                                *)
THEOREM EndsDeliver == ASSUME MakeRm = TRUE PROVE Spec => []EndedRunsDeliver
<1>1. Init => OneRun /\ OwnResult /\ Blocks /\ Whole
  BY DEF Init, OneRun, Stamped, ResultOfOneRun, OwnResult, Blocks, Whole, HandedOn
<1>2. Typed /\ OneRun /\ [Next]_vars => OneRun'
  BY OneRunNext
<1>3. Typed /\ OneRun /\ OwnResult /\ [Next]_vars => OwnResult'
  BY OwnResultNext
<1>4. Typed /\ Blocks /\ Whole /\ [Next]_vars => Whole'
  BY HandedOnNext DEF Whole
<1>5. OwnResult /\ Whole => EndedRunsDeliver
  <2> SUFFICES ASSUME OwnResult, Whole, lrg = "ended"
               PROVE  /\ Content(disk, Result) \subseteq {Here(p) : p \in 0 .. NumPO}
                      /\ ~ failed => {Here(p) : p \in {0} \union (POs \ constPO)}
                                       \subseteq Content(disk, Result)
    BY DEF EndedRunsDeliver
  <2>1. Mine(run) \subseteq {Here(p) : p \in 0 .. NumPO}
    BY DEF Mine, Here
  <2>2. ~ failed => Holds(disk, Result)
    BY DEF Whole, HandedOn
  <2> QED BY <2>1, <2>2 DEF OwnResult, Holds, Asked
<1> QED
  BY <1>1, <1>2, <1>3, <1>4, <1>5, BlocksNext, TypedInit, TypedNext, PTL DEF Spec

-----------------------------------------------------------------------------
(* What is left for verify_ncverilog.                                      *)

ComparesNothing == lrg = "ended" => verify # "compared"

(* A run that ends removes the circuit that verify_ncverilog simulates     *)
(* first, and the log of the simulation of any run before.                 *)
NothingLeft ==
  /\ lrg = "running" => verify = "none"
  /\ pc = "verify" /\ lrg = "ended" => DOMAIN disk \subseteq {Result}
  /\ ComparesNothing

LEMMA NothingLeftNext == Typed /\ NothingLeft /\ [Next]_vars => NothingLeft'
<1> SUFFICES ASSUME Typed, NothingLeft, [Next]_vars PROVE NothingLeft'
  OBVIOUS
<1>1. CASE RemoveBeyond
  <2>1. lrg = "running" /\ verify' = verify /\ pc' = "verify" /\ lrg' = "ended"
        /\ DOMAIN disk' \subseteq {Result}
    BY <1>1 DEF RemoveBeyond, WithoutBeyond, Typed, Control, MainPCs
  <2> QED BY <2>1 DEF NothingLeft, ComparesNothing
<1>2. CASE Verify
  <2>1. lrg' = lrg /\ pc' = "next" /\ lrg # "running"
    BY <1>2 DEF Verify, Typed, Control, MainPCs
  <2>2. ASSUME lrg = "ended" PROVE verify' = "exited"
    <3>1. PICK before \in Outcomes, after \in Outcomes, gen \in Outcomes :
            disk' = PutIf(gen, PutIf(after /\ Simulates(Result),
                      PutIf(before /\ Simulates(BeforeFix), disk,
                        BeforeLog, {Here(0)}), AfterLog, {Here(0)}), VerifyRel, {Here(0)})
      BY <1>2 DEF Verify
    <3> DEFINE d == PutIf(before /\ Simulates(BeforeFix), disk, BeforeLog, {Here(0)})
               e == PutIf(after /\ Simulates(Result), d, AfterLog, {Here(0)})
    <3>2. DOMAIN disk \subseteq {Result}
      BY <1>2, <2>2 DEF Verify, NothingLeft
    <3>3. BeforeLog # Result /\ BeforeLog # AfterLog /\ BeforeLog # VerifyRel
          /\ BeforeFix # Result
      BY DEF BeforeLog, AfterLog, VerifyRel, BeforeFix, Result
    <3>4. ~ Simulates(BeforeFix)
      BY <3>2, <3>3 DEF Simulates, Content
    <3>5. d = disk
      BY <3>4 DEF PutIf
    <3>6. BeforeLog \notin DOMAIN d
      BY <3>2, <3>3, <3>5
    <3> HIDE DEF d
    <3>7. BeforeLog \notin DOMAIN e
      BY <3>3, <3>6, PutIfCases, PutFacts
    <3>8. disk' = PutIf(gen, e, VerifyRel, {Here(0)})
      BY <3>1 DEF d
    <3> HIDE DEF e
    <3>9. BeforeLog \notin DOMAIN disk'
      BY <3>3, <3>7, <3>8, PutIfCases, PutFacts
    <3> QED BY <1>2, <3>9 DEF Verify
  <2> QED BY <2>1, <2>2 DEF NothingLeft, ComparesNothing
<1>3. CASE StartLrg \/ Die \/ NextRun \/ UNCHANGED vars
  BY <1>3 DEF StartLrg, Die, NextRun, vars, NothingLeft, ComparesNothing
<1>4. ASSUME MainStep, ~ RemoveBeyond PROVE NothingLeft'
  <2>1. verify' = verify /\ lrg' \in {lrg, "exited"}
    BY <1>4 DEF MainStep, CheckConstOutput, WriteBlifHeader, BuildConstant, BuildTable,
       FinishBuild, SkipFix, Simulate, PatchFault0, PatchFault1, MixVerilog, WriteResult,
       ExitOr
  <2>2. lrg = "running"
    BY <1>4 DEF MainStep, CheckConstOutput, WriteBlifHeader, BuildConstant, BuildTable,
       FinishBuild, SkipFix, Simulate, PatchFault0, PatchFault1, MixVerilog, WriteResult,
       Typed, Control, MainPCs
  <2> QED BY <2>1, <2>2 DEF NothingLeft, ComparesNothing
<1> QED BY <1>1, <1>2, <1>3, <1>4 DEF Next

(* A run of lrg that ends as it should is never verified: its last act     *)
(* removes the circuit verify_ncverilog simulates, so that no log of it    *)
(* appears.  This holds for either script, any number of outputs and runs, *)
(* whether tools fail or not: the first finding in general.                *)
THEOREM EndedRunsGoUnverified == Spec => []ComparesNothing
<1>1. Init => NothingLeft
  BY DEF Init, NothingLeft, ComparesNothing
<1>2. NothingLeft => ComparesNothing
  BY DEF NothingLeft
<1> QED BY <1>1, <1>2, NothingLeftNext, TypedInit, TypedNext, PTL DEF Spec

-----------------------------------------------------------------------------
(* The loops over outputs and runs.                                        *)

(* The steps a run makes at most: an output is a table, and a simulation   *)
(* and two patches.                                                        *)
RunLength == 9 + 4 * NumPO

(* The outputs the loop has yet to treat.                                  *)
OutputsLeft == NumPO + 1 - po

LeftOfRun ==
  CASE pc = "classify" -> 8 + 4 * NumPO
    [] pc = "header"   -> 7 + 4 * NumPO
    [] pc = "build"    -> 6 + 3 * NumPO + OutputsLeft
    [] pc = "fix"      -> 5 + 3 * OutputsLeft
    [] pc = "patch0"   -> 4 + 3 * OutputsLeft
    [] pc = "patch1"   -> 3 + 3 * OutputsLeft
    [] pc = "final"    -> 4
    [] pc = "rm"       -> 3
    [] pc = "verify"   -> 2
    [] pc = "next"     -> 1
    [] OTHER           -> 0

Left == RunLength * (MaxRuns - run) + LeftOfRun

ComesNearer == [][Left' < Left /\ Left \in Nat /\ Left' \in Nat]_vars

LEMMA LeftType == Typed => LeftOfRun \in Nat /\ Left \in Nat
<1> SUFFICES ASSUME Typed PROVE LeftOfRun \in Nat /\ Left \in Nat
  OBVIOUS
<1>1. /\ run \in 0 .. MaxRuns /\ po \in 1 .. NumPO + 1 /\ pc \in PCs
      /\ NumPO \in Nat /\ MaxRuns \in Nat
  BY NumPOAssumption, MaxRunsAssumption DEF Typed, Control
<1>2. LeftOfRun \in Nat
  BY <1>1 DEF LeftOfRun, OutputsLeft, PCs, MainPCs
<1>3. PICK r \in Nat : r = MaxRuns - run
  BY <1>1
<1>4. PICK w \in Nat : w = RunLength
  BY <1>1 DEF RunLength
<1>5. w * r \in Nat
  OBVIOUS
<1> QED BY <1>2, <1>3, <1>4, <1>5 DEF Left

(* Within a run every step leaves less of it to make.                      *)
LEMMA RunGoesOn ==
  ASSUME Typed, MainStep \/ Die \/ Verify \/ NextRun
  PROVE  run' = run /\ LeftOfRun' < LeftOfRun
<1>1. /\ po \in 1 .. NumPO + 1 /\ NumPO \in Nat /\ pc \in PCs
      /\ lrg = "running" => pc \in MainPCs
  BY NumPOAssumption DEF Typed, Control
<1> USE DEF LeftOfRun, OutputsLeft, ExitOr
<1>2. CASE CheckConstOutput
  BY <1>1, <1>2 DEF CheckConstOutput
<1>3. CASE WriteBlifHeader
  BY <1>1, <1>3 DEF WriteBlifHeader
<1>4. CASE BuildConstant
  BY <1>1, <1>4 DEF BuildConstant
<1>5. CASE BuildTable
  <2>1. /\ pc = "build" /\ po \in POs /\ run' = run
        /\ \/ pc' = "verify"
           \/ pc' = "build" /\ po' = po + 1
    BY <1>5 DEF BuildTable
  <2> QED BY <1>1, <2>1
<1>6. CASE FinishBuild
  BY <1>1, <1>6 DEF FinishBuild
<1>7. CASE SkipFix
  BY <1>1, <1>7 DEF SkipFix
<1>8. CASE Simulate
  <2>1. pc = "fix" /\ pc' \in {"verify", "patch0"} /\ po' = po /\ run' = run
    BY <1>8 DEF Simulate
  <2> QED BY <1>1, <2>1
<1>9. CASE PatchFault0
  BY <1>1, <1>9 DEF PatchFault0
<1>10. CASE PatchFault1
  BY <1>1, <1>10 DEF PatchFault1
<1>11. CASE MixVerilog
  BY <1>1, <1>11 DEF MixVerilog
<1>12. CASE WriteResult \/ RemoveBeyond
  BY <1>1, <1>12 DEF WriteResult, RemoveBeyond
<1>13. CASE Die
  <2>1. pc \in MainPCs /\ pc' = "verify" /\ run' = run
    BY <1>1, <1>13 DEF Die
  <2> QED BY <1>1, <2>1 DEF MainPCs
<1>14. CASE Verify \/ NextRun
  BY <1>1, <1>14 DEF Verify, NextRun
<1> QED
  BY <1>2, <1>3, <1>4, <1>5, <1>6, <1>7, <1>8, <1>9, <1>10, <1>11, <1>12, <1>13, <1>14
     DEF MainStep

(* Every step of the scripts, of lrg and of verify_ncverilog leaves fewer  *)
(* to make, kills and failing tools included: each loop of main treats an  *)
(* output once, and an exit goes forward to verify_ncverilog.  Nothing is  *)
(* said of the loops inside a stage, those that draw patterns above all: a *)
(* stage that does not end is a step that is not taken.                    *)
THEOREM RunsDown == Spec => ComesNearer
<1>0. Typed => LeftOfRun \in Nat /\ Left \in Nat
  BY LeftType
<1>1. ASSUME Typed, LeftOfRun \in Nat /\ Left \in Nat,
             (LeftOfRun \in Nat /\ Left \in Nat)', [Next]_vars
      PROVE  [Left' < Left /\ Left \in Nat /\ Left' \in Nat]_vars
  <2>1. /\ run \in 0 .. MaxRuns /\ NumPO \in Nat /\ MaxRuns \in Nat /\ LeftOfRun \in Nat
    BY <1>1, NumPOAssumption, MaxRunsAssumption, LeftType DEF Typed, Control
  <2>2. PICK r \in Nat : r = MaxRuns - run
    BY <2>1
  <2>3. PICK w \in Nat : w = RunLength
    BY <2>1 DEF RunLength
  <2>4. w * r \in Nat /\ w * (r - 1) = w * r - w
    OBVIOUS
  <2>5. CASE StartLrg
    <3>1. pc = "shell" /\ pc' = "classify" /\ run' = run + 1
      BY <2>5 DEF StartLrg
    <3>2. MaxRuns - run' = r - 1
      BY <2>1, <2>2, <3>1
    <3>3. LeftOfRun = 0 /\ LeftOfRun' = w - 1
      BY <2>1, <2>3, <3>1 DEF LeftOfRun, RunLength
    <3>4. Left = w * r + 0
      BY <2>2, <2>3, <3>3 DEF Left
    <3>5. Left' = w * (r - 1) + (w - 1)
      BY <2>3, <3>2, <3>3 DEF Left, RunLength
    <3> QED BY <1>1, <2>4, <3>4, <3>5
  <2>6. CASE MainStep \/ Die \/ Verify \/ NextRun
    <3>1. run' = run /\ LeftOfRun' < LeftOfRun
      BY <1>1, <2>6, RunGoesOn
    <3>2. Left = w * r + LeftOfRun /\ Left' = w * r + LeftOfRun'
      BY <2>2, <2>3, <3>1 DEF Left, RunLength
    <3>3. PICK x \in Nat : x = w * r
      BY <2>4
    <3>4. Left = x + LeftOfRun /\ Left' = x + LeftOfRun'
      BY <3>2, <3>3
    <3>5. LeftOfRun' \in Nat /\ LeftOfRun \in Nat /\ LeftOfRun' < LeftOfRun
      BY <1>1, <3>1
    <3>6. \A y, z \in Nat : y < z => x + y < x + z
      OBVIOUS
    <3>7. Left' < Left
      BY <3>4, <3>5, <3>6, Zenon
    <3> QED BY <1>1, <3>7
  <2>7. CASE UNCHANGED vars
    BY <2>7
  <2>8. Next => StartLrg \/ (MainStep \/ Die \/ Verify \/ NextRun)
    BY DEF Next
  <2> QED BY <1>1, <2>5, <2>6, <2>7, <2>8
<1> QED BY <1>0, <1>1, TypedInit, TypedNext, PTL DEF Spec, ComesNearer
=============================================================================
