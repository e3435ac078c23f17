# A verification development for the circuit learner (CAD contest 2019, problem A)

The program `lrg` learns a combinational circuit from a black box. `iogen` is the
black box: given a file of input patterns it writes a file with the outputs. From
its answers `lrg` builds one truth table per primary output, minimises it, has
`abc` synthesise a netlist, compares the netlist with the black box on further
patterns and joins correction circuits to it. `verify_ncverilog` measures the
accuracy, and `run.sh` and `runall.sh` repeat the two for the benchmarks. All
stages run one after the other and talk to each other, and to the external
programs, through files named `beyond_*` in the working directory.

Paths below are relative to the repository's root.

## Inventory

| Component | Source | State | Operations | Modelled by |
|---|---|---|---|---|
| pipeline | `src/main.cpp` | the files `beyond_*`, `not_truth_table_PO`, `realPI_to_PO`, loop variable | classify, build a table per output, finish, fix an output, mix, write the result, remove | `Lrg` |
| scripts | `run.sh`, `runall.sh`, `Makefile` | the iteration | run `lrg`, run `verify_ncverilog`, `make rm` | `Lrg` |
| constant outputs | `src/classifyoutput.cpp` | patterns drawn `ppp`, `classifyPO` | draw, ask, classify | `ConstOutput` |
| truth table | `src/pattern.cpp`, `src/main.cpp` 56-90 | kept, real and dummy inputs, `realPI_to_PO` | read the dummy information, write all settings, ask, optimise, append | `TruthTable` |
| minimisation | `src/satopt.cpp` | table `patterns`, `inputOrder`, cubes | skip, start, expand, push, write | `SatOpt` |
| blif | `src/writeblif.cpp` | `beyond_circuit.blif` | header, constant, table, end | `Lrg` |
| netlists | `src/abcopt.cpp`, `src/modifyverilog.cpp` | `.v` files | convert | `Lrg`, partly |
| test patterns | `src/fixnetwork.cpp` 19-256 | `ppp`, `iogen_input_patterns`, `index` | Comb, printRes, two random loops | `Comb`, `CreatePattern` |
| corrections | `src/fixnetwork.cpp` 258-613 | the cubes of the faults | simulate, compare, write | `FixNetwork`, `Lrg` |
| joining | `src/mixverilog.cpp` | which correction files exist | probe, write gates, copy netlists | `FixNetwork`, `Lrg` |
| time budget | `src/TimingFunc.cpp` | `timing_info` | add up the inputs, share the time, count patterns | `Timing` |
| verification | `src/verify_ncverilog.cpp` | its patterns, files and counts | draw in three loops, simulate, ask, read, compare | `Verify`, its place in the scripts in `Lrg` |
| unused minimiser | `src/minimize.cpp` | | four methods; called by nothing | not modelled |
| dummy inputs | `src/dummyinfo.cpp` | | `BuildDummyInfo`, `DecideUpLimit` | the file is missing |
| external | `iogen`, `abc`, `ncverilog` | | | by their use |
| vendored | `glucose`, `minisat`, `abc-master`, `icarus` | | | not modelled |

What makes each of them correct, and what is hard about it:

- *Pipeline and scripts.* Every tool is called with `system()` and its result is
  ignored. A tool that fails leaves the file of an earlier output, run or circuit,
  and existence of a file is the only thing that is ever tested. The result must
  not mix data of different runs, a correction joined to the circuit must be one
  this run made for that output, and the appended blif must have one block per
  output. Crashes, `exit(-1)` half way and the repetition by the scripts are what
  endangers this.
- *Constant outputs.* The drawing loop takes its counter back for a pattern it has
  seen. It must end, and an output replaced by a constant must be nearly constant.
- *Minimisation.* An expansion must not cover the off-set although half of the
  look-ups are skipped; it should be as large as possible after one pass; rows are
  skipped when an earlier cube matches, and none may be lost; the input order is
  permuted in place for every row, with sign changes that must cancel.
- *Truth table.* The inputs kept are the first `up_limit` in an order by ratio with
  ties; a row has `up_limit` digits whatever the number of inputs kept. When `iogen`
  fails the rows are another output's. `realPI_to_PO` is pushed to by three branches
  and read by index.
- *Time budget.* Each call reduces a sum `main` accumulated, early returns included;
  an `int` product overflows, a quotient may be no number, a `long` is passed as
  `int`. The patterns must fit the time left.
- *Test patterns.* No pattern twice, though complements are pushed unseen; only
  settings of the real inputs and their complements; about as many as the time
  budget was computed for; the loops must end. One comparison reads a variable
  that was never set.
- *Corrections.* Two corrections of one output, an `or` and an `and` gate, may
  pull in opposite directions; cubes have don't-cares and reach untested patterns;
  corrections of different outputs share one array of wires. They rely on one list
  of real inputs, the table on another.
- *Verification.* Three loops share one array and one set of patterns seen; columns
  are written in reverse; a file that ends early goes on reading as its last token.

## Modules

- `Patterns`: bits, patterns, cubes and when a cube covers a pattern; `CoversOf`, what
  a circuit made from a table may compute, is what `SatOpt` delivers and `TruthTable`
  supposes. `TestSets`: in the same way, what `CreatePattern` creates and `FixNetwork`
  supposes.
- `SopCover`: the abstract specification of two-level minimisation. A cube may be
  added if it is prime against the off-set and covers some on-set row no other cube
  covers; the cover is handed over when the on-set is covered.
- `SatOpt`: `SATOptimization`, an action per branch of its loops. `SkipRow` is the
  `continue` at 232-235, `StartRow` is `Reorder` with its sort and both sign
  flips, `ExpandBit` one round of the loop at 249, `PushResult` and `WriteFile` the
  rest. The hash map is walked in no particular order (`\E p \in Rows`) and
  `std::sort` leaves ties in any order. The off-set test keeps the parity trick:
  `Queries` contains only the fillings whose last don't-care differs from the bit
  just dropped. The cover is a set: `SkipRow` excludes repetitions.
- `Lrg`: the pipeline, the scripts and `verify_ncverilog`. A file's content is the
  set of stamps (run, output) of the data that went into it, since properties here
  are about provenance. Each stage is one action except where a crash or an exit
  between two parts matters: `FixNetwork` is `Simulate`, `PatchFault0` and
  `PatchFault1`. Which outputs are constant or too large, and whether a
  simulation shows faults, is a choice. `Die` kills `lrg` between any two steps. The
  loops that draw patterns are inside these actions; they need not end, and then the
  action is not taken. All runs write one result file, as those of `run.sh` do;
  `runall.sh` names one per case.
- `ConstOutput`: `CheckConstOutput` with the oracle as an arbitrary function of the
  pattern, and with the columns written in reverse under the names (`Row`).
- `Subsets`, `Comb`: the "01 swap" enumeration and the order it should follow.
  `Subsets!Printed` says which choices are handed to `printRes`; `Comb` shows that
  the loop does just this, and `CreatePattern` uses it.
- `CreatePattern`: rounds, `printRes`, and the random loops. A draw of a seen
  pattern changes nothing and is not an action; the `extreme` loop differs from the
  `random` one only in its probabilities. `Compare` has `two_order` chosen
  arbitrarily after `over_limit` is set: `result` is declared inside the loop and
  not assigned then (lines 170-177).
- `FixNetwork`: the same stages as functions. `main` is the circuit's function,
  `oracle` is `iogen`'s, a call of `FixNetwork` picks one of the sets in
  `TestSetsOf`, which is where `CreatePattern`'s `IsTestSet` puts its patterns,
  and `MixVerilog` combines the functions by the gates it writes. Tools work here;
  their failures are `Lrg`'s subject.
- `TruthTable`: `main`'s loop with `PatternsGeneration`, what `SATOptimization` reads
  and what `WriteBlif` appends. `BuildConstant` is the branch for a constant output; for others
  `PatternsGeneration` has the up limit, the ratios and whether `iogen` answers as
  choices, and `SATOptimization` is the rest of the branch. The value of a minimised table on settings without
  a row is a choice among `CoversOf`: `SatOpt` leaves it open.
- `Timing`: `Timing_function` and the loops of `main` that feed and call it, with C's
  division, wrapping products and the conversion of a NaN. How long fixing takes is
  a choice.
- `Learn`: `TruthTable` extended by an instance of `FixNetwork`. The circuit and
  `realPI_to_PO` that the one leaves are what the other starts from.
- `Verify`: `verify_ncverilog`. The tools are an action that fixes how many bits each
  file holds; `ReadBit` says what `>>` delivers beyond them: the last token read,
  which before the first of `iogen`'s rows is a word of its heading (`NothingRead`).
  Whatever is not a "1", an x of the simulator too, is read as a 0.
- `MC*`: the instances TLC checks. `*Proofs`: theorems.

Definitions marked "Faulty variant" are not part of any specification. Each is a
plausible mistake in the definition after it, and replacing the one by the other
makes TLC refute a property: they show that the properties can fail.

## Runs

| Run | Shows | Bounds |
|---|---|---|
| `sat_opt` | cover sound and complete; weights kept; no setting looked up twice for a row; ends; implements `SopCover`, so every cube is prime | three inputs, all 256 functions |
| `lrg_runall` | `make rm` keeps circuits apart through failures and kills; blif blocks in order; answers fresh; a run that ends delivers its own answers, and all of them if no tool failed | two outputs, two runs |
| `lrg_verify` | refuted: `verify_ncverilog` compares | `run.sh`: two outputs, two runs, all tools working |
| `const_output` | ends; constants nearly right; learnt outputs take both values | eight patterns, six drawn |
| `const_output_few` | refuted: ends | eight patterns, nine wanted |
| `fix_network` | tested patterns right, corrections local to the output and its tests, accuracy never drops | two outputs of two inputs, nine circuits, every test set |
| `comb` | every choice in order, budget, end | up to eight inputs, budgets to 113 |
| `create_pattern` | no repetition, form, size, what `combinator` counts, end | vectors of six, four and three of six inputs, limits 0, 1 and 3 |
| `truth_table` | tables right on their rows, exact when answered, every setting equally often, real inputs listed under the output's number | two outputs of three inputs, limits to four |
| `timing` | shares add up, limits and counts fit an `int`, fixing in time unless a capacity was capped, where products wrap | three outputs, ints of twelve bits |
| `learn` | exact tables stay exact; every remaining error is explained | two outputs of two inputs |
| `verify` | every slot drawn, accuracies off by lost rows only, ends | one pattern per loop, every file length |

The runs check what the system promises. The type invariants, the inductive
invariants and what they imply on the way (`ResultsArePrime`, `NoNewErrors`) are proved below for all values of the constants.

Why these bounds are enough. Three inputs give `SatOpt` cubes with none to three
don't-cares, ties and negative weights, and several rows per cube. Two runs and two
outputs are what it takes to confuse one run or output with another, since each
shared file holds one earlier content at most. As `make rm` follows each run there, what
an earlier run left in the blif appended to does not occur in `lrg_runall`;
`CircuitWellFormed` is proved without it. In `Comb` the last budget exceeds
the largest enumeration (56 choices for 3 of 8), so cut and complete ones both
occur. In `CreatePattern` a third round, which six inputs give, is the first where
`result` is unset after the limit was passed in the round before; limits reach from
0, where the time has run out, past the number of choices of a round. In `FixNetwork` two inputs allow real inputs that
suffice and real inputs that do not, faults in both directions with the same real
inputs, and two outputs of which one, both or none is fixed. In `Learn` two outputs
make an index into `realPI_to_PO` that can be the wrong one.

`TruthTable` needs three inputs and limits above that for rows with digits to spare;
from four on the table is left out, as in the code from 30 on. In `Timing` an `int`
has twelve bits, so that products wrap to either sign; input counts, gates, speeds
and durations are the values around each comparison. That the code's own numbers
satisfy the same assumptions is the assumption `CodesNumbers` of `MCTiming`, which
TLC evaluates. In `Verify` a file may end after any bit, so in each row and at each
row's end; one pattern per loop suffices for a loop to begin in a slot of another,
and the second pattern to be one of the first loop's.

`run.sh` calls `lrg` without `make rm`. `MixesOwnFaults` and `ExitsClean` are proved
for it too, as long as `lrg` is not killed: main's own clean-up and its exits are
enough then. A killed run leaves correction files that the next run would join.
`runall.sh` is safe from that.

Deadlock is not checked where the function returns and the model stops.

### Findings

- `lrg_verify`: the comment in `verify_ncverilog.cpp` lists steps 9 to 12, reading
  the logs and comparing. `run.sh` calls it after `lrg`, whose last act is
  `rm beyond_*` (`main.cpp` 118). `beyond_before_fix_circuit.v` is gone, its
  simulation writes no log, and the program exits before step 9.
- `const_output_few`: `PATTERN_NUMS` is 200000 distinct patterns, and a circuit of
  17 inputs or fewer does not have as many. `benchmark/alpha_publish/case0` has six
  inputs, and the loop in `CheckConstOutput` never ends for it.

## Fairness

The components are single threads. Where an action is a few statements, a step that is
enabled is taken: weak fairness of the next-state relation in `SatOpt`, `Comb` and
`CreatePattern`. `Lrg` has no fairness. Its actions are whole stages, and that the
stages which draw patterns return is not to be taken for granted: whether they do is
the subject of the components below. In `ConstOutput` each single draw is weakly fair, the
strongest thing `rand()` could give, so that the loop that does not end there ends
under no reading of it; `Verify` draws in the same way and ends because as many
patterns exist as are asked for. In `CreatePattern` a pattern not yet seen comes up sooner
or later if there is one; if there is none the loop runs for ever, and the
property `EndsWithRoom` says how much room suffices.

## Proofs

Everything below holds for all values of the constants, with the assumptions the
modules state and the provisos the theorems name.

`SatOptProofs`. The safety properties are not inductive. While a row is expanded,
`ExpandInv` records that the bits not tried are the row's own, that the cube admits
no off-set row, that every literal kept so far would admit one if dropped, and that
the row is an on-set row no cube covers. The halved look-ups are justified there:
an off-set row admitted by the trial either differs in the bit just dropped, and is
looked up, or was admitted before, which the invariant excludes. Primality survives
later drops because a larger cube conflicts whenever a smaller one does.
`OnsetAccounted` says that each on-set row is yet to come, covered or in the cube
under construction. `IInv` yields `TypeCorrect`,
`NeverCoversOffset`, `AlwaysPrime`, `CoversOnset`, `WeightsNeverChange`, and
`Refinement`, that `SatOpt` implements `SopCover`. What the cubes compute at the end
agrees with every row (`DeliversTable`): it is in `CoversOf`, all that `TruthTable`
supposes of the minimisation, whose proofs thus speak of `SatOpt`'s covers.
`NeverLooksUpTwice` shows what the halving saves. A trial asks for exactly
what dropping the bit adds to the cube; if the bit is dropped the cube matches
that from then on, if it is put back the settings with the other bit are never asked
for. So the settings still to be looked up, fewer than 2^`real_PI_num` when a row is
started, pay for all look-ups of the row (`LooksUpFewerThanSettings`), though the
trials overlap and each may be twice as large as the one before. Towards its end: `AlwaysSorts`, a
row that is not skipped can be started, since putting each pair at the place the
number of pairs before it says is a sort; and `RunsDown`, each step lowers the
number of steps there can still be, `real_PI_num` and two for each row to come.
Assumed: the number of inputs is a natural number and the rows are finitely many
patterns.

`ConstOutputProofs`. The loop counter is the number of distinct patterns, and there
are 2^`InputNum` of them (`PatternCount`: a pattern is a set of inputs that
are 1). If that is less than `PATTERN_NUMS` the counter never
reaches its bound (`TooFewPatternsNeverEnd`): the general form of the second finding.
If not, there always is a pattern left to draw (`EnoughPatternsNeverRunOut`). When the
loop is left, `answers` are the patterns with a one, and the patterns a constant gets wrong
are those of them (or not of them) up to the reversal of the columns, which is
one-to-one; counting both gives `ConstantsAlmostRight` and `LearntVary`.

`FixNetworkProofs`. The invariant says that the correction files hold exactly the
faults of the test set and the mixed circuit is the gates' function of them. Two
tested patterns with the same real inputs have the same answer when the real inputs
suffice, so that no correction of one kind matches a pattern of the other kind
(`FixesWhatItTested`); `CorrectsEveryFault1` and `CorrectionsStayLocal`,
which includes that an output without tests is left alone, need no such condition. If the real inputs suffice for all
patterns, not only the tested ones, no error is added anywhere (`AddsNoErrors`).
Without any condition the tests come out no worse (`NeverWorseOnTests`): the tested
patterns that get worse are mapped, one-to-one, to ones that get better.

`CreatePatternProofs`. The invariant is that the patterns are finitely many,
counted, each or its complement a setting of the real inputs, and closed under
complement. This is why the unseen push of a complement never repeats one
(`NeverTwice`), and it puts them into the sets `FixNetwork` supposes it is given
(`CreatesTestSets`).
Assumed: there is at least one input, vectors are sequences of inputs, limits are
natural numbers. `CountsFew` bounds what `combinator` counts up to by the limit times
the number of inputs: n over k is at most n times n over k - 1, which was within the
limit in the round before. `WithinPlan` bounds the patterns by what the rounds and
draws so far may make; with the number of choices `Comb`'s budget pays for it gives
`StaysInBudget`.

The invariant of `Comb` is that the choices printed are those numbered 0, 1, 2 and so on
in the colexicographic order, the last one being what the array holds
(`CombInvariance`). A move takes the first one followed by a zero and puts the ones
before it back to the left: nothing lies between the old choice and the new one
(`MovesToNextChoice`), so that what is printed at the end are the first choices, each
once (`PrintsTheFirst`), and that is what `CreatePattern` prints in a round. The lemmas
on the way are about the order: it is total, and numbers are given out without gaps.

Five theorems are about whether the loops end. `Comb` always finds its move
(`AlwaysFindsAMove`), and in a round exactly one choice is the next
(`AlwaysOneChoice`). With the room `EndsWithRoom` asks for, a random loop always has a
setting left that was not seen (`RoomSuffices`). `CombRunsDown` and `RunsDown`: every
step, draws of seen patterns aside, lowers a natural number. On the other hand,
inputs with fewer settings than the two random loops want are never finished with
(`TooFewSettingsNeverEnd`).

`LearnProofs`, about `TruthTable` and `Learn`. The inputs kept are numbered by how many
are ahead of them in the order by ratio; the numbers differ and are below `up_limit`,
hence `KeepsWithinLimit`, that no row is written before its first digit. A table
repeats, for each row it was made of, the answer to a row with the same kept inputs;
this half of the invariant, `Consistent`, survives files of another output and gives
`TablesTellTheTruth`. `ListStaysAligned` says that `realPI_to_PO` has each output's
inputs at its index. The other half, `Complete`, follows the tables `iogen` answered:
their rows are the numbers from 0 up in binary and thus all settings of the kept
inputs, each with dummies at one somewhere, which gives `LearnsExactly`; the numbers
that end in given digits are equally many, so that `CountsEqually`. The facts about binary digits are inductions, done by looking at the least number that would be
a counterexample.

For the composition, the invariant of building holds throughout and that of fixing,
taken over from `FixNetworkProofs` by `INSTANCE`, from the moment fixing starts
(`LearnInvariance`). Seen without the variables of fixing, `Learn` implements
`TruthTable` (`LearnImplementsBuilding`). An output that was learnt exactly stays exact
(`ExactCircuitsStayExact`): there are no faults on tested patterns then. An error of the
delivered circuit was made when building, on a pattern that agrees with no tested
one in its real inputs (`EveryErrorExplained`).

`TimingProofs`. The sums `main` recorded grow, so no output's share exceeds the
whole, a capacity is at most what the remaining time allows at the measured rate,
and the patterns of all rounds take at most four fifths of it (eight fifths where the
capacity was doubled). From this follow `LastGetsAll`, `CountsFit`, for any overflow
before, and `FixingIsOnTime`. Assumed of the constants: the capacity's cap exceeds
what the time limit allows at the largest rate an `int` yields, and four fifths of it
fit an `int`. The code's numbers satisfy both, as TLC evaluates. `FixingIsOnTime` says
nothing of a time plan in which a capacity was capped, as where a sum of no inputs is
divided by (`CountsFit` holds there too), and does not count the two or four patterns by
which a round may pass its limit (`StaysInBudget`).

`LrgProofs`. `Typed` says which stamps a file may have and which files exist at
which step. `Blocks`: the appended blif has one block per output treated so far,
in order (`CircuitWellFormed`). `OwnFaults`: every correction file present was made
by this run for its output, if a killed run is always followed by `make rm`
(`MixesOwnFaults`, `ExitsClean`). `OneRun`: with `make rm` all files are of one run
(`OneRunPerResult`). `Fresh`: until a tool fails, each shared file is of the output
being treated, or about to be overwritten (`AnswersFresh`). The two provisos are
about the scripts: `runall.sh` has `make rm`, `run.sh` has not. A run of `lrg` that
ends leaves no circuit to simulate and no log of one, so `verify_ncverilog` never
compares after it (`EndedRunsGoUnverified`): the first finding for any number of
outputs and runs, and whatever the tools do. `EndsDeliver`, again with `make rm`: what
was written in the end is of the run itself (`OwnResult`, from `OneRun`), since a
netlist that a failing `abc` left in place cannot be an older one; and if no tool failed
the answers of each learnt output were handed on from its block to the blif, the two
netlists before fixing, the flattened one and the result (`HandedOn`). `RunsDown`: each
step lowers the number of steps left, of this run and of the runs to come; kills and
exits included. It is about the loops over outputs and runs, a stage being one step.

`VerifyProofs`. `Loops`: every slot below the counter holds a pattern whose entry in
`ppp` is that slot, and a loop begins where the last one ended (`SlotsFilled`).
A bit of a row that no file lost is found by division where it was written, so the
rows counted right and the rows that are right differ in lost rows only
(`AccuraciesNearlyExact`). `TypeCorrect` adds that no count exceeds the number of
patterns. As for `ConstOutput`, the loops never end if fewer patterns exist than are
asked for (`TooFewPatternsNeverEnd`), and never run out of new ones if not
(`EnoughPatternsNeverRunOut`). Assumed: at least as many patterns are asked for as the
two last loops draw.

Every safety and action property of the passing runs is stated by one of these
theorems. Only model-checked are the liveness properties, `ClassificationEnds`,
`VerificationEnds`, `EndsWithRoom` and `Terminates` of `SatOpt` and `Comb`: leading from fairness to an end takes ENABLED and an induction over steps,
neither of which the prover offers. What is proved of them is the part that depends
on the code: that each step comes nearer to the end, and that what the next step
needs (a move, a sort, a new pattern) is there. Whether the next step is taken is
left to fairness.

## Not modelled

`minimize.cpp` is compiled, but its four methods are called by nothing.

`dummyinfo.cpp` is not in the repository, so which inputs are real and which tables
are too large are inputs of the models. The text of blif and Verilog files, port
lists, test benches, logging and the rewriting of constant gates are left out, and so
is the choice of `abc`'s script by the length of the blif: what `abc` makes of a
circuit is equivalent to it under either. The look-ups of `SatOpt`, though none is made
twice for a row, can be exponentially many in the number of inputs kept,
which only the up limit keeps small. `Timing` has the cap
that replaces a capacity that is negative or no number. An output without real
inputs can be given it too; nothing in the code says what it should be given.

Nor does anything say what an output should be for which no table can be written: with
no input kept, or an up limit of 30 or more and nothing to read, `TruthTable` appends
none, as the code does, and abc is given an output without a driver. What is stated of
learnt outputs is about those that have a table; `Learn` goes on where every output has
one.

The vendored solvers, the simulator and `abc-master` are not this program's logic.
They are 99.7 % of the lines of the repository: the program itself is twelve files
with 2860 lines, and all of them that have state are modelled, most of them nearly
throughout.

## Order of the modules

Written in this order: `SopCover`, `SatOpt` and its proofs; `Lrg`; `ConstOutput`;
`FixNetwork`; `Comb` and `CreatePattern`; `TruthTable`; `Timing`; `Learn`; `Verify`;
and the proofs after the modules they are about.

What could still be added: a `Learner` in one step, right on every pattern whose real
inputs were tested, as an abstract specification of `Learn` (`ErrorsExplained` states
it as an invariant so far); `CreatePattern` as a part of `Learn`, in place of the sets
it is proved to create; a specification of the drawing loops that `ConstOutput`,
`CreatePattern` and `Verify` implement, with the counting argument proved once.
