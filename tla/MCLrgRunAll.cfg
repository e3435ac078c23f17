\* runall.sh: make rm after every run; lrg may be killed.
CONSTANTS
  NumPO = 2
  MaxRuns = 2
  MakeRm = TRUE
  ToolsMayFail = TRUE
  LrgMayDie = TRUE
SPECIFICATION Spec
INVARIANTS
  MixOwnFaults
  ResultOfOneRun
  ExitLeavesNoFaults
  BlifWellFormed
  FreshUnlessFailed
  EndedRunsDeliver
\* The script ends.
CHECK_DEADLOCK FALSE
