\* run.sh when every tool works: what verify_ncverilog finds.
CONSTANTS
  NumPO = 2
  MaxRuns = 2
  MakeRm = FALSE
  ToolsMayFail = FALSE
  LrgMayDie = FALSE
SPECIFICATION Spec
INVARIANTS
  VerifyCompares
\* The script ends.
CHECK_DEADLOCK FALSE
