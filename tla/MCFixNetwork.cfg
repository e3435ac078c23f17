\* Two outputs: some fixed, some not, some without faults; every test set.
CONSTANTS
  InputIds = {1, 2}
  NumPO = 2
  Circuits <- MCCircuits
SPECIFICATION Spec
INVARIANTS
  TestedFixed
  Fault1AlwaysFixed
  CorrectionsAreLocal
  AccuracyNeverDrops
\* The function returns.
CHECK_DEADLOCK FALSE
