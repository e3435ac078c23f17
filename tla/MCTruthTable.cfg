\* Two outputs; from a limit of four on no table is written.
CONSTANTS
  InputNum = 3
  NumPO = 2
  Circuits <- MCCircuits
  MaxRatio = 1
  MaxLimit = 4
  NotDummyUpLimit = 4
SPECIFICATION Spec
INVARIANTS
  IndexInRange
  LearntRight
  LearntExact
  SettingsEquallyOften
  AlignedRealPI
\* The loop over the outputs ends.
CHECK_DEADLOCK FALSE
