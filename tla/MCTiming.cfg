\* Twelve-bit ints: the product with the speed wraps, to either sign.
CONSTANTS
  TimeLimit = 4
  AltTimeLimit = 5
  ManyGates = 3
  FewGates = 2
  FewInputs = 4
  Large = {5}
  LargeLimit = 30
  SimRate = 7
  PerMin = 60
  Base = 10
  Cap = 2500
  IntMax = 2047
  InputCounts = {0, 1, 2, 3, 4, 5}
  NumFix = 3
  GateCounts = {1, 3, 4}
  Speeds = {0, 1, 25, 200, 300, 500, 600}
  Durations = {0, 1, 2, 3, 6, 8}
SPECIFICATION Spec
INVARIANTS
  SharesAddUp
  CountsFitInt
  OnTime
\* Main's loop over the outputs ends.
CHECK_DEADLOCK FALSE
