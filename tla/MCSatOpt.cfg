\* All 256 functions of three inputs, every order of the hash map.
CONSTANTS
  RealPINum = 3
  Rows <- MCRows
SPECIFICATION Spec
INVARIANTS
  NoOffsetCovered
  OnsetCoveredWhenDone
PROPERTIES
  WeightsKept
  LooksUpOnce
  Terminates
  ImplementsCover
\* The function returns: a finished run stops.
CHECK_DEADLOCK FALSE
