\* One pattern from each loop, the tools ending anywhere.
CONSTANTS
  InputNum = 2
  OutputNum = 2
  PatternNum = 3
  Tests0 = 1
  Tests1 = 1
  Circuits <- MCCircuits
SPECIFICATION Spec
INVARIANTS
  EverySlotDrawn
  CountsOffByLostRows
PROPERTIES
  VerificationEnds
\* The program returns.
CHECK_DEADLOCK FALSE
