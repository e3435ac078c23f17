\* Two outputs of two inputs: constant, learnt, fixed or not, in any mix.
CONSTANTS
  InputNum = 2
  NumPO = 2
  Circuits <- MCCircuits
  MaxRatio = 1
  MaxLimit = 3
  NotDummyUpLimit = 3
SPECIFICATION LearnSpec
INVARIANTS
  ExactStaysExact
  ErrorsExplained
\* main returns.
CHECK_DEADLOCK FALSE
