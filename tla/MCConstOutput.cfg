\* Enough patterns: every function of three inputs.
CONSTANTS
  InputNum = 3
  Outputs = {o1}
  PatternNums = 6
  ThresholdNum = 1
  ThresholdDen = 3
SPECIFICATION Spec
INVARIANTS
  ConstantErrorBound
  LearntTakesBothValues
PROPERTIES
  ClassificationEnds
\* The function returns.
CHECK_DEADLOCK FALSE
