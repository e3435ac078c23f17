\* Fewer patterns than are to be drawn, as alpha_publish/case0 has.
CONSTANTS
  InputNum = 3
  Outputs = {o1}
  PatternNums = 9
  ThresholdNum = 1
  ThresholdDen = 3
SPECIFICATION Spec
PROPERTIES
  ClassificationEnds
\* The function may return.
CHECK_DEADLOCK FALSE
