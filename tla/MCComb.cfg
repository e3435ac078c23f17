\* Eight inputs; a budget up to 113 covers the largest enumeration.
CONSTANTS
  MaxN = 8
  MaxLimit = 113
SPECIFICATION CombSpec
INVARIANTS
  PrintsFirstChoices
PROPERTIES
  NextChoice
  Terminates
\* The function returns.
CHECK_DEADLOCK FALSE
