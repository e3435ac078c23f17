\* Six inputs and so three rounds; limits passed in none, the second or the third.
CONSTANTS
  InputIds = {0, 1, 2, 3, 4, 5}
  Vectors <- MCVectors
  Limits = {0, 1, 3}
SPECIFICATION Spec
INVARIANTS
  NoDuplicates
  IsTestSet
  BudgetKept
  CountBounded
PROPERTIES
  EndsWithRoom
\* The function returns; it also stops where it would draw for ever.
CHECK_DEADLOCK FALSE
