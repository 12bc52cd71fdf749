CONSTANTS
  NItems = 2
  Correct <- MCCorrect
  Filters <- MCFilters
  MaxWrites = 3
SPECIFICATION Spec
INVARIANTS
  TableIsTheUsersWork
  ScoreCountsAnswers
PROPERTY
  ShowsTheTable
CHECK_DEADLOCK FALSE
