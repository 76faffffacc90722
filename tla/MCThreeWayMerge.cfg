SPECIFICATION Spec
CONSTANTS
  MCNames = {1, 2, 3, 4}
  Lists <- MCLists
INVARIANTS TypeOK AssertsHold MergeRight
PROPERTY Terminates
CHECK_DEADLOCK FALSE
