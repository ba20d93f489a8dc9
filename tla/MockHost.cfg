SPECIFICATION Spec
CHECK_DEADLOCK FALSE
CONSTANTS
  Data <- MCData
  FIRST_ID = 1000
  MAX_DATA_SIZE = 2
  MaxIds = 3
  MaxTests = 3
INVARIANTS
  TypeOK
  GuardedTestIsAlone
  StoredIsReadBack
