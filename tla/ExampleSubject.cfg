SPECIFICATION Spec
CONSTANTS
  Values = {0, 50}
  Genesis <- MCGenesis
  Null = Null
  Fails = Fails
INVARIANTS
  FieldsAreLastWrites
  RejectedKeepsState
