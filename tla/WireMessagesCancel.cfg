SPECIFICATION Spec
CONSTANTS
  Kinds = {"cancel"}
  FieldModulus = 16
  Numbers = {0, 1, 2, 3, 17}
  max_columns = 3
INVARIANTS
  CancelNamesOne
CHECK_DEADLOCK FALSE
