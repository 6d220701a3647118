SPECIFICATION Spec
CONSTANTS
  Executions = {e1}
  MaxGenerations = 1
INVARIANTS
  RuntimeOutlivesEntries
CHECK_DEADLOCK FALSE
