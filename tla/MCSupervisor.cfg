SPECIFICATION FairSpec
CONSTANTS
  Executions = {e1, e2}
  MaxGenerations = 2
INVARIANTS
  TypeOK
  ShutdownIsAlone
  SealedForGood
  NoSurvivors
PROPERTIES
  LostGpuRestarts
  StopEnds
CHECK_DEADLOCK FALSE
