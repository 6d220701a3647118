SPECIFICATION FairSpec
CONSTANTS
  u1 = u1
  u2 = u2
  Uploads <- TwoUploads
  MaxBatches = 3
  Chunks = 2
INVARIANTS
  TypeOK
  InOrderExactlyOnce
  AckedFullyEmitted
  CompleteAckDrained
  CleanEof
PROPERTIES
  DeliverySpec
  HandlerReleased
CHECK_DEADLOCK FALSE
