SPECIFICATION MCSpec
CONSTANTS
  Kinds = {"execute", "upload", "cancel", "resolve", "column", "schema"}
  FieldModulus = 16
  Numbers = {0, 1, 2, 3, 4, 5, 6, 7, 8, 9, 10, 11, 12, 17}
  max_columns = 3
  TaeReads = {"t1", "t2"}
  StreamReads = {"s1"}
  VarlenaSize = 3
  WordBits = 2
  Epoch = 2
  MaxDate = 4
  MaxUpload = 40
  Batches <- MCBatches
  Limits = {18, 30, 40, 70}
  DamagedRows = 2
  Damages = {0, 1, 2, 3, 99}
INVARIANTS
  NothingMissingOrRepeated
  RowsReadBack
  LimitRespected
  DecoderSafe
  OnlyAuthenticated
  ReadyIsBacked
  NothingLeaks
CHECK_DEADLOCK FALSE
