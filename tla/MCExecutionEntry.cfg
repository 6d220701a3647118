SPECIFICATION Spec
CONSTANTS
  Readers = {r1}
  Cancellers = {c1}
  Uploads = {h1}
  Stoppers = {}
  MaxFrames = 2
INVARIANTS
  TypeOK
  QuiescedMeansStopped
  ResultComplete
  InputsSettled
  RemovedOnlyStopped
  QuiescedAnswer
PROPERTIES
  LifecycleSpec
CHECK_DEADLOCK FALSE
