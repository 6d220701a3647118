SPECIFICATION Spec
CONSTANTS
  Readers = {r1}
  Cancellers = {c1, c2}
  Uploads = {}
  Stoppers = {s1}
  MaxFrames = 1
INVARIANTS
  QuiescedAnswer
PROPERTIES
  LifecycleSpec
CHECK_DEADLOCK FALSE
