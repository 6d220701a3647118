SPECIFICATION Spec
CONSTANTS
  Readers = {r1}
  Cancellers = {c1}
  Uploads = {}
  Stoppers = {}
  MaxFrames = 1
INVARIANTS
  QuiescedReleased
CHECK_DEADLOCK FALSE
