SPECIFICATION FairSpec
CONSTANTS
  Readers = {r1}
  Cancellers = {}
  Uploads = {h1}
  Stoppers = {}
  MaxFrames = 1
PROPERTIES
  DeadlineQuiesces
  QuiescedRemoved
CHECK_DEADLOCK FALSE
