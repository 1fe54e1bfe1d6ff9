SPECIFICATION Spec
CONSTANTS
  BufSize = 4
  Frames <- MCFrames
  MaxUnasked = 1
  MaxRequests = 2
INVARIANTS TypeOK SegmentsAreFrames OneRequestAtATime SilentOnlyIfRaced
PROPERTY AsksForEver
CHECK_DEADLOCK FALSE
