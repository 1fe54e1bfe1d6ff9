SPECIFICATION RouterSpec
CONSTANTS
  Objects = {o1}
INVARIANT Led1ShowsConnection
CHECK_DEADLOCK FALSE
