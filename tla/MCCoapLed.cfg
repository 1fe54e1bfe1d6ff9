SPECIFICATION Spec
CONSTANTS
  Commands <- EndDeviceCommands
  Slots = 1
  MaxPending = 2
  ReplyPreempts = TRUE
INVARIANT LedShowsConnection
