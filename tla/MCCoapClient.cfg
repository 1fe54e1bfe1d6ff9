SPECIFICATION Spec
CONSTANTS
  Commands <- AllCommands
  Slots = 2
  MaxPending = 2
  ReplyPreempts = TRUE
INVARIANTS LedWrongOnlyIfMerged LedShowsMode PeriodLostOnlyIfOvertaken
