SPECIFICATION RouterSpec
CONSTANTS
  Objects = {o1}
INVARIANTS LedWrongOnlyIfMerged TempConnectionShown LedsShowAttachment
PROPERTIES OneConnectionOnly FoundAgain
CHECK_DEADLOCK FALSE
