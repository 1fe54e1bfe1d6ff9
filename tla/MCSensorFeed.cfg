SPECIFICATION FairSpec
CONSTANTS
  Source <- TwoSensors
  Value = {"r1"}
  HeapSize = 7
  MsgCost = 1
  DataCost <- MCDataCost
  QueueSize = 4
  Fragments = FALSE
INVARIANT QueueNeverFull
PROPERTIES FeedSpec QueuedIsTaken
