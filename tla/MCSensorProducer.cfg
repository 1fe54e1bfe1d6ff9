SPECIFICATION Spec
CONSTANTS
  Source <- ThreeSensors
  Value = {"zero"}
  HeapSize = 6
  MsgCost = 1
  DataCost <- MCDataCost
  QueueSize = 2
  Fragments = TRUE
INVARIANTS
  HeapAccounted
  SingleOwner
  StrandedOnlyByPreemption
