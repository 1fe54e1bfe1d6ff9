SPECIFICATION Spec
CONSTANTS
  Caller = {c1, c2}
  Exchange = {e1, e2}
  Commands = {"toggle"}
INVARIANTS AnswerIsFresh CarriedOutOnce
PROPERTIES QueryReturns LedSpec
CHECK_DEADLOCK FALSE
