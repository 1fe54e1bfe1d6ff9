CONSTANTS
  KeyBits <- NoKeyEnterDownBoth
  LongCount = 100
  Key = {"ENTER", "UP", "DOWN", "MENU", "BOTH"}
  Param = {"distance", "sensitivity", "transmitted_power", "oled_light", "oled_close_time"}
  Limit <- MCLimit
  Default <- MCDefault
  Minute = 2
SPECIFICATION BoardSpec
INVARIANTS
  ScanTypeOK
  ParamsInRange
  ShowsCurrentPage
  StoreTypeOK
  BrokenOnlyIfInterrupted
  ParametersNotLoaded
PROPERTIES
  ShortIsDebounced
  PressIsTaken
  ActsWhenUp
  WelcomeOnlyAtStart
  AdvancesAsAsked
  RedrawServed
  IdleReturnsToMain
  OnlyMisreadingRepairs
