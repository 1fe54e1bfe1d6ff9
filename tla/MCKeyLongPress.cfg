CONSTANTS
  KeyBits <- NoKeyEnterDownBoth
  LongCount = 100
  Key = {"ENTER", "UP", "DOWN", "MENU", "BOTH"}
  Param = {"distance", "sensitivity", "transmitted_power", "oled_light", "oled_close_time"}
  Limit <- MCLimit
  Default <- MCDefault
  Minute = 2
SPECIFICATION BoardSpec
PROPERTY CheckMeansReleased
