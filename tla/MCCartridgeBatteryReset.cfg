SPECIFICATION BatterySpec
CONSTANTS
  Contents = {zero, one}
  Blank = zero
  Period = 2
  Horizon = 2
  Torn = Torn
  None = None

PROPERTIES ResetKeepsRam
CHECK_DEADLOCK FALSE
