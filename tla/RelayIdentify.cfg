\* Identify commands and effects against merged notification bits.
SPECIFICATION Spec
CONSTANTS
  APP_REBOOT_RESET_COUNT = 2
  APP_BUTTON_PRESS_LONG = 0
  TimerIntvl = 1
  ClearAt = 1
  SettleAt = 3
  FctRstMax = 0
  ByteMod = 2
  ClockMod = 4
  MaxUptime = 2
  QueueSize = 1
  Straps = {2}
  ClientEndpoints = {}
  Gpio2Levels = {1}
  StartUpValues = {}
  MaxIdentifyTime = 2
  Effects = {"blink", "finish"}
  InitialFabrics = {1}
  Commissioning = FALSE
INVARIANTS IdentifyStops
