\* A device that loses its last fabric with a relay on, and gets a new one.
SPECIFICATION Spec
CONSTANTS
  APP_REBOOT_RESET_COUNT = 3
  APP_BUTTON_PRESS_LONG = 0
  TimerIntvl = 1
  ClearAt = 1
  SettleAt = 3
  FctRstMax = 0
  ByteMod = 2
  ClockMod = 4
  MaxUptime = 2
  QueueSize = 1
  Straps = {1}
  ClientEndpoints = {1}
  Gpio2Levels = {1}
  StartUpValues = {}
  MaxIdentifyTime = 0
  Effects = {}
  InitialFabrics = {1}
  Commissioning = TRUE
INVARIANTS SettledRelaysMatch
