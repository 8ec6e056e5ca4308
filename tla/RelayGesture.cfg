\* The power-cycle gesture against power cuts, GPIO 2, commissioning and a full queue.
SPECIFICATION Spec
CONSTANTS
  APP_REBOOT_RESET_COUNT = 3
  APP_BUTTON_PRESS_LONG = 0
  TimerIntvl = 1
  ClearAt = 2
  SettleAt = 3
  FctRstMax = 1
  ByteMod = 3
  ClockMod = 16
  MaxUptime = 2
  QueueSize = 2
  Straps = {1}
  ClientEndpoints = {}
  Gpio2Levels = {0, 1}
  StartUpValues = {}
  MaxIdentifyTime = 0
  Effects = {}
  InitialFabrics = {0}
  Commissioning = TRUE
INVARIANTS TypeOK WipeOnlyOnRequest PowerCutCancels
PROPERTIES PendingFabricGuarded
