\* The reset takes place, the relays are restored, the polling ends.
SPECIFICATION FairSpec
CONSTANTS
  APP_REBOOT_RESET_COUNT = 2
  APP_BUTTON_PRESS_LONG = 1
  TimerIntvl = 1
  ClearAt = 1
  SettleAt = 3
  FctRstMax = 0
  ByteMod = 2
  ClockMod = 4
  MaxUptime = 3
  QueueSize = 1
  Straps = {1}
  ClientEndpoints = {1}
  Gpio2Levels = {1}
  StartUpValues = {}
  MaxIdentifyTime = 0
  Effects = {}
  InitialFabrics = {0, 1}
  Commissioning = FALSE
PROPERTIES ConfirmedResetHappens RelaysRestored PollingEnds
