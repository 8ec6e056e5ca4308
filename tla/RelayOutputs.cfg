\* Relays, LED and OnOff attributes under every jumper setting, with start-up values.
SPECIFICATION Spec
CONSTANTS
  APP_REBOOT_RESET_COUNT = 2
  APP_BUTTON_PRESS_LONG = 0
  TimerIntvl = 1
  ClearAt = 1
  SettleAt = 3
  FctRstMax = 0
  ByteMod = 2
  ClockMod = 4
  MaxUptime = 2
  QueueSize = 1
  Straps = {1, 2, 3, 4}
  ClientEndpoints = {1, 2, 3}
  Gpio2Levels = {1}
  StartUpValues = {"toggle"}
  MaxIdentifyTime = 0
  Effects = {}
  InitialFabrics = {0, 1}
  Commissioning = FALSE
INVARIANTS RelayOnlyIfOn SyncedRelaysFollow
PROPERTIES WriteBackKeepsOnOff LedFollowsRelays
