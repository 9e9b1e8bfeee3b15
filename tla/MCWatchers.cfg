SPECIFICATION AllSpec
CONSTANTS
  Enabled = TRUE
  DailyMaxLosses = 1
  MaxDailyLossAmount = 0
  GuardOn = TRUE
  CooldownTicks = 1
  Placer = {a, b}
  Symbol = {"BTC"}
  Source = {"dca"}
  Pnl <- PnlOne
  MaxDay = 1
  MaxClose = 1
  MaxOrder = 3
  MaxUnlock = 1
  MaxShock = 1
  MaxSwitch = 0
  MaxRestart = 0
INVARIANTS AtMostOneLateOrderEach
PROPERTY WatchersSettle
CHECK_DEADLOCK FALSE
