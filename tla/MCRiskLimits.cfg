SPECIFICATION Spec
CONSTANTS
  Enabled = TRUE
  DailyMaxLosses = 2
  MaxDailyLossAmount = 2
  GuardOn = TRUE
  CooldownTicks = 1
  Placer = {a}
  Symbol = {"BTC"}
  Source = {"dca"}
  Pnl <- PnlSmall
  MaxDay = 1
  MaxClose = 2
  MaxOrder = 1
  MaxUnlock = 1
  MaxShock = 1
  MaxSwitch = 1
  MaxRestart = 1
INVARIANTS TypeOK LimitMeansLocked 
CHECK_DEADLOCK FALSE
