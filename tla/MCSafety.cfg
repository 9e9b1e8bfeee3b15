SPECIFICATION AllSpec
CONSTANTS
  Top = 4
  Period = 2
  Oversold = 35
  Overbought = 65
  ExitLow = 20
  ExitHigh = 80
  BodyRatio = 10
  ShadowRatio = 200
  TrendStrength = 30
  MaxPositions = 2
  MaxStart = 2
  MaxTask = 2
  MaxDailyTrades = 2
  LossLimit = 1
  RsiHigh = 75
  RsiLow = 25
  Rsi = {20, 23, 30, 40, 50, 60, 70, 77, 80}
  MaxHeld = 2
  MaxTrouble = 1
  Pair = {BTC}
  Tab = {"tab1", "tab2"}
  MaxRoom = 2
  MaxStop = 2
  Viewer = {"tab1"}
  MaxHour = 1
  DayHours = 2
  Retention = 0
  PruneEvery = 2
  MaxEvent = 2
  MaxChan = 2
  MaxTimer = 1
  MaxSave = 1
  MaxFail = 1
  Source = {"bbc", "rsshub"}
  Keep = 2
  Shows = 1
  MaxItem = 3
  MaxSet = 1
  MaxCrash = 1
  Cause = {"x", "y"}
  Cool = 1
  HourLength = 3
  Window = 1
  MaxTime = 3
  MaxTrig = 2
  MaxLoad = 2
  Given = {{"x"}, {"x", "y"}}
  Alert = {"x"}
  AlertCool = 1
  LastTime = 2
  MaxNotify = 1
  MaxTrade = 1
INVARIANTS TypesOK SpacedTriggers  SidesMirror
  BrowsersServed SeriesKept
CHECK_DEADLOCK FALSE
