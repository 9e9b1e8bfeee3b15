SPECIFICATION AllSpec
CONSTANTS
  Symbol = {"BTC"}
  Reader = {"r1"}
  MaxFeed = 3
  MaxFill = 1
  MaxStop = 3
  Coin = {"BTC", "ETH"}
  MaxPoll = 3
  Tab = {"tab1"}
  MaxHour = 1
  DayHours = 2
  Retention = 0
  PruneEvery = 2
  MaxEvent = 1
  MaxChan = 2
  MaxTimer = 1
  MaxSave = 1
  MaxFail = 1
  Source = {"bbc", "rsshub"}
  Keep = 2
  Window = 1
  MaxItem = 2
  MaxSet = 1
  MaxCrash = 1
  Address = {"whale"}
  MaxConn = 2
INVARIANTS TypesOK RunningIsKnown
PROPERTIES StoppedEnd LagsCatchUp
CHECK_DEADLOCK FALSE
