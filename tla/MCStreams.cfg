SPECIFICATION AllSpec
CONSTANTS
  MaxId = 6
  Update <- Updates
  Price = {2, 3, 5, 6}
  Levels = 2
  Step = 2
  QueueCap = 2
  MaxSpan = 2
  Lag = 2
  MaxTrouble = 1
  Nothing = Nothing
  Coin = {"BTC", "ETH"}
  MaxFill = 2
  MaxTask = 2
  SeenMax = 1
  SeenKept = 1
INVARIANTS TypesOK 
PROPERTIES  StreamsProgress
CHECK_DEADLOCK FALSE
