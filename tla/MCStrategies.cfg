SPECIFICATION Spec
CONSTANTS
  Strategy = {s}
  Caller = {a, b}
  Main = main
  TotalOrders = 2
  MaxFailures = 1
  GridCount = 2
  MaxTask = 2
  MaxTick = 2
  MaxCall = 2
  MaxTrouble = 2
INVARIANTS TypeOK LoopsInHand LastWordHolds 
CHECK_DEADLOCK FALSE
