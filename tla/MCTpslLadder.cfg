SPECIFICATION Spec
CONSTANTS
  Cond = {1, 2, 3}
  Kind <- KindLadder
  Group <- GroupLadder
  Ladder = {1}
  Batch <- BatchLadder
  Pool = {}
  Monitor = mon
  Caller = {a}
  MaxCall = 2
  MaxObj = 2
  MaxDBFault = 0
  MaxRedisFault = 0
  MaxRestart = 0
  MaxLost = 0
INVARIANTS Agreement NoTakeProfitAfterStopLoss
CHECK_DEADLOCK FALSE
