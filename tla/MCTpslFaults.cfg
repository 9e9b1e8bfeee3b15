SPECIFICATION Spec
CONSTANTS
  Cond = {1, 2}
  Kind <- KindPartial
  Group <- GroupPartial
  Ladder = {}
  Batch <- BatchPartial
  Pool = {2}
  Monitor = mon
  Caller = {a}
  MaxCall = 3
  MaxObj = 2
  MaxDBFault = 1
  MaxRedisFault = 1
  MaxRestart = 1
  MaxLost = 1
INVARIANTS TypeOK WriteAhead AckedOncePerLoad
CHECK_DEADLOCK FALSE
