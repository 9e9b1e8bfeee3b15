SPECIFICATION FairSpec
CONSTANTS
  Cond = {1}
  Kind <- KindSolo
  Group <- GroupSolo
  Ladder = {}
  Batch <- BatchSolo
  Pool = {}
  Monitor = mon
  Caller = {a, b}
  MaxCall = 3
  MaxObj = 2
  MaxDBFault = 0
  MaxRedisFault = 1
  MaxRestart = 0
  MaxLost = 0
INVARIANTS WatchedWhenActive
PROPERTY AcceptedIsRecorded
CHECK_DEADLOCK FALSE
