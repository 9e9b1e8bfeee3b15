SPECIFICATION Spec
CONSTANTS
  MaxOrder = 2
  MaxFault = 1
INVARIANT OneRecordPerOrder
CHECK_DEADLOCK FALSE
