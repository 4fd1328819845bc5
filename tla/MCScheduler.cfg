SPECIFICATION Spec
CONSTANTS
  Schedule = {"daily"}
  Tables <- MCTables
  MaxTime = 2
  Limit = 1
  MaxManual = 1
  MaxCrash = 1
  MaxFault = 1
INVARIANT TwiceBySchtasksOnly
INVARIANT ContractSentOnce
INVARIANT OpenRowIsLive
INVARIANT InterruptedIsOver
PROPERTY DueIsFired
CHECK_DEADLOCK FALSE
