SPECIFICATION Spec
CONSTANTS
  Run = {r1, r2}
  Limit = 2
  MaxCrash = 2
INVARIANT AnsweredOnce
PROPERTY DeliveredIsProtected
INVARIANT RunningHasExecutor
INVARIANT CommittedArrived
CHECK_DEADLOCK FALSE
