SPECIFICATION FairSpec
CONSTANTS
  Run = {r1, r2}
  NoRun = NoRun
INVARIANTS
  BoundIsInProgress
  Stoppable
  AbortedIsSettled
  OverIsSettled
  QueuedIsWaiting
  OneWorkerRun
PROPERTIES
  DeliveredAnswerKept
  
