SPECIFICATION FairSpec
CONSTANTS
  Key = {k1, k2}
  Task = {t1, t2, t3, t4}
  NoTask = NoTask
INVARIANTS
  TypeOK
  SerialInOrder
  EntryIffBusy
PROPERTIES
  EnqueuedIsReleased
  ImplementsFifo
