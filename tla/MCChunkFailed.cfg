SPECIFICATION Spec
CONSTANTS
  Chunk = {c1, c2, c3}
  Target = {t1, t2, t3}
  Concurrency = 1
  MaxPending = 1
INVARIANT
  FailedIsUndelivered
