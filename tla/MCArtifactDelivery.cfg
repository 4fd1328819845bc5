SPECIFICATION Spec
CONSTANTS
  c1 = c1  c2 = c2  c3 = c3  c4 = c4
  r1 = r1  r2 = r2  f1 = f1  f2 = f2
  Call = {c1, c2, c3, c4}
  NoCall = NoCall
  Run = {r1, r2}
  File = {f1, f2}
  NoFile = NoFile
  RunOf <- MCRunOf
  FileOf <- MCFileOf
  Resent = {c4}
  MaxKeys = 1
  MaxCrash = 2
INVARIANT TypeOK
INVARIANT SentOnce
INVARIANT LockIffSending
PROPERTY ReceiptStopsSends
CHECK_DEADLOCK FALSE
