SPECIFICATION FairSpec
CONSTANTS
  Expressions <- MCExpressions
  Starts <- MCStarts
PROPERTY
  NothingSkipped
CHECK_DEADLOCK FALSE
