SPECIFICATION FairSpec
CONSTANTS
  Expressions <- MCExpressions
  Starts <- MCStarts
PROPERTIES
  OnlyShortMonthSkipped
  SearchEnds
CHECK_DEADLOCK FALSE
