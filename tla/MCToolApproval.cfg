SPECIFICATION Spec
CONSTANTS
  r1 = r1
  r2 = r2
  Run = {r1, r2}
  NoRun = NoRun
  Sources <- AllSources
  Kinds = {"approval", "screen", "synthetic"}
  Fallback = "allow_once"
  Anonymous = TRUE
  MaxAsk = 2
  MaxTools = 1
INVARIANT GrantIsConsumed
INVARIANT OpenRowIsAwaited
INVARIANT AwaitingHasRequest
INVARIANT ScopeWasGranted
PROPERTY RowIsFinal
PROPERTY TimedRequestSettles
CHECK_DEADLOCK FALSE
