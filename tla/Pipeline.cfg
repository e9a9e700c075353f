\* Two chains, of which one is a single function.
CONSTANTS
  a = a
  b = b
  Chains = {a, b}
  Size <- MCSize
  Duration = 2
  Stop = 1
  ColdStart = 1
  MaxClock = 4
SPECIFICATION Spec
INVARIANTS
  PingedChainIsWhole
  PingsLand
  ReportIsTrue
CHECK_DEADLOCK FALSE
