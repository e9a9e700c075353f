\* Bids, the limiter and the queue of timers.
CONSTANTS
  a = a
  b = b
  c = c
  Slas = {a, b, c}
  Duration <- MCDuration
  Cpu <- MCCpu
  MaxInFlight = 1
  AA = 1
  BB = 1
  MaxClock = 2
SPECIFICATION Spec
SYMMETRY MCSymmetry
INVARIANTS
  EntryKept
  PriceBracketed
  InFlightBound
CHECK_DEADLOCK FALSE
