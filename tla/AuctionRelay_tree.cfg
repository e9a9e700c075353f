\* Five nodes in a tree; the client names a, from which d is too far.
CONSTANTS
  r = r
  a = a
  b = b
  c = c
  d = d
  Nodes = {r, a, b, c, d}
  NoNode = NoNode
  Unknown = Unknown
  Parent <- TreeParent
  Children <- TreeChildren
  Latency <- Uneven
  LatencyMax = 3
  NoInput = FALSE
  First = a
SPECIFICATION FairSpec
INVARIANTS
  AskedOnce
  LostOnlyByFault
  EveryReachableAsked
PROPERTIES
  Promised
  CallEnds
CHECK_DEADLOCK FALSE
