\* A circle a, c, r, a; the client names a.
CONSTANTS
  r = r
  a = a
  c = c
  Nodes = {r, a, c}
  NoNode = NoNode
  Unknown = Unknown
  Parent <- MCParent
  Children <- MCChildren
  Latency <- MCLatency
  LatencyMax = 3
  NoInput = FALSE
  First = a
  Builds <- MCBuilds
  Wished = 2
SPECIFICATION FairSpec
INVARIANTS
  NoneLeftBehind
  AtMostWanted
  InOrder
PROPERTIES
  Promised
  CallEnds
CHECK_DEADLOCK FALSE
