CONSTANTS
  r = r
  c = c
  l = l
  Nodes = {r, c, l}
  Root = r
  Up <- MCUp
  Watched <- MCWatched
  Window = 6
  Latencies = {1, 2}
  Sent = 10
  Lost = {9, 10}
  MaxFaults = 1
SPECIFICATION FairSpec
INVARIANTS
  ListedIsLinked
  WindowIsRecent
  Cuts
PROPERTIES
  EveryNodeRegisters
CHECK_DEADLOCK FALSE
