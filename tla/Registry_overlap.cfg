\* Registrations that overlap, two nodes claiming the root among them.
CONSTANTS
  r = r
  q = q
  x = x
  y = y
  z = z
  Ids = {r, q, x, y, z}
  NoParent = NoParent
  AtOnce = 2
  Calls <- MCRivals
  Subject <- MCSubject
  Fragile <- MCFragile
  Under <- MCUnder
SPECIFICATION FairSpec
INVARIANTS
  AtMostOneRoot
  DanglingKnows
  TreeUnlessCrossed
PROPERTY EveryCallEnds
