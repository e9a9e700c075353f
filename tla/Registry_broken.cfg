\* Two registrations that overlap break the tree.
CONSTANTS
  r = r
  q = q
  x = x
  y = y
  z = z
  Ids = {r, q, x, y, z}
  NoParent = NoParent
  AtOnce = 2
  Calls <- MCFamily
  Subject <- MCSubject
  Fragile = {}
  Under <- MCUnder
SPECIFICATION Spec
INVARIANT TreeAtRest
