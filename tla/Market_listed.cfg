\* Two SLAs won by one node, no registration and no restart in the way.
CONSTANTS
  Slas = {a, b}
  n1 = n1
  n2 = n2
  n3 = n3
  Nodes = {n1, n2, n3}
  NoNode = NoNode
  NoBid = NoBid
  Tenders <- MCOneSeller
  MaxChurn = 0
SPECIFICATION Spec
INVARIANT TransactionsListed
