\* Two SLAs, three nodes that register again, vanish or restart meanwhile.
CONSTANTS
  Slas = {a, b}
  n1 = n1
  n2 = n2
  n3 = n3
  Nodes = {n1, n2, n3}
  NoNode = NoNode
  NoBid = NoBid
  Tenders <- MCTenders
  MaxChurn = 1
SPECIFICATION FairSpec
INVARIANTS
  SecondPrice
  PaidOnce
  NoSilentCharge
  ListedIsPaid
  ProvisionReachesPayee
PROPERTY EveryPutAnswered
