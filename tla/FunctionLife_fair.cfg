\* Two SLAs over two Kubernetes nodes: the ledger, and what must happen in the end.
CONSTANTS
  Slas = {a, b}
  Heavy = {a, b}
  Nodes = {n1, n2}
  NoNode = NoNode
  Returning = {a}
  Free = Free
  Released = Released
  Replicas = 1
  Room = 4
  Demand <- MCDemand
  MaxReplica <- MCMaxReplica
  Available <- MCAvailable
SPECIFICATION FairSpec
PROPERTIES
  ImplementsLedger
  EveryPaymentEnds
  ProvisionReturns
