\* Two SLAs of up to two replicas: each passes the check, together they do not fit.
CONSTANTS
  Slas = {a, b}
  Heavy = {a, b}
  Nodes = {n1}
  NoNode = NoNode
  Returning = {}
  Free = Free
  Released = Released
  Replicas = 2
  Room = 7
  Demand <- MCDemand
  MaxReplica <- MCMaxReplica
  Available <- MCAvailable
SPECIFICATION Spec
INVARIANT ReplicasFit
