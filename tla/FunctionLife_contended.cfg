\* Three SLAs on one Kubernetes node that cannot hold both heavy ones.
CONSTANTS
  Slas = {a, b, c}
  Heavy = {a, b}
  Nodes = {n1}
  NoNode = NoNode
  Returning = {c}
  Free = Free
  Released = Released
  Replicas = 1
  Room = 4
  Demand <- MCDemand
  MaxReplica <- MCMaxReplica
  Available <- MCAvailable
SYMMETRY Alike
SPECIFICATION Spec
INVARIANTS
  Accounting
  NoPanic
  Capacity
  OrphanOnlyAfterFault
  RunningIsDeployed
PROPERTIES
  LifecycleOrder
