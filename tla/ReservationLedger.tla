-------------------------- MODULE ReservationLedger --------------------------
(***************************************************************************)
(* What a fog node promises about the resources of its Kubernetes nodes,   *)
(* with no lock, no task and no backend: a function's SLA is reserved at   *)
(* most once, on one node that can carry it, and released at most once,    *)
(* and both change the node's counters by exactly the SLA's demand.        *)
(*                                                                         *)
(* This is the abstract specification that FunctionLife implements.        *)
(***************************************************************************)
EXTENDS Integers, FiniteSetsExt

CONSTANTS
  Slas,       \* SLA identifiers
  Nodes,      \* Kubernetes nodes of this fog node
  Resources,  \* the dimensions that are counted (cpu, ram)
  Demand,     \* Demand[s][r]: what one replica of s requests of r
  MaxReplica, \* MaxReplica[s]: how many replicas s may scale to
  Available,  \* Available[r]: what every node offers of r
  Free,       \* ledger entry of an SLA that was never reserved
  Released    \* ledger entry of an SLA whose reservation is over

VARIABLES
  ledger,     \* ledger[s]: the node s is reserved on, or Free, or Released
  used        \* used[n][r]: the counter of resource r of node n

vars == <<ledger, used>>

Init ==
  /\ ledger = [s \in Slas |-> Free]
  /\ used = [n \in Nodes |-> [r \in Resources |-> 0]]

Reserve(s, n) ==
  /\ ledger[s] = Free
  /\ \A r \in Resources : used[n][r] + MaxReplica[s] * Demand[s][r] < Available[r]
  /\ ledger' = [ledger EXCEPT ![s] = n]
  /\ used' = [used EXCEPT ![n] = [r \in Resources |-> used[n][r] + Demand[s][r]]]

Release(s, n) ==
  /\ ledger[s] = n
  /\ \A r \in Resources : used[n][r] >= Demand[s][r]
  /\ ledger' = [ledger EXCEPT ![s] = Released]
  /\ used' = [used EXCEPT ![n] = [r \in Resources |-> used[n][r] - Demand[s][r]]]

Next == \E s \in Slas, n \in Nodes : Reserve(s, n) \/ Release(s, n)

Spec == Init /\ [][Next]_vars

-----------------------------------------------------------------------------
Total(weight(_), S) == MapThenSumSet(weight, S)

(* The counters are the sum of the reservations in force. *)
Balanced ==
  \A n \in Nodes, r \in Resources :
    used[n][r] = Total(LAMBDA s : Demand[s][r], {s \in Slas : ledger[s] = n})
=============================================================================
