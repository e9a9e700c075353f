------------------------------- MODULE Overlay -------------------------------
(***************************************************************************)
(* The fog nodes as a bid request meets them: each knows the children that *)
(* registered with it and the parent it was configured with, and an        *)
(* estimate of the latency to most of them.                                *)
(*                                                                         *)
(* A request is named by the path it took, the sequence of the nodes that  *)
(* were asked in turn.  The market is the empty path.                      *)
(***************************************************************************)
EXTENDS Integers, SequencesExt

CONSTANTS
  Nodes,      \* fog nodes
  NoNode,     \* the parent of a node that is connected to the market
  Parent,     \* Parent[n]: the parent n is configured with
  Children,   \* Children[n]: the nodes that registered with n, never removed
  Latency,    \* Latency[n][m]: what n measured to its neighbour m, or Unknown
  Unknown,    \* no measure yet
  LatencyMax, \* the accumulated latency from which the SLA is not met
  NoInput,    \* the SLA announces inputs of size zero
  First       \* the node the client named to the market

ASSUME OverlayAssumption ==
  /\ IsFiniteSet(Nodes)
  /\ NoNode \notin Nodes
  /\ First \in Nodes
  /\ Parent \in [Nodes -> Nodes \cup {NoNode}]
  /\ Children \in [Nodes -> SUBSET Nodes]
  /\ \A n \in Nodes : n \notin Children[n] /\ Parent[n] \notin Children[n]
  /\ Unknown \notin Int
  /\ Latency \in [Nodes -> [Nodes -> Nat \cup {Unknown}]]
  /\ LatencyMax \in Nat
  /\ NoInput \in BOOLEAN

Market == <<>>
Entry == <<First>>
Paths == Seq(Nodes)

Neighbors(n) == Children[n] \cup ({Parent[n]} \ {NoNode})

(* node_origin of a request.  The market fills in the node it asks.        *)
Sender(p) == IF Len(p) > 1 THEN p[Len(p) - 1] ELSE Last(p)

Measured(p) == Latency[Sender(p)][Last(p)] # Unknown

Accumulated[p \in Paths] ==
  IF Len(p) < 2 THEN 0 ELSE Accumulated[Front(p)] + Latency[Sender(p)][Last(p)]

(* The estimated transfer time grows linearly with the accumulated latency *)
(* (the product of the losses starts from zero and stays there), so a      *)
(* bound on one is a bound on the other.  For inputs of size zero the      *)
(* estimate divides zero by zero, and nothing is above a bound.            *)
TooFar(p) == ~NoInput /\ Accumulated[p] > LatencyMax

\* Mutant of FollowUps: the request also goes back where it came from.
FollowUpsBack(p) == {q \in {Append(p, n) : n \in Neighbors(Last(p))} : Measured(q) /\ ~TooFar(q)}

(* The requests that the request p gives rise to.                          *)
FollowUps(p) ==
  {q \in {Append(p, n) : n \in Neighbors(Last(p)) \ {Sender(p)}} : Measured(q) /\ ~TooFar(q)}

-----------------------------------------------------------------------------
(* What the operators above are for: the neighbour relation is a tree seen *)
(* from First, when one can name for each node its neighbour towards First.*)
Towards(up) ==
  /\ up[First] = NoNode
  /\ \A n \in Nodes : \A m \in Neighbors(n) : m # n /\ (up[m] = n \/ up[n] = m)

IsTree == \E up \in [Nodes -> Nodes \cup {NoNode}] : Towards(up)

(* It is, from every node, when the parents form no circle and the         *)
(* children of a node are some of those that name it as their parent.      *)
Rooted ==
  /\ \A S \in SUBSET Nodes : S # {} => \E n \in S : Parent[n] \notin S
  /\ \A n \in Nodes : \A m \in Children[n] : Parent[m] = n
=============================================================================
