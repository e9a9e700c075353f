----------------------------- MODULE CallForBids -----------------------------
(***************************************************************************)
(* What the market is promised when it calls for bids, whatever the fog    *)
(* nodes do among themselves: one answer or an error, and every node in    *)
(* the answer remembers a proposal.  A node may remember one that is in no *)
(* answer, and may do so late.                                             *)
(*                                                                         *)
(* AuctionRelay and LimitedRelay implement it.                             *)
(***************************************************************************)
CONSTANT Nodes

VARIABLES
  outcome,   \* "awaited", then "answered" or "failed"
  offers,    \* the nodes that remember a proposal for the SLA
  bidders    \* the nodes in the answer

vars == <<outcome, offers, bidders>>

Init == outcome = "awaited" /\ offers = {} /\ bidders = {}

Propose(n) ==
  /\ offers' = offers \cup {n}
  /\ UNCHANGED <<outcome, bidders>>

Answer(b) ==
  /\ outcome = "awaited"
  /\ outcome' = "answered"
  /\ b \subseteq offers
  /\ bidders' = b
  /\ UNCHANGED offers

Fail ==
  /\ outcome = "awaited"
  /\ outcome' = "failed"
  /\ UNCHANGED <<offers, bidders>>

Next ==
  \/ \E n \in Nodes : Propose(n)
  \/ \E b \in SUBSET Nodes : Answer(b)
  \/ Fail

Spec == Init /\ [][Next]_vars
=============================================================================
