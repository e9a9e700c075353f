------------------------------- MODULE MCMarket -------------------------------
(***************************************************************************)
(* Instances of Market: the answers to a call for bids, node by node.      *)
(***************************************************************************)
EXTENDS Market

CONSTANTS n1, n2, n3

Bids(a, b, c) == [i \in Nodes |-> IF i = n1 THEN a ELSE IF i = n2 THEN b ELSE c]

\* A tie, the second bid of three in the last place, one bidder, nobody.
MCTenders == {Bids(2, 2, 3), Bids(1, 3, 2), Bids(NoBid, 3, NoBid), Bids(NoBid, NoBid, NoBid)}

\* n1 wins whatever is sold.
MCOneSeller == {Bids(1, 2, 3)}
=============================================================================
