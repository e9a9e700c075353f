--------------------------- MODULE MCAuctionRelay ---------------------------
(***************************************************************************)
(* Instances of AuctionRelay.  r is connected to the market.               *)
(***************************************************************************)
EXTENDS AuctionRelay

CONSTANTS r, a, b, c, d

\* A table of the nodes, in the order r, a, b, c, d.
Table(row) == [i \in Nodes |->
  row[CASE i = r -> 1 [] i = a -> 2 [] i = b -> 3 [] i = c -> 4 [] i = d -> 5]]

\* a and b below r, c below a, d below b.
TreeParent == Table(<<NoNode, r, r, a, b>>)
TreeChildren == Table(<<{a, b}, {c}, {d}, {}, {}>>)

\* The way between r and b takes two units, any other one.
Uneven == [i \in Nodes |-> [j \in Nodes |-> IF {i, j} = {r, b} THEN 2 ELSE 1]]
=============================================================================
