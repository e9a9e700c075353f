---------------------------- MODULE MCLimitedRelay ----------------------------
(***************************************************************************)
(* Instances of LimitedRelay.  r is connected to the market, a and c have *)
(* r for parent.  c was configured with a before, which has not forgotten  *)
(* it, and r has not measured c yet.                                       *)
(***************************************************************************)
EXTENDS LimitedRelay

CONSTANTS r, a, c

MCBuilds == {"edge_first", "edge_furthest", "edge_ward", "mincpurandom"}
MCParent == [i \in Nodes |-> IF i = r THEN NoNode ELSE r]
MCChildren == [i \in Nodes |-> CASE i = r -> {a, c} [] i = a -> {c} [] OTHER -> {}]
MCLatency ==
  [i \in Nodes |-> [j \in Nodes |->
     IF <<i, j>> = <<r, c>> THEN Unknown ELSE IF {i, j} = {a, c} THEN 2 ELSE 1]]
=============================================================================
