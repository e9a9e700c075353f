------------------------------- MODULE MCBidDesk -------------------------------
(***************************************************************************)
(* Instance of BidDesk: two SLAs of one duration and one that is over at   *)
(* once, whose price is zero on an idle node.                              *)
(***************************************************************************)
EXTENDS BidDesk

CONSTANTS a, b, c

MCDuration == [s \in Slas |-> IF s = c THEN 0 ELSE 1]
MCSymmetry == Permutations({a, b})
MCCpu == [s \in Slas |-> 1]
=============================================================================
