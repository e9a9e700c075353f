---------------------------- MODULE MCNeighborhood ----------------------------
(* Instance of Neighborhood: a chain of three nodes.                       *)
EXTENDS Neighborhood

CONSTANTS r, c, l

MCUp == (c :> r) @@ (l :> c)
MCWatched == {<<c, l>>}
=============================================================================
