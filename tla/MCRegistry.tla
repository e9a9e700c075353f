------------------------------ MODULE MCRegistry ------------------------------
(***************************************************************************)
(* Instances of Registry: a call is a record of its subject, the parent it *)
(* names and a number that tells repeated calls apart.                     *)
(***************************************************************************)
EXTENDS Registry

CONSTANTS r, q, x, y, z

Call(i, p, n) == [subject |-> i, under |-> p, try |-> n]

\* A root, a child that registers twice, a second child, a grandchild, and
\* another node that claims to be the root.
MCFamily ==
  {Call(r, NoParent, 1), Call(x, r, 1), Call(x, r, 2), Call(y, r, 1), Call(z, x, 1),
   Call(q, NoParent, 1)}

\* A root, a child, a grandchild that registers twice and then moves up to the
\* root, and another node that claims to be the root.
MCRivals ==
  {Call(r, NoParent, 1), Call(x, r, 1), Call(z, x, 1), Call(z, x, 2), Call(z, r, 3),
   Call(q, NoParent, 1)}

\* Its first registration is cut off from its caller.
MCFragile == {Call(z, x, 1)}

MCSubject == [c \in Calls |-> c.subject]
MCUnder == [c \in Calls |-> c.under]
=============================================================================
