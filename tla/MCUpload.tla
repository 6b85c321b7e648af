------------------------------ MODULE MCUpload ------------------------------
(* A small instance of Upload for TLC: every upload wants the name x.pdf.  *)
EXTENDS Upload

CONSTANTS u1, u2, u3, p1, p2, x, x1, x2, x3, h

LastHasOwnPage == [u \in Uploads |-> IF u = u3 THEN p2 ELSE p1]

WantX == [u \in Uploads |-> x]

Numbered == [n \in Names |-> IF n = x THEN <<x, x1, x2, x3>> ELSE <<n>>]
=============================================================================
