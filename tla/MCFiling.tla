------------------------------ MODULE MCFiling ------------------------------
(* A small instance of Filing for TLC.                                     *)
EXTENDS Filing

CONSTANTS d1, d2, o1, r1, r2, t1, t2, t3, x
=============================================================================
