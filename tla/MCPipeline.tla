----------------------------- MODULE MCPipeline -----------------------------
(* Small instances of Pipeline for TLC.                                    *)
EXTENDS Pipeline

CONSTANTS a, b, d1, d2, d3, r1, r2

(* Every name has a stem of its own.                                       *)
OwnStem == [n \in Names |-> n]
=============================================================================
