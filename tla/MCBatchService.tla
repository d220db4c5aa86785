--------------------------- MODULE MCBatchService ---------------------------
(* Small instances of BatchService for TLC: two requests, one in each of   *)
(* two gateways that share a root and its one batch.                       *)
EXTENDS BatchService, TLC

CONSTANTS p1, p2, g1, g2

MCGatewayOf == (p1 :> g1) @@ (p2 :> g2)

(* File ids are interchangeable, and so are the gateways, each with its    *)
(* request.                                                                *)
Swap == (p1 :> p2) @@ (p2 :> p1) @@ (g1 :> g2) @@ (g2 :> g1)
Symmetry == Permutations(Files) \cup {Swap}
=============================================================================
