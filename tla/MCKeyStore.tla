----------------------------- MODULE MCKeyStore -----------------------------
(* A small instance of KeyStore for TLC: two admin commands and two       *)
(* requests of one gateway.                                               *)
EXTENDS KeyStore, TLC

CONSTANT g1

MCGatewayOf == [r \in Requests |-> g1]
Symmetry == Permutations(Admins) \cup Permutations(Requests) \cup Permutations(Names)
              \cup Permutations(Draws) \cup Permutations(Inodes)
=============================================================================
