------------------------------ MODULE MCBoard ------------------------------
(* A small instance of Board for TLC: four callers of one upstream.        *)
EXTENDS Board, TLC
=============================================================================
