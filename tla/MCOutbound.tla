------------------------------ MODULE MCOutbound ------------------------------
(* A small instance of Outbound for TLC: a retried call beside one of each    *)
(* other mode, one retry, and a breaker that opens on two faults.             *)
EXTENDS Outbound, TLC

CONSTANTS c1, c2

MCCalls == {c1, c2}
MCModes == (c1 :> {"do"}) @@ (c2 :> {"once", "consumed", "plain", "probe"})
===============================================================================
