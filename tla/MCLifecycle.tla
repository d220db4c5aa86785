------------------------------ MODULE MCLifecycle ------------------------------
(* A small instance of Lifecycle, and through it of ModelCatalog, for TLC:    *)
(* one model, the refresh loop and a request.                                 *)
EXTENDS Lifecycle

CONSTANTS m1, loop0, r1

MCModels == {m1}
MCTasks == {loop0, r1}
===============================================================================
