---------------------------- MODULE MCModelCatalog ----------------------------
(* A small instance of ModelCatalog for TLC: two models nobody configured,   *)
(* the refresh loop and two requests, over three changes of the inventory.   *)
EXTENDS ModelCatalog, TLC

CONSTANTS m1, m2, loop0, r1, r2

MCModels == {m1, m2}
MCTasks == {loop0, r1, r2}
MCSymmetry == Permutations({m1, m2}) \cup Permutations({r1, r2})
===============================================================================
