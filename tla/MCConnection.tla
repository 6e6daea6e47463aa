---------------------------- MODULE MCConnection ----------------------------
(* Bounds for Connection: the two processes with up to two children and no *)
(* faults, and with up to one child and some of the faults.  CountModulus  *)
(* exceeds the counts reached without a fault.                             *)
EXTENDS ConnectionInv, TLC

CONSTANTS client, server, child1, child2

TwoChildren == {child1, child2}

MCModulus == 9

MCWorlds == {[faults |-> {}, children |-> TwoChildren],
             [faults |-> {"crash", "signal"}, children |-> {child1}],
             [faults |-> {"crash", "forkFails", "socket"}, children |-> {child1}]}
=============================================================================
