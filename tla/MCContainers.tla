---------------------------- MODULE MCContainers ----------------------------
(* Small containers: capacities double twice, and the tables resize on     *)
(* insertions and on removals; strings and keys share buckets.             *)
EXTENDS ContainersInv, TLC

CONSTANTS e1, e2, s1, s2, s3, s4, s5, s6

MCHash == (s1 :> 0 @@ s2 :> 2 @@ s3 :> 5 @@ s4 :> 8 @@ s5 :> 9 @@ s6 :> 13)

=============================================================================
