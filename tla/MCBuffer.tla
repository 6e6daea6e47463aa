------------------------------ MODULE MCBuffer ------------------------------
(***************************************************************************)
(* Bounds for Buffer: requests shorter than the ring, almost as long and   *)
(* longer than it, over enough bytes to go round it twice.                 *)
(***************************************************************************)
EXTENDS BufferInv

MCCapacity == 4
MCRequests == {1, 3, 5}
MCMaxBytes == 10
=============================================================================
