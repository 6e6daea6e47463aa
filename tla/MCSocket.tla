------------------------------ MODULE MCSocket ------------------------------
(* Bounds for Socket: two buffers of two bytes, so that a write or a read  *)
(* of two bytes can be published in two parts, and requests that are less  *)
(* than, equal to and more than the capacity.                              *)
EXTENDS SocketInv

MCCapacity == 2
MCRequests == 1..3
=============================================================================
