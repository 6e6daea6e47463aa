----------------------------- MODULE ByteStream -----------------------------
(***************************************************************************)
(* What one direction of a TSSX connection promises: a bounded FIFO stream *)
(* of bytes.  Bytes are numbered from 1 in the order the sending process   *)
(* writes them and are represented by their number, so losing,             *)
(* duplicating, reordering or corrupting a byte all show in `delivered'.   *)
(***************************************************************************)
EXTENDS Integers, Sequences

CONSTANT Capacity     \* the most bytes in flight (Buffer.capacity)

VARIABLES sent,       \* number of bytes the stream has accepted
          delivered   \* the bytes handed to the receiving process, in order

vars == <<sent, delivered>>

InFlight == sent - Len(delivered)

Init == sent = 0 /\ delivered = <<>>

(* k more bytes are accepted: never more than there is room for. *)
Send(k) == /\ InFlight + k <= Capacity
           /\ sent' = sent + k
           /\ UNCHANGED delivered

(* The next k bytes of the stream are received, in order. *)
Receive(k) == /\ k <= InFlight
              /\ delivered' = delivered \o [i \in 1..k |-> Len(delivered) + i]
              /\ UNCHANGED sent

Next == \E k \in 1..Capacity : Send(k) \/ Receive(k)

Spec == Init /\ [][Next]_vars
=============================================================================
