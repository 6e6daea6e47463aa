----------------------------- MODULE ByteCount ------------------------------
(***************************************************************************)
(* One buffer of a connection as the number of bytes in it: what a call of *)
(* read or write may count on while the other side is in a call of its     *)
(* own.  A write is given room once, for all the bytes it will move, and   *)
(* moves them in parts; so is a read.  Nobody else uses up that room, or   *)
(* those bytes.                                                            *)
(***************************************************************************)
EXTENDS Integers

CONSTANT Capacity     \* the most bytes in the buffer (Buffer.capacity)

VARIABLES unread,     \* number of bytes in the buffer (Buffer.size)
          putting,    \* bytes a write has room for and has not moved yet
          taking      \* bytes a read will take and has not taken yet

vars == <<unread, putting, taking>>

Init == unread = 0 /\ putting = 0 /\ taking = 0

(* A write begins, or a read: with what there is, or less. *)
Reserve(n) == /\ putting = 0 /\ n <= Capacity - unread
              /\ putting' = n
              /\ UNCHANGED <<unread, taking>>

Claim(n) == /\ taking = 0 /\ n <= unread
            /\ taking' = n
            /\ UNCHANGED <<unread, putting>>

(* A part of it is moved. *)
Put(n) == /\ n <= putting
          /\ putting' = putting - n /\ unread' = unread + n
          /\ UNCHANGED taking

Take(n) == /\ n <= taking
           /\ taking' = taking - n /\ unread' = unread - n
           /\ UNCHANGED putting

Next == \E n \in 1..Capacity : Reserve(n) \/ Claim(n) \/ Put(n) \/ Take(n)

Spec == Init /\ [][Next]_vars
=============================================================================
