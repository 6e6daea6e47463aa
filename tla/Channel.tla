------------------------------ MODULE Channel -------------------------------
(***************************************************************************)
(* What the models of a connection's buffers share: Buffer looks into one  *)
(* of them, Socket at the two of a connection from outside.                *)
(***************************************************************************)
EXTENDS Integers

CONSTANTS
  Capacity,    \* Buffer.capacity
  Requests     \* byte counts the applications pass in their calls

ASSUME CapacityAssumption == Capacity \in Nat \ {0}
ASSUME RequestsAssumption == Requests \subseteq Nat \ {0}

AtMost(n, limit) == IF limit < n THEN limit ELSE n
=============================================================================
