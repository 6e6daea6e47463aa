----------------------------- MODULE BufferInv ------------------------------
(***************************************************************************)
(* Why buffer.c works without a lock: the inductive invariant of Buffer.   *)
(*                                                                         *)
(* The plain indices run ahead of the atomic counter.  Between             *)
(* `write += n' and `size += n' the writer's index is past bytes no reader *)
(* may count on, and after a wrap it is 0 although the counter still says  *)
(* that the end of the ring is free.  PubWrite and PubRead are the indices *)
(* as far as `size' knows about them; between them lie exactly `size'      *)
(* bytes.                                                                  *)
(***************************************************************************)
EXTENDS Buffer

PubWrite == IF wpc = "addRight" THEN Capacity - wright
            ELSE IF wpc = "publish" THEN write - wbytes
            ELSE write

PubRead == IF rpc = "subRight" THEN Capacity - rright
           ELSE IF rpc = "release" THEN read - rbytes
           ELSE read

(* Bytes copied into the ring that `size' does not count yet *)
Pending == IF wpc \in {"wrap", "addRight"} THEN wright
           ELSE IF wpc \in {"advance", "publish"} THEN wbytes
           ELSE 0

(* Bytes copied out of the ring that `size' still counts *)
Held == IF rpc \in {"wrap", "subRight"} THEN rright
        ELSE IF rpc \in {"advance", "release"} THEN rbytes
        ELSE 0

(* k places after index b, around the ring *)
Pos(b, k) == IF b + k < Capacity THEN b + k ELSE b + k - Capacity

Ring ==
  /\ PubWrite \in 0..Capacity-1
  /\ PubRead \in 0..Capacity-1
  /\ \/ PubWrite = PubRead + size
     \/ PubWrite = PubRead + size - Capacity

(* From the load of `size' on, the writer keeps to the space it saw *)
WriterInv ==
  /\ wpc \in {"branch", "copyRight", "wrap", "addRight", "copy", "advance",
              "publish"} => wbytes <= Capacity - size
  /\ wpc \in {"copyRight", "wrap"} => wright = Capacity - write /\ wright <= wbytes
  /\ wpc = "addRight" => write = 0 /\ wright \in 1..wbytes
  /\ wpc \in {"copy", "advance"} => write + wbytes < Capacity
  /\ wpc = "publish" => wbytes <= write
  /\ wright <= Capacity

ReaderInv ==
  /\ rpc \in {"branch", "copyRight", "wrap", "subRight", "copy", "advance",
              "release"} => rbytes <= size
  /\ rpc \in {"copyRight", "wrap"} => rright = Capacity - read /\ rright <= rbytes
  /\ rpc = "subRight" => read = 0 /\ rright \in 1..rbytes
  /\ rpc \in {"copy", "advance"} => read + rbytes < Capacity
  /\ rpc = "release" => rbytes <= read
  /\ rright <= Capacity

(* The bytes `size' counts follow those the reader has given back, and the *)
(* bytes the writer has copied but not published follow them.              *)
CountInv == Sent = (Len(delivered) - Held) + size

UnreadInv ==
  \A k \in 0..size-1 :
     mem[Pos(PubRead, k)] = (Len(delivered) - Held) + k + 1

PendingInv == \A k \in 0..Pending-1 : mem[PubWrite + k] = Sent + k + 1

(* Where the caller's count stands inside a call *)
TakenInv ==
  taken = Len(delivered)
            - Held
            - (IF rpc \in {"copy", "advance", "release"} THEN rright ELSE 0)

Indices  == Ring /\ WriterInv /\ ReaderInv
Counts   == CountInv /\ TakenInv
Contents == UnreadInv /\ PendingInv

(* The inductive invariant: while either call is under way its indices,    *)
(* its reservation and the contents of the ring agree with `size'.         *)
IInv == TypeOK /\ Indices /\ Counts /\ Contents /\ InOrder
=============================================================================
