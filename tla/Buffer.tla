------------------------------- MODULE Buffer -------------------------------
(***************************************************************************)
(* The shared-memory ring buffer of source/tssx/buffer.c: one direction of *)
(* a connection.  One process calls buffer_write, the other buffer_read,   *)
(* with no lock: `write' is stored by the writer only, `read' by the       *)
(* reader only, and `size' is an atomic counter both of them add to.       *)
(*                                                                         *)
(* One action per access to shared state, so every interleaving of the two *)
(* calls is explored.  A memcpy is one action; NoOverlap says that the     *)
(* regions the two sides copy are always disjoint, which is what makes     *)
(* that sound.  The plain loads of the peer's index (a data race in C) are *)
(* single aligned 8-byte loads in the build: they return the old or the    *)
(* new value, as an interleaving does.  The wait for space or data         *)
(* (pause, yield, usleep) is a guard.                                      *)
(*                                                                         *)
(* A byte is represented by its position in the writer's stream; 0 is      *)
(* memory nobody wrote.                                                    *)
(***************************************************************************)
EXTENDS Channel, Sequences

CONSTANT
  MaxBytes     \* bound: bytes the writing application offers in all

ASSUME MaxBytesAssumption == MaxBytes \in Nat

VARIABLES
  size,        \* Buffer.size, "number of bytes used"
  read,        \* Buffer.read
  write,       \* Buffer.write
  mem,         \* the bytes that follow the Buffer header
  wpc,         \* where the writing process is in buffer_write
  wbytes,      \* its bytes_to_write
  wright,      \* its right_space
  accepted,    \* what the return values told the writing application
  rpc,         \* where the reading process is in buffer_read
  rbytes,      \* its bytes_to_read
  rright,      \* its right_space
  delivered,   \* the bytes copied to the reading application, in order
  taken        \* what the return values told the reading application

shared == <<size, read, write, mem>>
writer == <<wpc, wbytes, wright, accepted>>
reader == <<rpc, rbytes, rright, delivered, taken>>
vars   == <<shared, writer, reader>>

-----------------------------------------------------------------------------
(* create_buffer, buffer_clear *)

Init ==
  /\ size = 0 /\ read = 0 /\ write = 0
  /\ mem = [i \in 0..Capacity-1 |-> 0]
  /\ wpc = "idle" /\ wbytes = 0 /\ wright = 0 /\ accepted = 0
  /\ rpc = "idle" /\ rbytes = 0 /\ rright = 0 /\ delivered = <<>> /\ taken = 0

-----------------------------------------------------------------------------
(* buffer_write *)

WGoto(pc) == wpc' = pc /\ UNCHANGED reader

(* The application offers its next n bytes; the descriptor is blocking     *)
(* ("wait") or not ("try").                                                *)
WCall ==
  \E n \in Requests, pc \in {"wait", "try"} :
     /\ wpc = "idle"
     /\ accepted + n <= MaxBytes
     /\ wbytes' = n /\ wright' = 0
     /\ WGoto(pc)
     /\ UNCHANGED <<shared, accepted>>

WFreeSpace == Capacity - size

(* mutant: the request is not cut down to the free space *)
WSpaceUncut ==
  /\ wpc \in {"wait", "try"}
  /\ wpc = "wait" => WFreeSpace > 0
  /\ WGoto("branch")
  /\ UNCHANGED <<shared, wbytes, wright, accepted>>

(* mutant: a blocking write waits for room for the whole request *)
WSpaceAll ==
  /\ wpc \in {"wait", "try"}
  /\ wpc = "wait" => WFreeSpace >= wbytes
  /\ wbytes' = AtMost(wbytes, WFreeSpace)
  /\ WGoto("branch")
  /\ UNCHANGED <<shared, wright, accepted>>

WSpace ==
  /\ wpc \in {"wait", "try"}
  /\ wpc = "wait" => WFreeSpace > 0
  /\ wbytes' = AtMost(wbytes, WFreeSpace)
  /\ WGoto("branch")
  /\ UNCHANGED <<shared, wright, accepted>>

WReachesEnd == write >= read /\ wbytes >= Capacity - write

WBranch ==
  /\ wpc = "branch"
  /\ IF WReachesEnd THEN wright' = Capacity - write /\ WGoto("copyRight")
                    ELSE wright' = 0 /\ WGoto("copy")
  /\ UNCHANGED <<shared, wbytes, accepted>>

(* memcpy of the n stream bytes that follow position `from' *)
WMemcpy(n, from) ==
  mem' = [i \in 0..Capacity-1 |->
            IF i \in write..(write + n - 1) THEN from + 1 + (i - write)
                                            ELSE mem[i]]

WCopyRight ==
  /\ wpc = "copyRight"
  /\ WMemcpy(wright, accepted)
  /\ WGoto("wrap")
  /\ UNCHANGED <<size, read, write, wbytes, wright, accepted>>

(* _wrap_write: the index first, then the counter *)
WWrap ==
  /\ wpc = "wrap"
  /\ write' = 0
  /\ WGoto("addRight")
  /\ UNCHANGED <<size, read, mem, wbytes, wright, accepted>>

WAddRight ==
  /\ wpc = "addRight"
  /\ size' = size + wright
  /\ wbytes' = wbytes - wright
  /\ WGoto("copy")
  /\ UNCHANGED <<read, write, mem, wright, accepted>>

WCopy ==
  /\ wpc = "copy"
  /\ WMemcpy(wbytes, accepted + wright)
  /\ WGoto("advance")
  /\ UNCHANGED <<size, read, write, wbytes, wright, accepted>>

WAdvance ==
  /\ wpc = "advance"
  /\ write' = write + wbytes
  /\ WGoto("publish")
  /\ UNCHANGED <<size, read, mem, wbytes, wright, accepted>>

(* mutant: the counter is overwritten from a stale copy instead of added to *)
WPublishWhole ==
  /\ wpc = "publish"
  /\ size' = wbytes + wright
  /\ accepted' = accepted + wbytes + wright
  /\ WGoto("idle")
  /\ UNCHANGED <<read, write, mem, wbytes, wright>>

WPublish ==
  /\ wpc = "publish"
  /\ size' = size + wbytes
  /\ accepted' = accepted + wbytes + wright
  /\ WGoto("idle")
  /\ UNCHANGED <<read, write, mem, wbytes, wright>>

WriterStep == WSpace \/ WBranch \/ WCopyRight \/ WWrap \/ WAddRight
                \/ WCopy \/ WAdvance \/ WPublish

-----------------------------------------------------------------------------
(* buffer_read *)

RGoto(pc) == rpc' = pc /\ UNCHANGED writer

RCall ==
  \E n \in Requests, pc \in {"wait", "try"} :
     /\ rpc = "idle"
     /\ rbytes' = n /\ rright' = 0
     /\ RGoto(pc)
     /\ UNCHANGED <<shared, delivered, taken>>

(* mutant: the request is not cut down to the bytes there are *)
RSpaceUncut ==
  /\ rpc \in {"wait", "try"}
  /\ rpc = "wait" => size > 0
  /\ RGoto("branch")
  /\ UNCHANGED <<shared, rbytes, rright, delivered, taken>>

(* mutant: a blocking read waits for the whole request *)
RSpaceAll ==
  /\ rpc \in {"wait", "try"}
  /\ rpc = "wait" => size >= rbytes
  /\ rbytes' = AtMost(rbytes, size)
  /\ RGoto("branch")
  /\ UNCHANGED <<shared, rright, delivered, taken>>

RSpace ==
  /\ rpc \in {"wait", "try"}
  /\ rpc = "wait" => size > 0
  /\ rbytes' = AtMost(rbytes, size)
  /\ RGoto("branch")
  /\ UNCHANGED <<shared, rright, delivered, taken>>

RReachesEnd == read >= write /\ rbytes >= Capacity - read

RBranch ==
  /\ rpc = "branch"
  /\ IF RReachesEnd THEN rright' = Capacity - read /\ RGoto("copyRight")
                    ELSE rright' = 0 /\ RGoto("copy")
  /\ UNCHANGED <<shared, rbytes, delivered, taken>>

RMemcpy(n) == delivered' = delivered \o [i \in 1..n |-> mem[read + i - 1]]

RCopyRight ==
  /\ rpc = "copyRight"
  /\ RMemcpy(rright)
  /\ RGoto("wrap")
  /\ UNCHANGED <<shared, rbytes, rright, taken>>

(* _wrap_read *)
RWrap ==
  /\ rpc = "wrap"
  /\ read' = 0
  /\ RGoto("subRight")
  /\ UNCHANGED <<size, write, mem, rbytes, rright, delivered, taken>>

RSubRight ==
  /\ rpc = "subRight"
  /\ size' = size - rright
  /\ rbytes' = rbytes - rright
  /\ RGoto("copy")
  /\ UNCHANGED <<read, write, mem, rright, delivered, taken>>

RCopy ==
  /\ rpc = "copy"
  /\ RMemcpy(rbytes)
  /\ RGoto("advance")
  /\ UNCHANGED <<shared, rbytes, rright, taken>>

RAdvance ==
  /\ rpc = "advance"
  /\ read' = read + rbytes
  /\ RGoto("release")
  /\ UNCHANGED <<size, write, mem, rbytes, rright, delivered, taken>>

(* What buffer_read returns: -1 if nothing was read *)
RReturned == IF rbytes + rright = 0 THEN -1 ELSE rbytes + rright

(* The application moves on by what the call returned, if that was no error *)
RRelease ==
  /\ rpc = "release"
  /\ size' = size - rbytes
  /\ taken' = taken + (IF RReturned = -1 THEN 0 ELSE RReturned)
  /\ RGoto("idle")
  /\ UNCHANGED <<read, write, mem, rbytes, rright, delivered>>

ReaderStep == RSpace \/ RBranch \/ RCopyRight \/ RWrap \/ RSubRight
                \/ RCopy \/ RAdvance \/ RRelease

-----------------------------------------------------------------------------
Next == WCall \/ WriterStep \/ RCall \/ ReaderStep

Spec == Init /\ [][Next]_vars

(* A call that can go on does go on (the scheduler runs both processes),   *)
(* and the reading application keeps calling read.  Nothing makes the      *)
(* writing application write.                                              *)
Fairness == /\ WF_vars(WriterStep)
            /\ WF_vars(ReaderStep)
            /\ WF_vars(RCall)

FairSpec == Spec /\ Fairness

-----------------------------------------------------------------------------
(* Types *)

WriterPCs == {"idle", "wait", "try", "branch", "copyRight", "wrap", "addRight",
              "copy", "advance", "publish"}
ReaderPCs == {"idle", "wait", "try", "branch", "copyRight", "wrap", "subRight",
              "copy", "advance", "release"}

(* Every field keeps its type; in particular size never leaves             *)
(* 0..Capacity and both indices stay inside the ring, so that no index     *)
(* ever equals Capacity (buffer.c: _pointer_to would still allow it).      *)
TypeOK ==
  /\ size \in 0..Capacity
  /\ read \in 0..Capacity-1
  /\ write \in 0..Capacity-1
  /\ mem \in [0..Capacity-1 -> Nat]
  /\ wpc \in WriterPCs /\ wbytes \in Nat /\ wright \in Nat /\ accepted \in Nat
  /\ rpc \in ReaderPCs /\ rbytes \in Nat /\ rright \in Nat
  /\ delivered \in Seq(Nat) /\ taken \in Nat

-----------------------------------------------------------------------------
(* Safety *)

(* The bytes read are the bytes written, in order: none lost, repeated or  *)
(* reordered, whatever the interleaving, the wraps and the partial calls.  *)
InOrder == \A i \in 1..Len(delivered) : delivered[i] = i

(* The part of the ring each side is about to copy *)
WriterRegion == IF wpc = "copyRight" THEN write..(write + wright - 1)
                ELSE IF wpc = "copy" THEN write..(write + wbytes - 1)
                ELSE {}
ReaderRegion == IF rpc = "copyRight" THEN read..(read + rright - 1)
                ELSE IF rpc = "copy" THEN read..(read + rbytes - 1)
                ELSE {}

(* The two memcpys of a concurrent buffer_write and buffer_read never      *)
(* touch the same byte, and neither runs past the end of the ring.         *)
NoOverlap == /\ WriterRegion \cup ReaderRegion \subseteq 0..(Capacity - 1)
             /\ WriterRegion \cap ReaderRegion = {}

(* The buffer between two calls: size is "the number of bytes used"        *)
(* (buffer.h), that is, the bytes accepted and not yet taken, and the      *)
(* indices agree with it.                                                  *)
SizeIsBytesUsed ==
  wpc = "idle" /\ rpc = "idle" =>
    /\ size = accepted - taken
    /\ (read + size) % Capacity = write

(* The reading application, which only sees return values, knows how many  *)
(* bytes it has been given: -1 is returned only when nothing was copied.   *)
ReturnsWhatItCopied == rpc = "idle" => taken = Len(delivered)

-----------------------------------------------------------------------------
(* Refinement: the ring implements the abstract stream *)

(* The bytes visible to the reader: those of the finished calls, and the   *)
(* part before the end of the ring of a call that has wrapped.             *)
Sent == accepted + (IF wpc \in {"copy", "advance", "publish"} THEN wright ELSE 0)

Stream == INSTANCE ByteStream WITH sent <- Sent

(* What a call that has looked at `size' has still to move: the ring as    *)
(* the number of bytes in it.                                              *)
Putting == IF wpc \in {"idle", "wait", "try"} THEN 0 ELSE wbytes
Taking == IF rpc \in {"idle", "wait", "try"} THEN 0 ELSE rbytes

Count == INSTANCE ByteCount WITH unread <- size, putting <- Putting, taking <- Taking

(* Every step of the ring is a step of ByteStream, or changes nothing of   *)
(* it: accepted bytes never exceed the capacity and arrive in order.  And  *)
(* it is one of ByteCount: the room a write has seen stays its own until   *)
(* it has filled it, and so do the bytes a read has seen.                  *)
ImplementsStream == Stream!Spec /\ Count!Spec

-----------------------------------------------------------------------------
(* Liveness, under FairSpec *)

(* A write, blocking or not, returns: the reader makes room for it. *)
WriteReturns == wpc # "idle" ~> wpc = "idle"

(* Every byte made visible is eventually read, in particular the part      *)
(* published half-way through a call that wraps.                           *)
SentIsDelivered == \A n \in 1..MaxBytes : Sent >= n ~> Len(delivered) >= n
=============================================================================
