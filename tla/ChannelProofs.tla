---------------------------- MODULE ChannelProofs ---------------------------
(***************************************************************************)
(* Proofs about the buffers of a connection: the ring buffer of            *)
(* source/tssx/buffer.c, and the two ends of an established connection     *)
(* that read, write, poll and close, for every capacity, every set of      *)
(* request sizes and every number of bytes.                                *)
(*                                                                         *)
(* Buffer.  The invariant of BufferInv is inductive: one lemma for each    *)
(* step of buffer_write and buffer_read, and in each one step for the      *)
(* indices and reservations, one for the counts, one for each half of the  *)
(* contents (published and not yet read; copied and not yet published) and *)
(* one for the order of the bytes read.                                    *)
(*                                                                         *)
(* Socket.  The invariant of SocketInv is inductive.                       *)
(*                                                                         *)
(* Both implement ByteCount, which is why Socket may look at a buffer as   *)
(* the number of bytes in it.                                              *)
(***************************************************************************)
EXTENDS BufferInv, SocketInv, SequenceTheorems, TLAPS

(* Whatever the writer may still use of the free space behind PubWrite     *)
(* holds no unread byte.                                                   *)
LEMMA FreeIsFree ==
  ASSUME TypeOK, Ring, NEW n \in 0..(Capacity - size), NEW k \in 0..(size - 1)
  PROVE  /\ Pos(PubRead, k) \in 0..(Capacity - 1)
         /\ Pos(PubRead, k) \notin PubWrite..(PubWrite + n - 1)
BY CapacityAssumption DEF TypeOK, Ring, Pos

(* Counting on from the unread bytes, the ring continues at PubWrite.      *)
LEMMA FreeFollowsUnread ==
  ASSUME TypeOK, Ring, NEW k \in size..(Capacity - 1),
         PubWrite + (k - size) < Capacity
  PROVE  Pos(PubRead, k) = PubWrite + (k - size)
BY CapacityAssumption DEF TypeOK, Ring, Pos

(* The counts of bytes are natural numbers.                                *)
LEMMA CountTypes ==
  ASSUME TypeOK
  PROVE  Held \in Nat /\ Sent \in Nat /\ Len(delivered) \in Nat
BY DEF TypeOK, Held, Sent

(* What one memcpy of buffer_read does to the bytes the application has.   *)
LEMMA ReadAppends ==
  ASSUME TypeOK, NEW n \in Nat, read + n <= Capacity, RMemcpy(n)
  PROVE  /\ delivered' \in Seq(Nat)
         /\ Len(delivered') = Len(delivered) + n
         /\ \A i \in 1..Len(delivered) : delivered'[i] = delivered[i]
         /\ \A i \in 1..n : delivered'[Len(delivered) + i] = mem[read + i - 1]
<1> DEFINE bytes == [i \in 1..n |-> mem[read + i - 1]]
<1>1. bytes \in Seq(Nat) /\ Len(bytes) = n
  BY CapacityAssumption DEF TypeOK
<1>2. delivered \in Seq(Nat) /\ delivered' = delivered \o bytes
  BY DEF TypeOK, RMemcpy
<1> QED BY <1>1, <1>2, ConcatProperties

(* The bytes a memcpy of buffer_read copies are the next ones of the       *)
(* stream.                                                                 *)
LEMMA ReadsNext ==
  ASSUME TypeOK, UnreadInv, Held = 0, PubRead = read,
         NEW n \in 0..size, read + n <= Capacity
  PROVE  \A i \in 1..n : mem[read + i - 1] = Len(delivered) + i
<1> TAKE i \in 1..n
<1>1. i - 1 \in 0..(size - 1) /\ Pos(PubRead, i - 1) = read + i - 1
  BY CapacityAssumption DEF TypeOK, Pos
<1>2. mem[Pos(PubRead, i - 1)] = (Len(delivered) - Held) + (i - 1) + 1
  BY <1>1 DEF UnreadInv
<1> QED BY <1>1, <1>2 DEF TypeOK

(* So a memcpy of buffer_read keeps the stream in order.                   *)
LEMMA ReadInOrder ==
  ASSUME TypeOK, InOrder, UnreadInv, Held = 0, PubRead = read,
         NEW n \in 0..size, read + n <= Capacity, RMemcpy(n)
  PROVE  InOrder'
<1>1. n \in Nat /\ Len(delivered) \in Nat BY CountTypes DEF TypeOK
<1>2. /\ Len(delivered') = Len(delivered) + n
      /\ \A i \in 1..Len(delivered) : delivered'[i] = i
      /\ \A i \in 1..n : delivered'[Len(delivered) + i] = Len(delivered) + i
  BY <1>1, ReadAppends, ReadsNext DEF InOrder
<1> SUFFICES ASSUME NEW i \in 1..Len(delivered') PROVE delivered'[i] = i
  BY DEF InOrder
<1>3. CASE i <= Len(delivered) BY <1>1, <1>2, <1>3
<1>4. CASE i > Len(delivered)
  <2>1. /\ i - Len(delivered) \in 1..n
        /\ Len(delivered) + (i - Len(delivered)) = i
    BY <1>1, <1>2, <1>4
  <2> QED BY <1>2, <2>1
<1> QED BY <1>1, <1>2, <1>3, <1>4

-----------------------------------------------------------------------------
(* A call of buffer_write preserves the invariant.                         *)
LEMMA WCallKeeps == ASSUME IInv, WCall PROVE IInv'
<1> USE CapacityAssumption
        DEF IInv, Indices, Counts, Contents,
            WCall, WGoto, shared, writer, reader
<1>1. TypeOK' /\ Indices'
  <2>1. TypeOK'
    BY RequestsAssumption DEF TypeOK, WriterPCs
  <2>2. Indices'
    BY RequestsAssumption DEF TypeOK, Ring, WriterInv, ReaderInv, PubWrite,
       PubRead
  <2> QED BY <2>1, <2>2
<1>2. Counts'
  BY DEF TypeOK, WriterInv, ReaderInv, CountInv, TakenInv, Sent, Held
<1>3. UnreadInv' BY DEF TypeOK, UnreadInv, PubRead, Held, Pos
<1>4. PendingInv' BY DEF TypeOK, WriterInv, PendingInv, PubWrite, Pending, Sent
<1>5. InOrder' BY DEF InOrder
<1> QED BY <1>1, <1>2, <1>3, <1>4, <1>5

(* Loading the free space and cutting the request down to it preserves the *)
(* invariant.                                                              *)
LEMMA WSpaceKeeps == ASSUME IInv, WSpace PROVE IInv'
<1> USE CapacityAssumption
        DEF IInv, Indices, Counts, Contents,
            WSpace, AtMost, WFreeSpace, WGoto, shared, writer, reader
<1>1. TypeOK' /\ Indices'
  BY DEF TypeOK, Ring, WriterInv, ReaderInv, WriterPCs, ReaderPCs, PubWrite,
         PubRead
<1>2. Counts'
  BY DEF TypeOK, WriterInv, ReaderInv, CountInv, TakenInv, Sent, Held
<1>3. UnreadInv' BY DEF TypeOK, UnreadInv, PubRead, Held, Pos
<1>4. PendingInv' BY DEF TypeOK, WriterInv, PendingInv, PubWrite, Pending, Sent
<1>5. InOrder' BY DEF InOrder
<1> QED BY <1>1, <1>2, <1>3, <1>4, <1>5

(* Deciding whether the write reaches the end of the ring preserves the    *)
(* invariant.                                                              *)
LEMMA WBranchKeeps == ASSUME IInv, WBranch PROVE IInv'
<1> USE CapacityAssumption
        DEF IInv, Indices, Counts, Contents,
            WBranch, WReachesEnd, WGoto, shared, writer, reader
<1>a. TypeOK'
  BY DEF TypeOK, Ring, WriterInv, ReaderInv, WriterPCs, ReaderPCs, PubWrite,
         PubRead
<1>b. Ring'
  BY DEF TypeOK, Ring, WriterInv, ReaderInv, WriterPCs, ReaderPCs, PubWrite,
         PubRead
<1>c. WriterInv'
  BY DEF TypeOK, Ring, WriterInv, ReaderInv, WriterPCs, ReaderPCs, PubWrite,
         PubRead
<1>d. ReaderInv'
  BY DEF TypeOK, Ring, WriterInv, ReaderInv, WriterPCs, ReaderPCs, PubWrite,
         PubRead
<1>1. TypeOK' /\ Indices' BY <1>a, <1>b, <1>c, <1>d
<1>2. Counts'
  BY DEF TypeOK, WriterInv, ReaderInv, CountInv, TakenInv, Sent, Held
<1>3. UnreadInv' BY DEF TypeOK, UnreadInv, PubRead, Held, Pos
<1>4. PendingInv' BY DEF TypeOK, WriterInv, PendingInv, PubWrite, Pending, Sent
<1>5. InOrder' BY DEF InOrder
<1> QED BY <1>1, <1>2, <1>3, <1>4, <1>5

(* The memcpy of the part before the end of the ring preserves the         *)
(* invariant.                                                              *)
LEMMA WCopyRightKeeps == ASSUME IInv, WCopyRight PROVE IInv'
<1> USE CapacityAssumption
        DEF IInv, Indices, Counts, Contents,
            WCopyRight, WMemcpy, WGoto, shared, writer, reader
<1>1. TypeOK' /\ Indices'
  BY DEF TypeOK, Ring, WriterInv, ReaderInv, WriterPCs, ReaderPCs, PubWrite,
         PubRead
<1>2. Counts'
  BY DEF TypeOK, WriterInv, ReaderInv, CountInv, TakenInv, Sent, Held
<1>3. UnreadInv'
  <2>1. wright \in 0..(Capacity - size) /\ PubWrite = write
    BY DEF TypeOK, WriterInv, PubWrite
  <2>2. \A k \in 0..(size - 1) : mem'[Pos(PubRead, k)] = mem[Pos(PubRead, k)]
     BY <2>1, FreeIsFree DEF TypeOK
  <2> QED BY <2>2 DEF UnreadInv, PubRead, Held, Pos
<1>4. PendingInv' BY DEF TypeOK, WriterInv, PendingInv, PubWrite, Pending, Sent
<1>5. InOrder' BY DEF InOrder
<1> QED BY <1>1, <1>2, <1>3, <1>4, <1>5

(* The store write = 0 of _wrap_write preserves the invariant.             *)
LEMMA WWrapKeeps == ASSUME IInv, WWrap PROVE IInv'
<1> USE CapacityAssumption
        DEF IInv, Indices, Counts, Contents,
            WWrap, WGoto, shared, writer, reader
<1>1. TypeOK' /\ Indices'
  BY DEF TypeOK, Ring, WriterInv, ReaderInv, WriterPCs, ReaderPCs, PubWrite,
         PubRead
<1>2. Counts'
  BY DEF TypeOK, WriterInv, ReaderInv, CountInv, TakenInv, Sent, Held
<1>3. UnreadInv' BY DEF TypeOK, UnreadInv, PubRead, Held, Pos
<1>4. PendingInv'
  <2>1. UNCHANGED <<mem, PubWrite, Pending, Sent>>
    BY DEF TypeOK, WriterInv, PubWrite, Pending, Sent
  <2> QED BY <2>1 DEF PendingInv
<1>5. InOrder' BY DEF InOrder
<1> QED BY <1>1, <1>2, <1>3, <1>4, <1>5

(* The atomic add of _wrap_write preserves the invariant.                  *)
LEMMA WAddRightKeeps == ASSUME IInv, WAddRight PROVE IInv'
<1> USE CapacityAssumption
        DEF IInv, Indices, Counts, Contents,
            WAddRight, WGoto, shared, writer, reader
<1>1. TypeOK' /\ Indices'
  BY DEF TypeOK, Ring, WriterInv, ReaderInv, WriterPCs, ReaderPCs, PubWrite,
         PubRead
<1>2a. CountInv'
  <2>1. Sent' = Sent + wright BY DEF TypeOK, Sent
  <2>2. UNCHANGED <<Held, delivered>> BY DEF Held
  <2> QED BY <2>1, <2>2, CountTypes DEF TypeOK, CountInv
<1>2b. TakenInv' BY DEF TypeOK, WriterInv, ReaderInv, TakenInv, Held
<1>2. Counts' BY <1>2a, <1>2b
<1>3. UnreadInv'
  <2>1. /\ size' = size + wright
        /\ PubWrite + wright <= Capacity /\ Pending = wright
    BY DEF TypeOK, WriterInv, PubWrite, Pending
  <2>2. UNCHANGED <<mem, PubRead, delivered, Held>> BY DEF PubRead, Held
  <2>3. SUFFICES ASSUME NEW k \in 0..(size' - 1)
                 PROVE  mem[Pos(PubRead, k)] = (Len(delivered) - Held) + k + 1
    BY <2>2 DEF UnreadInv, Pos
  <2>4. CASE k < size BY <2>4 DEF UnreadInv, TypeOK
  <2>5. CASE k >= size
    <3>1. k \in size..(Capacity - 1) /\ k - size \in 0..(Pending - 1)
      BY <1>1, <2>1, <2>5 DEF TypeOK
    <3>2. Pos(PubRead, k) = PubWrite + (k - size)
      BY <2>1, <3>1, FreeFollowsUnread DEF TypeOK, Ring, Indices
    <3>3. mem[Pos(PubRead,k)] = Sent + (k - size) + 1
      BY <3>1, <3>2 DEF PendingInv
    <3> QED BY <3>1, <3>3, CountTypes DEF CountInv, TypeOK
  <2> QED BY <2>4, <2>5 DEF TypeOK
<1>4. PendingInv' BY DEF TypeOK, WriterInv, PendingInv, PubWrite, Pending, Sent
<1>5. InOrder' BY DEF InOrder
<1> QED BY <1>1, <1>2, <1>3, <1>4, <1>5

(* The second (or only) memcpy of buffer_write preserves the invariant.    *)
LEMMA WCopyKeeps == ASSUME IInv, WCopy PROVE IInv'
<1> USE CapacityAssumption
        DEF IInv, Indices, Counts, Contents,
            WCopy, WMemcpy, WGoto, shared, writer, reader
<1>1. TypeOK' /\ Indices'
  BY DEF TypeOK, Ring, WriterInv, ReaderInv, WriterPCs, ReaderPCs, PubWrite,
         PubRead
<1>2. Counts'
  BY DEF TypeOK, WriterInv, ReaderInv, CountInv, TakenInv, Sent, Held
<1>3. UnreadInv'
  <2>1. wbytes \in 0..(Capacity - size) /\ PubWrite = write
    BY DEF TypeOK, WriterInv, PubWrite
  <2>2. \A k \in 0..(size - 1) : mem'[Pos(PubRead, k)] = mem[Pos(PubRead, k)]
     BY <2>1, FreeIsFree DEF TypeOK
  <2> QED BY <2>2 DEF UnreadInv, PubRead, Held, Pos
<1>4. PendingInv' BY DEF TypeOK, WriterInv, PendingInv, PubWrite, Pending, Sent
<1>5. InOrder' BY DEF InOrder
<1> QED BY <1>1, <1>2, <1>3, <1>4, <1>5

(* The store write += bytes preserves the invariant.                       *)
LEMMA WAdvanceKeeps == ASSUME IInv, WAdvance PROVE IInv'
<1> USE CapacityAssumption
        DEF IInv, Indices, Counts, Contents,
            WAdvance, WGoto, shared, writer, reader
<1>1. TypeOK' /\ Indices'
  BY DEF TypeOK, Ring, WriterInv, ReaderInv, WriterPCs, ReaderPCs, PubWrite,
         PubRead
<1>2. Counts'
  BY DEF TypeOK, WriterInv, ReaderInv, CountInv, TakenInv, Sent, Held
<1>3. UnreadInv' BY DEF TypeOK, UnreadInv, PubRead, Held, Pos
<1>4. PendingInv'
  <2>1. UNCHANGED <<mem, PubWrite, Pending, Sent>>
    BY DEF TypeOK, WriterInv, PubWrite, Pending, Sent
  <2> QED BY <2>1 DEF PendingInv
<1>5. InOrder' BY DEF InOrder
<1> QED BY <1>1, <1>2, <1>3, <1>4, <1>5

(* The atomic add that publishes the bytes, and the return, preserves the  *)
(* invariant.                                                              *)
LEMMA WPublishKeeps == ASSUME IInv, WPublish PROVE IInv'
<1> USE CapacityAssumption
        DEF IInv, Indices, Counts, Contents,
            WPublish, WGoto, shared, writer, reader
<1>1. TypeOK' /\ Indices'
  BY DEF TypeOK, Ring, WriterInv, ReaderInv, WriterPCs, ReaderPCs, PubWrite,
         PubRead
<1>2a. CountInv'
  <2>1. Sent' = Sent + wbytes BY DEF TypeOK, Sent
  <2>2. UNCHANGED <<Held, delivered>> BY DEF Held
  <2> QED BY <2>1, <2>2, CountTypes DEF TypeOK, CountInv
<1>2b. TakenInv' BY DEF TypeOK, WriterInv, ReaderInv, TakenInv, Held
<1>2. Counts' BY <1>2a, <1>2b
<1>3. UnreadInv'
  <2>1. /\ size' = size + wbytes
        /\ PubWrite + wbytes <= Capacity /\ Pending = wbytes
    BY DEF TypeOK, WriterInv, PubWrite, Pending
  <2>2. UNCHANGED <<mem, PubRead, delivered, Held>> BY DEF PubRead, Held
  <2>3. SUFFICES ASSUME NEW k \in 0..(size' - 1)
                 PROVE  mem[Pos(PubRead, k)] = (Len(delivered) - Held) + k + 1
    BY <2>2 DEF UnreadInv, Pos
  <2>4. CASE k < size BY <2>4 DEF UnreadInv, TypeOK
  <2>5. CASE k >= size
    <3>1. k \in size..(Capacity - 1) /\ k - size \in 0..(Pending - 1)
      BY <1>1, <2>1, <2>5 DEF TypeOK
    <3>2. Pos(PubRead, k) = PubWrite + (k - size)
      BY <2>1, <3>1, FreeFollowsUnread DEF TypeOK, Ring, Indices
    <3>3. mem[Pos(PubRead,k)] = Sent + (k - size) + 1
      BY <3>1, <3>2 DEF PendingInv
    <3> QED BY <3>1, <3>3, CountTypes DEF CountInv, TypeOK
  <2> QED BY <2>4, <2>5 DEF TypeOK
<1>4. PendingInv' BY DEF TypeOK, WriterInv, PendingInv, PubWrite, Pending, Sent
<1>5. InOrder' BY DEF InOrder
<1> QED BY <1>1, <1>2, <1>3, <1>4, <1>5

(* A call of buffer_read preserves the invariant.                          *)
LEMMA RCallKeeps == ASSUME IInv, RCall PROVE IInv'
<1> USE CapacityAssumption
        DEF IInv, Indices, Counts, Contents,
            RCall, RGoto, shared, writer, reader
<1>1. TypeOK' /\ Indices'
  BY RequestsAssumption
     DEF TypeOK, Ring, WriterInv, ReaderInv, WriterPCs, ReaderPCs, PubWrite,
         PubRead
<1>2. Counts'
  BY DEF TypeOK, WriterInv, ReaderInv, CountInv, TakenInv, Sent, Held
<1>3. UnreadInv' BY DEF TypeOK, UnreadInv, PubRead, Held, Pos
<1>4. PendingInv' BY DEF PendingInv, PubWrite, Pending, Sent
<1>5. InOrder' BY DEF InOrder
<1> QED BY <1>1, <1>2, <1>3, <1>4, <1>5

(* Loading the number of bytes there are and cutting the request down to   *)
(* it preserves the invariant.                                             *)
LEMMA RSpaceKeeps == ASSUME IInv, RSpace PROVE IInv'
<1> USE CapacityAssumption
        DEF IInv, Indices, Counts, Contents,
            RSpace, AtMost, RGoto, shared, writer, reader
<1>1. TypeOK' /\ Indices'
  BY DEF TypeOK, Ring, WriterInv, ReaderInv, WriterPCs, ReaderPCs, PubWrite,
         PubRead
<1>2. Counts'
  BY DEF TypeOK, WriterInv, ReaderInv, CountInv, TakenInv, Sent, Held
<1>3. UnreadInv' BY DEF TypeOK, UnreadInv, PubRead, Held, Pos
<1>4. PendingInv' BY DEF PendingInv, PubWrite, Pending, Sent
<1>5. InOrder' BY DEF InOrder
<1> QED BY <1>1, <1>2, <1>3, <1>4, <1>5

(* Deciding whether the read reaches the end of the ring preserves the     *)
(* invariant.                                                              *)
LEMMA RBranchKeeps == ASSUME IInv, RBranch PROVE IInv'
<1> USE CapacityAssumption
        DEF IInv, Indices, Counts, Contents,
            RBranch, RReachesEnd, RGoto, shared, writer, reader
<1>a. TypeOK'
  BY DEF TypeOK, Ring, WriterInv, ReaderInv, WriterPCs, ReaderPCs, PubWrite,
         PubRead
<1>b. Ring'
  BY DEF TypeOK, Ring, WriterInv, ReaderInv, WriterPCs, ReaderPCs, PubWrite,
         PubRead
<1>c. WriterInv'
  BY DEF TypeOK, Ring, WriterInv, ReaderInv, WriterPCs, ReaderPCs, PubWrite,
         PubRead
<1>d. ReaderInv'
  BY DEF TypeOK, Ring, WriterInv, ReaderInv, WriterPCs, ReaderPCs, PubWrite,
         PubRead
<1>1. TypeOK' /\ Indices' BY <1>a, <1>b, <1>c, <1>d
<1>2. Counts'
  BY DEF TypeOK, WriterInv, ReaderInv, CountInv, TakenInv, Sent, Held
<1>3. UnreadInv' BY DEF TypeOK, UnreadInv, PubRead, Held, Pos
<1>4. PendingInv' BY DEF PendingInv, PubWrite, Pending, Sent
<1>5. InOrder' BY DEF InOrder
<1> QED BY <1>1, <1>2, <1>3, <1>4, <1>5

(* The memcpy out of the part before the end of the ring preserves the     *)
(* invariant.                                                              *)
LEMMA RCopyRightKeeps == ASSUME IInv, RCopyRight PROVE IInv'
<1> USE CapacityAssumption
        DEF IInv, Indices, Counts, Contents,
            RCopyRight, RGoto, shared, writer, reader
<1>0. /\ rright \in 0..size /\ read + rright <= Capacity
      /\ RMemcpy(rright) /\ Held = 0 /\ PubRead = read
        BY DEF TypeOK, ReaderInv, Held, PubRead
<1>a. delivered' \in Seq(Nat) /\ Len(delivered') = Len(delivered) + rright
  BY <1>0, ReadAppends DEF TypeOK
<1>1. TypeOK' /\ Indices'
  BY <1>0, <1>a
     DEF TypeOK, Ring, WriterInv, ReaderInv, WriterPCs, ReaderPCs, PubWrite,
         PubRead
<1>2a. CountInv'
  <2>1. UNCHANGED <<Sent, size>> BY DEF Sent
  <2>2. Held' = rright BY DEF Held
  <2> QED BY <1>0, <1>a, <2>1, <2>2, CountTypes DEF TypeOK, CountInv
<1>2b. TakenInv' BY <1>0, <1>a DEF TypeOK, WriterInv, ReaderInv, TakenInv, Held
<1>2. Counts' BY <1>2a, <1>2b
<1>3. UnreadInv' BY <1>0, <1>a DEF TypeOK, UnreadInv, PubRead, Held, Pos
<1>4. PendingInv' BY DEF PendingInv, PubWrite, Pending, Sent
<1>5. InOrder' BY <1>0, ReadInOrder
<1> QED BY <1>1, <1>2, <1>3, <1>4, <1>5

(* The store read = 0 of _wrap_read preserves the invariant.               *)
LEMMA RWrapKeeps == ASSUME IInv, RWrap PROVE IInv'
<1> USE CapacityAssumption
        DEF IInv, Indices, Counts, Contents,
            RWrap, RGoto, shared, writer, reader
<1>1. TypeOK' /\ Indices'
  BY DEF TypeOK, Ring, WriterInv, ReaderInv, WriterPCs, ReaderPCs, PubWrite,
         PubRead
<1>2. Counts'
  BY DEF TypeOK, WriterInv, ReaderInv, CountInv, TakenInv, Sent, Held
<1>3. UnreadInv'
  <2>1. UNCHANGED <<size, mem, delivered, PubRead, Held>>
    BY DEF TypeOK, ReaderInv, PubRead, Held
  <2> QED BY <2>1 DEF UnreadInv, Pos
<1>4. PendingInv' BY DEF PendingInv, PubWrite, Pending, Sent
<1>5. InOrder' BY DEF InOrder
<1> QED BY <1>1, <1>2, <1>3, <1>4, <1>5

(* The atomic subtraction of _wrap_read preserves the invariant.           *)
LEMMA RSubRightKeeps == ASSUME IInv, RSubRight PROVE IInv'
<1> USE CapacityAssumption
        DEF IInv, Indices, Counts, Contents,
            RSubRight, RGoto, shared, writer, reader
<1>1. TypeOK' /\ Indices'
  BY DEF TypeOK, Ring, WriterInv, ReaderInv, WriterPCs, ReaderPCs, PubWrite,
         PubRead
<1>2. Counts'
  BY DEF TypeOK, WriterInv, ReaderInv, CountInv, TakenInv, Sent, Held
<1>3. UnreadInv'
  <2>1. /\ size' = size - rright /\ rright \in 0..size
        /\ Held = rright /\ Held' = 0
    BY DEF TypeOK, ReaderInv, Held
  <2>2. /\ PubRead' = IF PubRead + rright < Capacity THEN PubRead + rright ELSE 0
        /\ PubRead + rright <= Capacity
    BY DEF TypeOK, ReaderInv, PubRead
  <2>3. ASSUME NEW k \in 0..(size' - 1)
        PROVE  /\ k + rright \in 0..(size - 1)
               /\ Pos(PubRead', k) = Pos(PubRead, k + rright)
    BY <2>1, <2>2 DEF TypeOK, Ring, Pos
  <2>4. UNCHANGED <<mem, delivered>> OBVIOUS
  <2>5. SUFFICES ASSUME NEW k \in 0..(size' - 1)
                 PROVE  mem[Pos(PubRead', k)] = (Len(delivered) - 0) + k + 1
    BY <2>1, <2>4 DEF UnreadInv, Pos
  <2>6. mem[Pos(PubRead, k + rright)]
          = (Len(delivered) - Held) + (k + rright) + 1
    BY <2>3 DEF UnreadInv
  <2> QED BY <2>1, <2>3, <2>6 DEF TypeOK
<1>4. PendingInv' BY DEF PendingInv, PubWrite, Pending, Sent
<1>5. InOrder' BY DEF InOrder
<1> QED BY <1>1, <1>2, <1>3, <1>4, <1>5

(* The second (or only) memcpy of buffer_read preserves the invariant.     *)
LEMMA RCopyKeeps == ASSUME IInv, RCopy PROVE IInv'
<1> USE CapacityAssumption
        DEF IInv, Indices, Counts, Contents,
            RCopy, RGoto, shared, writer, reader
<1>0. /\ rbytes \in 0..size /\ read + rbytes <= Capacity
      /\ RMemcpy(rbytes) /\ Held = 0 /\ PubRead = read
        BY DEF TypeOK, ReaderInv, Held, PubRead
<1>a. delivered' \in Seq(Nat) /\ Len(delivered') = Len(delivered) + rbytes
  BY <1>0, ReadAppends DEF TypeOK
<1>1. TypeOK' /\ Indices'
  BY <1>0, <1>a
     DEF TypeOK, Ring, WriterInv, ReaderInv, WriterPCs, ReaderPCs, PubWrite,
         PubRead
<1>2a. CountInv'
  <2>1. UNCHANGED <<Sent, size>> BY DEF Sent
  <2>2. Held' = rbytes BY DEF Held
  <2> QED BY <1>0, <1>a, <2>1, <2>2, CountTypes DEF TypeOK, CountInv
<1>2b. TakenInv' BY <1>0, <1>a DEF TypeOK, WriterInv, ReaderInv, TakenInv, Held
<1>2. Counts' BY <1>2a, <1>2b
<1>3. UnreadInv' BY <1>0, <1>a DEF TypeOK, UnreadInv, PubRead, Held, Pos
<1>4. PendingInv' BY DEF PendingInv, PubWrite, Pending, Sent
<1>5. InOrder' BY <1>0, ReadInOrder
<1> QED BY <1>1, <1>2, <1>3, <1>4, <1>5

(* The store read += bytes preserves the invariant.                        *)
LEMMA RAdvanceKeeps == ASSUME IInv, RAdvance PROVE IInv'
<1> USE CapacityAssumption
        DEF IInv, Indices, Counts, Contents,
            RAdvance, RGoto, shared, writer, reader
<1>1. TypeOK' /\ Indices'
  BY DEF TypeOK, Ring, WriterInv, ReaderInv, WriterPCs, ReaderPCs, PubWrite,
         PubRead
<1>2. Counts'
  BY DEF TypeOK, WriterInv, ReaderInv, CountInv, TakenInv, Sent, Held
<1>3. UnreadInv'
  <2>1. UNCHANGED <<size, mem, delivered, PubRead, Held>>
    BY DEF TypeOK, ReaderInv, PubRead, Held
  <2> QED BY <2>1 DEF UnreadInv, Pos
<1>4. PendingInv' BY DEF PendingInv, PubWrite, Pending, Sent
<1>5. InOrder' BY DEF InOrder
<1> QED BY <1>1, <1>2, <1>3, <1>4, <1>5

(* The atomic subtraction that gives the space back, and the return,       *)
(* preserves the invariant.                                                *)
LEMMA RReleaseKeeps == ASSUME IInv, RRelease PROVE IInv'
<1> USE CapacityAssumption
        DEF IInv, Indices, Counts, Contents,
            RRelease, RReturned, RGoto, shared, writer, reader
<1>1. TypeOK' /\ Indices'
  BY DEF TypeOK, Ring, WriterInv, ReaderInv, WriterPCs, ReaderPCs, PubWrite,
         PubRead
<1>2. Counts'
  BY DEF TypeOK, WriterInv, ReaderInv, CountInv, TakenInv, Sent, Held
<1>3. UnreadInv'
  <2>1. /\ size' = size - rbytes /\ rbytes \in 0..size
        /\ Held = rbytes /\ Held' = 0
    BY DEF TypeOK, ReaderInv, Held
  <2>2. /\ PubRead' = IF PubRead + rbytes < Capacity THEN PubRead + rbytes ELSE 0
        /\ PubRead + rbytes <= Capacity
    BY DEF TypeOK, ReaderInv, PubRead
  <2>3. ASSUME NEW k \in 0..(size' - 1)
        PROVE  /\ k + rbytes \in 0..(size - 1)
               /\ Pos(PubRead', k) = Pos(PubRead, k + rbytes)
    BY <2>1, <2>2 DEF TypeOK, Ring, Pos
  <2>4. UNCHANGED <<mem, delivered>> OBVIOUS
  <2>5. SUFFICES ASSUME NEW k \in 0..(size' - 1)
                 PROVE  mem[Pos(PubRead', k)] = (Len(delivered) - 0) + k + 1
    BY <2>1, <2>4 DEF UnreadInv, Pos
  <2>6. mem[Pos(PubRead, k + rbytes)]
          = (Len(delivered) - Held) + (k + rbytes) + 1
    BY <2>3 DEF UnreadInv
  <2> QED BY <2>1, <2>3, <2>6 DEF TypeOK
<1>4. PendingInv' BY DEF PendingInv, PubWrite, Pending, Sent
<1>5. InOrder' BY DEF InOrder
<1> QED BY <1>1, <1>2, <1>3, <1>4, <1>5

(* create_buffer establishes the invariant.                                *)
LEMMA InitIInv == Init => IInv
<1> SUFFICES ASSUME Init PROVE IInv OBVIOUS
<1> USE CapacityAssumption DEF Init
<1>1. TypeOK BY DEF TypeOK, WriterPCs, ReaderPCs
<1>2. Indices BY DEF Indices, Ring, WriterInv, ReaderInv, PubWrite, PubRead
<1>3. Counts BY DEF Counts, CountInv, TakenInv, Sent, Held
<1>4. Contents BY DEF Contents, UnreadInv, PendingInv, Pending
<1>5. InOrder BY DEF InOrder
<1> QED BY <1>1, <1>2, <1>3, <1>4, <1>5 DEF IInv

(* Every step of either process preserves the invariant.                   *)
LEMMA NextIInv == IInv /\ [Next]_vars => IInv'
<1> SUFFICES ASSUME IInv, [Next]_vars PROVE IInv' OBVIOUS
<1>1. CASE WCall BY <1>1, WCallKeeps
<1>2. CASE WriterStep
  BY <1>2, WSpaceKeeps, WBranchKeeps, WCopyRightKeeps, WWrapKeeps,
     WAddRightKeeps, WCopyKeeps, WAdvanceKeeps, WPublishKeeps
     DEF WriterStep
<1>3. CASE RCall BY <1>3, RCallKeeps
<1>4. CASE ReaderStep
  BY <1>4, RSpaceKeeps, RBranchKeeps, RCopyRightKeeps, RWrapKeeps,
     RSubRightKeeps, RCopyKeeps, RAdvanceKeeps, RReleaseKeeps
     DEF ReaderStep
<1>5. CASE UNCHANGED vars
  BY <1>5
     DEF vars, shared, writer, reader, IInv, TypeOK, Indices, Ring, WriterInv,
         ReaderInv, Counts, CountInv, TakenInv, Contents, UnreadInv,
         PendingInv, InOrder, PubWrite, PubRead, Pending, Held, Sent, Pos
<1> QED BY <1>1, <1>2, <1>3, <1>4, <1>5 DEF Next

(* For every capacity and every set of request sizes, the invariant of the *)
(* ring (indices, reservations, contents and counts agree with the atomic  *)
(* counter) holds between any two steps of buffer_write and buffer_read.   *)
THEOREM RingInvariant == Spec => []IInv
<1> QED BY InitIInv, NextIInv, PTL DEF Spec

(* size stays in 0..Capacity and the indices stay inside the ring.         *)
THEOREM TypeCorrect == Spec => []TypeOK
<1>1. IInv => TypeOK BY DEF IInv
<1> QED BY <1>1, RingInvariant, PTL

(* buffer_read returns the bytes buffer_write was given, in order: none is *)
(* lost, repeated, reordered or overwritten, for every capacity, every mix *)
(* of request sizes and every interleaving.                                *)
THEOREM StreamInOrder == Spec => []InOrder
<1>1. IInv => InOrder BY DEF IInv
<1> QED BY <1>1, RingInvariant, PTL

(* The memcpys of a concurrent buffer_write and buffer_read never touch    *)
(* the same byte or leave the ring.                                        *)
THEOREM CopiesDisjoint == Spec => []NoOverlap
<1>1. IInv => NoOverlap
  <2> SUFFICES ASSUME IInv PROVE NoOverlap OBVIOUS
  <2> USE CapacityAssumption DEF IInv, Indices
  <2>1. PICK n \in 0..(Capacity - size) :
           /\ PubWrite + n <= Capacity
           /\ WriterRegion = PubWrite..(PubWrite + n - 1)
    <3>1. CASE wpc = "copyRight"
      <4>1. wright \in 0..(Capacity - size) /\ PubWrite + wright <= Capacity
        BY <3>1 DEF TypeOK, WriterInv, PubWrite
      <4>2. WriterRegion = PubWrite..(PubWrite + wright - 1)
        BY <3>1 DEF PubWrite, WriterRegion
      <4> QED BY <4>1, <4>2
    <3>2. CASE wpc = "copy"
      <4>1. wbytes \in 0..(Capacity - size) /\ PubWrite + wbytes <= Capacity
        BY <3>2 DEF TypeOK, WriterInv, PubWrite
      <4>2. WriterRegion = PubWrite..(PubWrite + wbytes - 1)
        BY <3>2 DEF PubWrite, WriterRegion
      <4> QED BY <4>1, <4>2
    <3>3. CASE wpc \notin {"copyRight", "copy"}
      <4>1. WriterRegion = {} BY <3>3 DEF WriterRegion
      <4>2. PubWrite \in 0..(Capacity - 1) /\ 0 \in 0..(Capacity - size)
        BY DEF Ring, TypeOK
      <4>3. PubWrite..(PubWrite + 0 - 1) = {} BY <4>2
      <4> QED BY <4>1, <4>2, <4>3
    <3> QED BY <3>1, <3>2, <3>3
  <2>2. \A x \in ReaderRegion :
           \E k \in 0..(size - 1) : x = Pos(PubRead, k)
    <3> TAKE x \in ReaderRegion
    <3>1. rpc \in {"copyRight", "copy"} BY DEF ReaderRegion
    <3>2. PubRead = read BY <3>1 DEF PubRead
    <3>3. x - read \in 0..(size - 1) /\ x < Capacity
      <4>1. CASE rpc = "copyRight" BY <4>1 DEF TypeOK, ReaderInv, ReaderRegion
      <4>2. CASE rpc = "copy" BY <4>2 DEF TypeOK, ReaderInv, ReaderRegion
      <4> QED BY <3>1, <4>1, <4>2
    <3>4. x = Pos(PubRead, x - read)
      <4>1. x \in Int BY DEF ReaderRegion, TypeOK
      <4> QED BY <4>1, <3>2, <3>3 DEF Pos, TypeOK
    <3> QED BY <3>3, <3>4
  <2>3. ReaderRegion \subseteq 0..(Capacity - 1) BY <2>2, FreeIsFree DEF TypeOK
  <2>4. WriterRegion \subseteq 0..(Capacity - 1) BY <2>1 DEF Ring
  <2>5. WriterRegion \cap ReaderRegion = {} BY <2>1, <2>2, FreeIsFree
  <2> QED BY <2>3, <2>4, <2>5 DEF NoOverlap
<1> QED BY <1>1, RingInvariant, PTL

(* The return values of buffer_read add up to the bytes it copied.         *)
THEOREM CallerCountsRight == Spec => []ReturnsWhatItCopied
<1>1. IInv => ReturnsWhatItCopied
  BY CountTypes DEF IInv, Counts, TakenInv, TypeOK, Held, ReturnsWhatItCopied
<1> QED BY <1>1, RingInvariant, PTL

(* Arithmetic modulo the capacity, for the two cases the ring needs.       *)
LEMMA AroundTheRing ==
  ASSUME NEW i \in Nat, NEW c \in Nat, i < c
  PROVE  i % c = i /\ (i + c) % c = i
OBVIOUS

(* Between calls Buffer.size is the number of bytes accepted and not yet   *)
(* read, and the indices agree with it.                                    *)
THEOREM SizeCountsBytes == Spec => []SizeIsBytesUsed
<1>1. IInv => SizeIsBytesUsed
  <2> SUFFICES ASSUME IInv, wpc = "idle", rpc = "idle"
               PROVE  /\ size = accepted - taken
                      /\ (read + size) % Capacity = write
    BY DEF SizeIsBytesUsed
  <2>1. size = accepted - taken
    BY CountTypes DEF IInv, Counts, CountInv, TakenInv, TypeOK, Held, Sent
  <2>2. write = read + size \/ write = read + size - Capacity
    BY DEF IInv, Indices, Ring, PubWrite, PubRead
  <2>3. (read + size) % Capacity = write
    <3>1. write \in Nat /\ Capacity \in Nat /\ write < Capacity
      BY CapacityAssumption DEF IInv, TypeOK
    <3>2. write % Capacity = write /\ (write + Capacity) % Capacity = write
      BY <3>1, AroundTheRing
    <3>3. read + size = write \/ read + size = write + Capacity
      BY <2>2, CapacityAssumption DEF IInv, TypeOK
    <3> QED BY <3>2, <3>3
  <2> QED BY <2>1, <2>3
<1> QED BY <1>1, RingInvariant, PTL

(* The lock-free ring of buffer.c implements the abstract bounded stream:  *)
(* every step of either process is a step of ByteStream or leaves it       *)
(* unchanged.                                                              *)
THEOREM RingIsStream == Spec => Stream!Spec
<1>1. Init => Stream!Init BY DEF Init, Stream!Init, Sent
<1>2. IInv /\ [Next]_vars => [Stream!Next]_(Stream!vars)
  <2> SUFFICES ASSUME IInv, Next, ~ UNCHANGED <<Sent, delivered>>
               PROVE  Stream!Next
    BY DEF vars, writer, reader, Sent, Stream!vars
  <2> USE CapacityAssumption DEF IInv, Indices, Counts, Contents
  <2>0. Sent - Len(delivered) = size - Held /\ Held \in 0..size
    BY CountTypes DEF CountInv, TypeOK, ReaderInv, Held
  <2>1. ASSUME NEW n \in 1..(Capacity - size), Sent' = Sent + n,
               UNCHANGED delivered
        PROVE  Stream!Next
    <3>1. n \in 1..Capacity /\ (Sent - Len(delivered)) + n <= Capacity
      BY <2>0 DEF TypeOK
    <3> QED BY <2>1, <3>1 DEF Stream!Next, Stream!Send, Stream!InFlight
  <2>2. ASSUME NEW n \in 1..size, Held = 0, PubRead = read,
               read + n <= Capacity, RMemcpy(n), UNCHANGED Sent
        PROVE  Stream!Next
    <3>1. [i \in 1..n |-> mem[read + i - 1]]
            = [i \in 1..n |-> Len(delivered) + i]
      <4>1. n \in 0..size BY DEF TypeOK
      <4>2. \A i \in 1..n : mem[read + i - 1] = Len(delivered) + i
        BY <2>2, <4>1, ReadsNext
      <4> QED BY <4>2
    <3>2. n \in 1..Capacity /\ n <= Sent - Len(delivered)
      BY <2>0, <2>2 DEF TypeOK
    <3> QED
      BY <2>2, <3>1, <3>2
         DEF RMemcpy, Stream!Next, Stream!Receive, Stream!InFlight
  <2>3. CASE WAddRight
    <3>1. wright \in 1..(Capacity - size)
      BY <2>3 DEF WAddRight, TypeOK, WriterInv
    <3>2. Sent' = Sent + wright /\ UNCHANGED delivered
      BY <2>3 DEF WAddRight, WGoto, reader, TypeOK, Sent
    <3> QED BY <2>1, <3>1, <3>2
  <2>4. CASE WPublish
    <3>1. Sent' = Sent + wbytes /\ UNCHANGED delivered
      BY <2>4 DEF WPublish, WGoto, reader, TypeOK, Sent
    <3>2. wbytes \in 1..(Capacity - size)
      BY <2>4, <3>1, CountTypes DEF WPublish, TypeOK, WriterInv
    <3> QED BY <2>1, <3>1, <3>2
  <2>5. ASSUME NEW n \in 0..size, Held = 0, PubRead = read,
               read + n <= Capacity, RMemcpy(n), UNCHANGED Sent
        PROVE  Stream!Next
    <3>1. n # 0
      <4> SUFFICES ASSUME n = 0 PROVE FALSE OBVIOUS
      <4>1. Len(delivered') = Len(delivered) /\ delivered' \in Seq(Nat)
        BY <2>5, ReadAppends, CountTypes DEF TypeOK
      <4>2. \A i \in 1..Len(delivered) : delivered'[i] = delivered[i]
        BY <2>5, ReadAppends DEF TypeOK
      <4>3. delivered' = delivered BY <4>1, <4>2, SeqEqual DEF TypeOK
      <4> QED BY <2>5, <4>3
    <3>2. n \in 1..size BY <3>1 DEF TypeOK
    <3> QED BY <2>2, <2>5, <3>2
  <2>6. CASE RCopyRight
    BY <2>5, <2>6
       DEF RCopyRight, RGoto, writer, Sent, TypeOK, ReaderInv, Held, PubRead
  <2>7. CASE RCopy
    BY <2>5, <2>7
       DEF RCopy, RGoto, writer, Sent, TypeOK, ReaderInv, Held, PubRead
  <2>8. CASE \/ WCall \/ WSpace \/ WBranch \/ WCopyRight
             \/ WWrap \/ WCopy \/ WAdvance
    BY <2>8
       DEF WCall, WSpace, WBranch, WCopyRight, WWrap, WCopy, WAdvance, WGoto,
           reader, Sent
  <2>9. CASE \/ RCall \/ RSpace \/ RBranch
             \/ RWrap \/ RSubRight \/ RAdvance \/ RRelease
    BY <2>9
       DEF RCall, RSpace, RBranch, RWrap, RSubRight, RAdvance, RRelease, RGoto,
           writer, Sent
  <2> QED
    BY <2>3, <2>4, <2>6, <2>7, <2>8, <2>9 DEF Next, WriterStep, ReaderStep
<1> QED
  BY <1>1, <1>2, RingInvariant, PTL DEF Spec, Stream!Spec

(* What a step of the ring does to the count.                              *)
LEMMA CountPuts ==
  ASSUME TypeOK, NEW n \in 0..Capacity, n <= Putting,
         size' = size + n, Putting' = Putting - n, UNCHANGED Taking
  PROVE  [Count!Next]_(Count!vars)
<1>1. CASE n = 0
  <2>1. size \in Nat /\ Putting \in Nat BY DEF TypeOK, Putting
  <2>2. size' = size /\ Putting' = Putting BY <1>1, <2>1
  <2> QED BY <2>2 DEF Count!vars
<1>2. CASE n # 0
  <2>1. n \in 1..Capacity BY <1>2, CapacityAssumption
  <2> QED BY <2>1 DEF Count!Next, Count!Put
<1> QED BY <1>1, <1>2

LEMMA CountTakes ==
  ASSUME TypeOK, NEW n \in 0..Capacity, n <= Taking,
         size' = size - n, Taking' = Taking - n, UNCHANGED Putting
  PROVE  [Count!Next]_(Count!vars)
<1>1. CASE n = 0
  <2>1. size \in Nat /\ Taking \in Nat BY DEF TypeOK, Taking
  <2>2. size' = size /\ Taking' = Taking BY <1>1, <2>1
  <2> QED BY <2>2 DEF Count!vars
<1>2. CASE n # 0
  <2>1. n \in 1..Capacity BY <1>2, CapacityAssumption
  <2> QED BY <2>1 DEF Count!Next, Count!Take
<1> QED BY <1>1, <1>2

(* In the ring the bytes move as ByteCount moves them, at most twice for a *)
(* call: up to the end of the ring, and from its beginning.                *)
THEOREM RingCountsBytes == Spec => Count!Spec
<1>1. Init => Count!Init BY DEF Init, Count!Init, Putting, Taking
<1>2. IInv /\ [Next]_vars => [Count!Next]_(Count!vars)
  <2> SUFFICES ASSUME IInv, [Next]_vars PROVE [Count!Next]_(Count!vars)
    OBVIOUS
  <2> USE CapacityAssumption
  <2>0. TypeOK /\ WriterInv /\ ReaderInv
    BY DEF IInv, Indices
  <2>1. CASE WSpace
    <3> DEFINE n == AtMost(wbytes, Capacity - size)
    <3>1. /\ Putting = 0 /\ Putting' = n /\ UNCHANGED <<size, Taking>>
      BY <2>1 DEF WSpace, WGoto, WFreeSpace, shared, reader, Putting, Taking
    <3>2. n \in 0..Capacity /\ n <= Capacity - size
      BY <2>0 DEF TypeOK, AtMost
    <3> HIDE DEF n
    <3>3. CASE n = 0
      BY <3>1, <3>3 DEF Count!vars
    <3>4. CASE n # 0
      <4>1. n \in 1..Capacity BY <3>2, <3>4
      <4> QED BY <3>1, <3>2, <4>1 DEF Count!Next, Count!Reserve
    <3> QED BY <3>3, <3>4
  <2>2. CASE RSpace
    <3> DEFINE n == AtMost(rbytes, size)
    <3>1. /\ Taking = 0 /\ Taking' = n /\ UNCHANGED <<size, Putting>>
      BY <2>2 DEF RSpace, RGoto, shared, writer, Putting, Taking
    <3>2. n \in 0..Capacity /\ n <= size
      BY <2>0 DEF TypeOK, AtMost
    <3> HIDE DEF n
    <3>3. CASE n = 0
      BY <3>1, <3>3 DEF Count!vars
    <3>4. CASE n # 0
      <4>1. n \in 1..Capacity BY <3>2, <3>4
      <4> QED BY <3>1, <3>2, <4>1 DEF Count!Next, Count!Claim
    <3> QED BY <3>3, <3>4
  <2>3. CASE WAddRight
    <3>1. /\ size' = size + wright /\ Putting = wbytes /\ Putting' = wbytes - wright
          /\ UNCHANGED Taking
      BY <2>3 DEF WAddRight, WGoto, reader, Putting, Taking
    <3>2. wright \in 0..Capacity /\ wright <= wbytes
      BY <2>0, <2>3 DEF WAddRight, TypeOK, WriterInv
    <3> QED BY <2>0, <3>1, <3>2, CountPuts
  <2>4. CASE WPublish
    <3>1. /\ size' = size + wbytes /\ Putting = wbytes /\ Putting' = 0
          /\ UNCHANGED Taking
      BY <2>4 DEF WPublish, WGoto, reader, Putting, Taking
    <3>2. wbytes \in 0..Capacity /\ wbytes <= wbytes /\ wbytes - wbytes = 0
      BY <2>0, <2>4 DEF WPublish, TypeOK, WriterInv
    <3> QED BY <2>0, <3>1, <3>2, CountPuts
  <2>5. CASE RSubRight
    <3>1. /\ size' = size - rright /\ Taking = rbytes /\ Taking' = rbytes - rright
          /\ UNCHANGED Putting
      BY <2>5 DEF RSubRight, RGoto, writer, Putting, Taking
    <3>2. rright \in 0..Capacity /\ rright <= rbytes
      BY <2>0, <2>5 DEF RSubRight, TypeOK, ReaderInv
    <3> QED BY <2>0, <3>1, <3>2, CountTakes
  <2>6. CASE RRelease
    <3>1. /\ size' = size - rbytes /\ Taking = rbytes /\ Taking' = 0
          /\ UNCHANGED Putting
      BY <2>6 DEF RRelease, RGoto, writer, Putting, Taking
    <3>2. rbytes \in 0..Capacity /\ rbytes <= rbytes /\ rbytes - rbytes = 0
      BY <2>0, <2>6 DEF RRelease, TypeOK, ReaderInv
    <3> QED BY <2>0, <3>1, <3>2, CountTakes
  <2>7. CASE WCall \/ WBranch \/ WCopyRight \/ WWrap \/ WCopy \/ WAdvance
    <3>1. UNCHANGED <<size, Putting, Taking>>
      BY <2>7 DEF WCall, WBranch, WCopyRight, WWrap, WCopy, WAdvance, WGoto,
         shared, reader,
                  Putting, Taking
    <3> QED BY <3>1 DEF Count!vars
  <2>8. CASE RCall \/ RBranch \/ RCopyRight \/ RWrap \/ RCopy \/ RAdvance
    <3>1. UNCHANGED <<size, Putting, Taking>>
      BY <2>8 DEF RCall, RBranch, RCopyRight, RWrap, RCopy, RAdvance, RGoto,
         shared, writer,
                  Putting, Taking
    <3> QED BY <3>1 DEF Count!vars
  <2>9. CASE UNCHANGED vars
    BY <2>9 DEF vars, shared, writer, reader, Putting, Taking, Count!vars
  <2> QED
    BY <2>1, <2>2, <2>3, <2>4, <2>5, <2>6, <2>7, <2>8, <2>9 DEF Next,
       WriterStep, ReaderStep
<1> QED
  BY <1>1, <1>2, RingInvariant, PTL DEF Spec, Count!Spec

(* The ring of buffer.c implements both: what the two applications are     *)
(* promised of the bytes, and what Socket looks at, their number.          *)
THEOREM RingImplementsStream == Spec => ImplementsStream
BY RingIsStream, RingCountsBytes, PTL DEF ImplementsStream

-----------------------------------------------------------------------------
(***************************************************************************)
(* Socket.                                                                 *)
(***************************************************************************)
(* Only the variables of the side that moves change, and of the other side *)
(* at most the buffer.                                                     *)
LEMMA PeerFacts == \A s \in Sides : /\ Peer(s) \in Sides /\ Peer(s) # s
                                    /\ Peer(Peer(s)) = s
                                    /\ \A t \in Sides : t = s \/ t = Peer(s)
BY DEF Sides, Peer

LEMMA OpenCount ==
  ASSUME OpenInv, NEW s \in Sides, pc[s] # "closed"
  PROVE  openCount = IF pc[Peer(s)] = "closed" THEN 1 ELSE 2
BY DEF OpenInv, Sides, Peer

(* What a call passes, or has left, is a proper argument. *)
LEMMA ArgType ==
  ASSUME NEW n \in 0..Capacity \cup Requests, NEW w \in BOOLEAN
  PROVE  Arg(n, {}, w) \in Args
BY DEF Arg, Args

LEMMA NoArgType == NoArg \in Args
BY CapacityAssumption DEF NoArg, Arg, Args, PollEvents

LEMMA EnterType ==
  ASSUME SocketTypeOK, NEW s \in Sides, NEW next, NEW a \in Args, Enter(s, next, a)
  PROVE  arg' \in [Sides -> Args]
BY DEF SocketTypeOK, Enter

LEMMA AtMostType ==
  ASSUME NEW n \in Nat, NEW limit \in 0..Capacity
  PROVE  /\ AtMost(n, limit) \in 0..Capacity
         /\ AtMost(n, limit) <= n /\ AtMost(n, limit) <= limit
BY CapacityAssumption DEF AtMost

LEMMA CutType ==
  ASSUME SocketTypeOK, NEW s \in Sides, NEW next, NEW a \in 0..Capacity,
         arg[s].bytes \in Requests, Cut(s, next, a)
  PROVE  arg' \in [Sides -> Args]
<1>1. CASE a = 0
  BY <1>1, NoArgType, EnterType DEF Cut, Return
<1>2. CASE a # 0
  <2>1. arg[s].waits \in BOOLEAN  BY DEF SocketTypeOK, Args
  <2>2. arg[s].bytes \in Nat  BY RequestsAssumption
  <2>3. AtMost(arg[s].bytes, a) \in 0..Capacity  BY <2>2, AtMostType
  <2>4. Arg(AtMost(arg[s].bytes, a), {}, arg[s].waits) \in Args
    BY <2>1, <2>3, ArgType
  <2> QED  BY <1>2, <2>4, EnterType DEF Cut
<1> QED  BY <1>1, <1>2

LEMMA MovedType ==
  ASSUME SocketTypeOK, NEW s \in Sides, arg[s].bytes \in 0..Capacity,
         NEW part \in 1..arg[s].bytes, Moved(s, part)
  PROVE  arg' \in [Sides -> Args]
<1>1. CASE Return(s)
  BY <1>1, NoArgType, EnterType DEF Return
<1>2. CASE ~Return(s)
  <2>1. arg[s].waits \in BOOLEAN  BY DEF SocketTypeOK, Args
  <2>2. Arg(arg[s].bytes - part, {}, arg[s].waits) \in Args
    BY <2>1, ArgType, CapacityAssumption
  <2> QED  BY <1>2, <2>2, EnterType DEF Moved
<1> QED  BY <1>1, <1>2

LEMMA SocketInitInv == SocketInit => SocketIInv
BY CapacityAssumption, RequestsAssumption
   DEF SocketInit, SocketIInv, SocketTypeOK, OpenInv, MoveInv, ArgInv, PollIsTrue,
       EofOnlyAfterClose,
       Sides, Peer, NoArg, Arg, Args, PollEvents, Args

(* A call enters: its side's pc and arguments, nothing else. *)
LEMMA CallReadKeeps == ASSUME SocketIInv, NEW s \in Sides, CallRead(s) PROVE SocketIInv'
<1> USE CapacityAssumption, RequestsAssumption, PeerFacts
<1> USE DEF SocketIInv, Enter, Goto, Arg, NoArg, CallRead
<1>1. SocketTypeOK'  BY DEF SocketTypeOK, PollEvents, Args
<1>2. OpenInv'  BY DEF SocketTypeOK, OpenInv, Sides
<1>3. MoveInv'  BY DEF SocketTypeOK, MoveInv
<1>4. ArgInv'  BY DEF SocketTypeOK, ArgInv
<1>5. PollIsTrue'  BY DEF SocketTypeOK, PollIsTrue
<1>6. EofOnlyAfterClose'  BY DEF SocketTypeOK, EofOnlyAfterClose
<1> QED  BY <1>1, <1>2, <1>3, <1>4, <1>5, <1>6

(* As CallRead *)
LEMMA CallWriteKeeps == ASSUME SocketIInv, NEW s \in Sides, CallWrite(s) PROVE SocketIInv'
<1> USE CapacityAssumption, RequestsAssumption, PeerFacts
<1> USE DEF SocketIInv, Enter, Goto, Arg, NoArg, CallWrite
<1>1. SocketTypeOK'  BY DEF SocketTypeOK, PollEvents, Args
<1>2. OpenInv'  BY DEF SocketTypeOK, OpenInv, Sides
<1>3. MoveInv'  BY DEF SocketTypeOK, MoveInv
<1>4. ArgInv'  BY DEF SocketTypeOK, ArgInv
<1>5. PollIsTrue'  BY DEF SocketTypeOK, PollIsTrue
<1>6. EofOnlyAfterClose'  BY DEF SocketTypeOK, EofOnlyAfterClose
<1> QED  BY <1>1, <1>2, <1>3, <1>4, <1>5, <1>6

(* A poll forgets what the one before has said. *)
LEMMA CallPollKeeps == ASSUME SocketIInv, NEW s \in Sides, CallPoll(s) PROVE SocketIInv'
<1> USE CapacityAssumption, RequestsAssumption, PeerFacts
<1> USE DEF SocketIInv, Enter, Goto, Arg, NoArg, CallPoll, PollEvents
<1>1. SocketTypeOK'  BY DEF SocketTypeOK, PollEvents, Args
<1>2. OpenInv'  BY DEF SocketTypeOK, OpenInv, Sides
<1>3. MoveInv'  BY DEF SocketTypeOK, MoveInv
<1>4. ArgInv'  BY DEF SocketTypeOK, ArgInv
<1>5. PollIsTrue'  BY DEF SocketTypeOK, PollIsTrue
<1>6. EofOnlyAfterClose'  BY DEF SocketTypeOK, EofOnlyAfterClose
<1> QED  BY <1>1, <1>2, <1>3, <1>4, <1>5, <1>6

(* The side that closes leaves the count of the other, which was told of   *)
(* events before or after the same as ever: its buffers do not change.     *)
LEMMA CloseKeeps == ASSUME SocketIInv, NEW s \in Sides, Close(s) PROVE SocketIInv'
<1> USE CapacityAssumption, RequestsAssumption, PeerFacts
<1>0. openCount = IF pc[Peer(s)] = "closed" THEN 1 ELSE 2
  BY OpenCount DEF SocketIInv, Close
<1> USE DEF SocketIInv, Enter, Goto, Arg, NoArg, Close
<1>1. SocketTypeOK'  BY <1>0 DEF SocketTypeOK, PollEvents, Args
<1>2. OpenInv'  BY DEF SocketTypeOK, OpenInv, Sides
<1>3. MoveInv'  BY DEF SocketTypeOK, MoveInv
<1>4. ArgInv'  BY DEF SocketTypeOK, ArgInv
<1>5. PollIsTrue'  BY <1>0 DEF SocketTypeOK, PollIsTrue
<1>6. EofOnlyAfterClose'  BY DEF SocketTypeOK, EofOnlyAfterClose
<1> QED  BY <1>1, <1>2, <1>3, <1>4, <1>5, <1>6

(* End of file is reported when the count is 1, and then the other side has *)
(* closed.                                                                 *)
LEMMA ReadCheckKeeps == ASSUME SocketIInv, NEW s \in Sides, ReadCheck(s) PROVE SocketIInv'
<1> USE CapacityAssumption, RequestsAssumption, PeerFacts
<1>0. openCount = IF pc[Peer(s)] = "closed" THEN 1 ELSE 2
  BY OpenCount DEF SocketIInv, ReadCheck
<1> USE DEF SocketIInv, Enter, Goto, Arg, NoArg, ReadCheck, Forget, HungUp, Return
<1>1. SocketTypeOK'
  <2>1. (openCount \in 0..2 /\ unread \in [Sides -> 0..Capacity])'
    BY DEF SocketTypeOK, PollEvents
  <2>2. (pc \in [Sides -> {"idle", "closed", "readCheck", "read", "take",
                          "writeCheck", "write", "put", "poll"}])'
    BY DEF SocketTypeOK, PollEvents
  <2>3. (arg \in [Sides -> Args])'
    <3>1. CASE Return(s)  BY <3>1, NoArgType, EnterType DEF SocketTypeOK
    <3>2. CASE arg' = arg  BY <3>2 DEF SocketTypeOK
    <3> QED  BY <3>1, <3>2
  <2>4. (told \in [Sides -> SUBSET {"in", "out", "hup"}])'
    BY DEF SocketTypeOK, PollEvents
  <2>5. (outcome \in [Sides -> {"data", "again", "eof"}])'
    BY DEF SocketTypeOK, PollEvents
  <2> QED  BY <2>1, <2>2, <2>3, <2>4, <2>5 DEF SocketTypeOK
<1>2. OpenInv'  BY DEF SocketTypeOK, OpenInv, Sides
<1>3. MoveInv'  BY DEF SocketTypeOK, MoveInv
<1>4. ArgInv'  BY DEF SocketTypeOK, ArgInv
<1>5. PollIsTrue'  BY DEF SocketTypeOK, PollIsTrue
<1>6. EofOnlyAfterClose'  BY <1>0 DEF SocketTypeOK, EofOnlyAfterClose
<1> QED  BY <1>1, <1>2, <1>3, <1>4, <1>5, <1>6

(* The read is cut down to the bytes there are. *)
LEMMA ReadSpaceKeeps == ASSUME SocketIInv, NEW s \in Sides, ReadSpace(s) PROVE SocketIInv'
<1> USE CapacityAssumption, RequestsAssumption, PeerFacts
<1> USE DEF SocketIInv, Enter, Goto, Arg, NoArg, ReadSpace, Forget, Cut, Return,
    AtMost, ArgInv
<1>1. SocketTypeOK'
  <2>1. (openCount \in 0..2 /\ unread \in [Sides -> 0..Capacity])'
    BY DEF SocketTypeOK, PollEvents
  <2>2. (pc \in [Sides -> {"idle", "closed", "readCheck", "read", "take",
                          "writeCheck", "write", "put", "poll"}])'
    BY DEF SocketTypeOK, PollEvents
  <2>3. (arg \in [Sides -> Args])'
    <3>1. arg[s].bytes \in Requests  OBVIOUS
    <3>2. unread[s] \in 0..Capacity  BY DEF SocketTypeOK
    <3> QED  BY <3>1, <3>2, CutType
  <2>4. (told \in [Sides -> SUBSET {"in", "out", "hup"}])'
    BY DEF SocketTypeOK, PollEvents
  <2>5. (outcome \in [Sides -> {"data", "again", "eof"}])'
    BY DEF SocketTypeOK, PollEvents
  <2> QED  BY <2>1, <2>2, <2>3, <2>4, <2>5 DEF SocketTypeOK
<1>2. OpenInv'  BY DEF SocketTypeOK, OpenInv, Sides
<1>3. MoveInv'  BY DEF SocketTypeOK, MoveInv
<1>4. ArgInv'  BY DEF SocketTypeOK, ArgInv
<1>5. PollIsTrue'  BY DEF SocketTypeOK, PollIsTrue
<1>6. EofOnlyAfterClose'  BY DEF SocketTypeOK, EofOnlyAfterClose
<1> QED  BY <1>1, <1>2, <1>3, <1>4, <1>5, <1>6

(* Taking bytes changes what its own side may read, and it has acted on     *)
(* that, and adds to what the other may write.                             *)
LEMMA ReadTakeKeeps == ASSUME SocketIInv, NEW s \in Sides, ReadTake(s) PROVE SocketIInv'
<1> USE CapacityAssumption, RequestsAssumption, PeerFacts
<1> USE DEF SocketIInv, Enter, Goto, Arg, NoArg, ReadTake, Moved, Return, MoveInv
<1>1. SocketTypeOK'
  <2>1. (openCount \in 0..2 /\ unread \in [Sides -> 0..Capacity])'
    BY DEF SocketTypeOK, PollEvents
  <2>2. (pc \in [Sides -> {"idle", "closed", "readCheck", "read", "take",
                          "writeCheck", "write", "put", "poll"}])'
    BY DEF SocketTypeOK, PollEvents
  <2>3. (arg \in [Sides -> Args])'
    <3>1. PICK part \in 1..arg[s].bytes : Moved(s, part)  OBVIOUS
    <3>2. arg[s].bytes \in 0..Capacity  BY DEF SocketTypeOK
    <3> QED  BY <3>1, <3>2, MovedType
  <2>4. (told \in [Sides -> SUBSET {"in", "out", "hup"}])'
    BY DEF SocketTypeOK, PollEvents
  <2>5. (outcome \in [Sides -> {"data", "again", "eof"}])'
    BY DEF SocketTypeOK, PollEvents
  <2> QED  BY <2>1, <2>2, <2>3, <2>4, <2>5 DEF SocketTypeOK
<1>2. OpenInv'  BY DEF SocketTypeOK, OpenInv, Sides
<1>3. MoveInv'  BY DEF SocketTypeOK, MoveInv
<1>4. ArgInv'  BY DEF SocketTypeOK, ArgInv
<1>5. PollIsTrue'  BY DEF SocketTypeOK, PollIsTrue
<1>6. EofOnlyAfterClose'  BY DEF SocketTypeOK, EofOnlyAfterClose
<1> QED  BY <1>1, <1>2, <1>3, <1>4, <1>5, <1>6

(* As ReadCheck *)
LEMMA WriteCheckKeeps == ASSUME SocketIInv, NEW s \in Sides, WriteCheck(s) PROVE SocketIInv'
<1> USE CapacityAssumption, RequestsAssumption, PeerFacts
<1> USE DEF SocketIInv, Enter, Goto, Arg, NoArg, WriteCheck, Forget, HungUp, Return
<1>1. SocketTypeOK'
  <2>1. (openCount \in 0..2 /\ unread \in [Sides -> 0..Capacity])'
    BY DEF SocketTypeOK, PollEvents
  <2>2. (pc \in [Sides -> {"idle", "closed", "readCheck", "read", "take",
                          "writeCheck", "write", "put", "poll"}])'
    BY DEF SocketTypeOK, PollEvents
  <2>3. (arg \in [Sides -> Args])'
    <3>1. CASE Return(s)  BY <3>1, NoArgType, EnterType DEF SocketTypeOK
    <3>2. CASE arg' = arg  BY <3>2 DEF SocketTypeOK
    <3> QED  BY <3>1, <3>2
  <2>4. (told \in [Sides -> SUBSET {"in", "out", "hup"}])'
    BY DEF SocketTypeOK, PollEvents
  <2>5. (outcome \in [Sides -> {"data", "again", "eof"}])'
    BY DEF SocketTypeOK, PollEvents
  <2> QED  BY <2>1, <2>2, <2>3, <2>4, <2>5 DEF SocketTypeOK
<1>2. OpenInv'  BY DEF SocketTypeOK, OpenInv, Sides
<1>3. MoveInv'  BY DEF SocketTypeOK, MoveInv
<1>4. ArgInv'  BY DEF SocketTypeOK, ArgInv
<1>5. PollIsTrue'  BY DEF SocketTypeOK, PollIsTrue
<1>6. EofOnlyAfterClose'  BY DEF SocketTypeOK, EofOnlyAfterClose
<1> QED  BY <1>1, <1>2, <1>3, <1>4, <1>5, <1>6

(* The write is cut down to the room there is. *)
LEMMA WriteSpaceKeeps == ASSUME SocketIInv, NEW s \in Sides, WriteSpace(s) PROVE SocketIInv'
<1> USE CapacityAssumption, RequestsAssumption, PeerFacts
<1> USE DEF SocketIInv, Enter, Goto, Arg, NoArg, WriteSpace, Forget, Cut, Return,
    AtMost, ArgInv
<1>1. SocketTypeOK'
  <2>1. (openCount \in 0..2 /\ unread \in [Sides -> 0..Capacity])'
    BY DEF SocketTypeOK, PollEvents
  <2>2. (pc \in [Sides -> {"idle", "closed", "readCheck", "read", "take",
                          "writeCheck", "write", "put", "poll"}])'
    BY DEF SocketTypeOK, PollEvents
  <2>3. (arg \in [Sides -> Args])'
    <3>1. arg[s].bytes \in Requests  OBVIOUS
    <3>2. (Capacity - unread[Peer(s)]) \in 0..Capacity  BY DEF SocketTypeOK
    <3> QED  BY <3>1, <3>2, CutType
  <2>4. (told \in [Sides -> SUBSET {"in", "out", "hup"}])'
    BY DEF SocketTypeOK, PollEvents
  <2>5. (outcome \in [Sides -> {"data", "again", "eof"}])'
    BY DEF SocketTypeOK, PollEvents
  <2> QED  BY <2>1, <2>2, <2>3, <2>4, <2>5 DEF SocketTypeOK
<1>2. OpenInv'  BY DEF SocketTypeOK, OpenInv, Sides
<1>3. MoveInv'  BY DEF SocketTypeOK, MoveInv
<1>4. ArgInv'  BY DEF SocketTypeOK, ArgInv
<1>5. PollIsTrue'  BY DEF SocketTypeOK, PollIsTrue
<1>6. EofOnlyAfterClose'  BY DEF SocketTypeOK, EofOnlyAfterClose
<1> QED  BY <1>1, <1>2, <1>3, <1>4, <1>5, <1>6

(* As ReadTake, with the buffers the other way round *)
LEMMA WritePutKeeps == ASSUME SocketIInv, NEW s \in Sides, WritePut(s) PROVE SocketIInv'
<1> USE CapacityAssumption, RequestsAssumption, PeerFacts
<1> USE DEF SocketIInv, Enter, Goto, Arg, NoArg, WritePut, Moved, Return, MoveInv
<1>1. SocketTypeOK'
  <2>1. (openCount \in 0..2 /\ unread \in [Sides -> 0..Capacity])'
    BY DEF SocketTypeOK, PollEvents
  <2>2. (pc \in [Sides -> {"idle", "closed", "readCheck", "read", "take",
                          "writeCheck", "write", "put", "poll"}])'
    BY DEF SocketTypeOK, PollEvents
  <2>3. (arg \in [Sides -> Args])'
    <3>1. PICK part \in 1..arg[s].bytes : Moved(s, part)  OBVIOUS
    <3>2. arg[s].bytes \in 0..Capacity  BY DEF SocketTypeOK
    <3> QED  BY <3>1, <3>2, MovedType
  <2>4. (told \in [Sides -> SUBSET {"in", "out", "hup"}])'
    BY DEF SocketTypeOK, PollEvents
  <2>5. (outcome \in [Sides -> {"data", "again", "eof"}])'
    BY DEF SocketTypeOK, PollEvents
  <2> QED  BY <2>1, <2>2, <2>3, <2>4, <2>5 DEF SocketTypeOK
<1>2. OpenInv'  BY DEF SocketTypeOK, OpenInv, Sides
<1>3. MoveInv'  BY DEF SocketTypeOK, MoveInv
<1>4. ArgInv'  BY DEF SocketTypeOK, ArgInv
<1>5. PollIsTrue'  BY DEF SocketTypeOK, PollIsTrue
<1>6. EofOnlyAfterClose'  BY DEF SocketTypeOK, EofOnlyAfterClose
<1> QED  BY <1>1, <1>2, <1>3, <1>4, <1>5, <1>6

(* What poll tells is true at the scan. *)
LEMMA PollScanKeeps == ASSUME SocketIInv, NEW s \in Sides, PollScan(s) PROVE SocketIInv'
<1> USE CapacityAssumption, RequestsAssumption, PeerFacts
<1> USE DEF SocketIInv, Enter, Goto, Arg, NoArg, PollScan, Revents, HungUp,
    Readable, Writable, Return
<1>1. SocketTypeOK'
  <2>1. (openCount \in 0..2 /\ unread \in [Sides -> 0..Capacity])'
    BY DEF SocketTypeOK, PollEvents
  <2>2. (pc \in [Sides -> {"idle", "closed", "readCheck", "read", "take",
                          "writeCheck", "write", "put", "poll"}])'
    BY DEF SocketTypeOK, PollEvents
  <2>3. (arg \in [Sides -> Args])'
    BY NoArgType, EnterType
  <2>4. (told \in [Sides -> SUBSET {"in", "out", "hup"}])'
    <3>1. arg[s].events \subseteq PollEvents  BY DEF SocketTypeOK, Args
    <3>2. Revents(s) \subseteq {"in", "out", "hup"}  BY <3>1 DEF PollEvents
    <3>3. told' = [told EXCEPT ![s] = Revents(s)]  OBVIOUS
    <3> HIDE DEF Revents
    <3> QED  BY <3>2, <3>3 DEF SocketTypeOK
  <2>5. (outcome \in [Sides -> {"data", "again", "eof"}])'
    BY DEF SocketTypeOK, PollEvents
  <2> QED  BY <2>1, <2>2, <2>3, <2>4, <2>5 DEF SocketTypeOK
<1>2. OpenInv'  BY DEF SocketTypeOK, OpenInv, Sides
<1>3. MoveInv'  BY DEF SocketTypeOK, MoveInv
<1>4. ArgInv'  BY DEF SocketTypeOK, ArgInv
<1>5. PollIsTrue'  BY DEF SocketTypeOK, PollIsTrue
<1>6. EofOnlyAfterClose'  BY DEF SocketTypeOK, EofOnlyAfterClose
<1> QED  BY <1>1, <1>2, <1>3, <1>4, <1>5, <1>6

-----------------------------------------------------------------------------
LEMMA SocketNextKeeps == SocketIInv /\ [SocketNext]_socketVars => SocketIInv'
<1> SUFFICES ASSUME SocketIInv, [SocketNext]_socketVars PROVE SocketIInv'
  OBVIOUS
<1>1. CASE UNCHANGED socketVars
  BY <1>1 DEF socketVars, SocketIInv, SocketTypeOK, OpenInv, MoveInv, ArgInv,
     PollIsTrue,
              EofOnlyAfterClose
<1>2. CASE SocketNext
  <2>1. PICK s \in Sides : Call(s) \/ Step(s)
    BY <1>2 DEF SocketNext
  <2>2. CASE Call(s)
    BY <2>2, CallReadKeeps, CallWriteKeeps, CallPollKeeps, CloseKeeps DEF Call
  <2>3. CASE Step(s)
    BY <2>3, ReadCheckKeeps, ReadSpaceKeeps, ReadTakeKeeps, WriteCheckKeeps,
       WriteSpaceKeeps, WritePutKeeps, PollScanKeeps DEF Step
  <2> QED  BY <2>1, <2>2, <2>3
<1> QED  BY <1>1, <1>2

(* The inductive invariant holds in every reachable state, whatever the    *)
(* capacity of the buffers and the lengths of the calls.                   *)
THEOREM SocketInvariant == SocketSpec => []SocketIInv
BY SocketInitInv, SocketNextKeeps, PTL DEF SocketSpec

(* No write overfills a buffer and no read takes what is not there         *)
(* (buffer_write and buffer_read as connection_write and connection_read   *)
(* use them).                                                              *)
THEOREM SocketTypes == SocketSpec => []SocketTypeOK
<1>1. SocketIInv => SocketTypeOK  BY DEF SocketIInv
<1> QED  BY <1>1, SocketInvariant, PTL

(* After POLLIN a read does not block, and after POLLOUT a write does not, *)
(* whatever the other side has done since poll returned.                   *)
THEOREM PollKeepsItsWord == SocketSpec => []PollIsTrue
<1>1. SocketIInv => PollIsTrue  BY DEF SocketIInv
<1> QED  BY <1>1, SocketInvariant, PTL

(* connection_read returns 0 only when the other side has closed.          *)
THEOREM EofIsClose == SocketSpec => []EofOnlyAfterClose
<1>1. SocketIInv => EofOnlyAfterClose  BY DEF SocketIInv
<1> QED  BY <1>1, SocketInvariant, PTL

-----------------------------------------------------------------------------
(***************************************************************************)
(* The two buffers of a socket are buffers as ByteCount has them: that is  *)
(* all Socket assumes of the ring.                                         *)
(***************************************************************************)
LEMMA EnterChanges ==
  ASSUME SocketTypeOK, NEW t \in Sides, NEW next, NEW a, Enter(t, next, a)
  PROVE  /\ pc'[t] = next /\ arg'[t] = a
         /\ \A u \in Sides : u # t => pc'[u] = pc[u] /\ arg'[u] = arg[u]
BY DEF SocketTypeOK, Enter, Goto

(* Between two calls, and before the buffer is looked at, nothing is moved. *)
LEMMA NothingMoves ==
  ASSUME NEW t \in Sides, pc[t] \notin {"put", "take"}, pc'[t] \notin {"put", "take"},
         \A u \in Sides : u # t => pc'[u] = pc[u] /\ arg'[u] = arg[u],
         NEW s \in Sides
  PROVE  UNCHANGED <<PeerPuts(s), Takes(s)>>
BY PeerFacts DEF PeerPuts, Takes

(* What a step does to the buffer side s reads from. *)
Reserves(s, n) == /\ PeerPuts(s) = 0 /\ n <= Capacity - unread[s]
                  /\ PeerPuts(s)' = n /\ UNCHANGED <<unread[s], Takes(s)>>
Claims(s, n) == /\ Takes(s) = 0 /\ n <= unread[s]
                /\ Takes(s)' = n /\ UNCHANGED <<unread[s], PeerPuts(s)>>
Puts(s, n) == /\ n <= PeerPuts(s) /\ unread'[s] = unread[s] + n
              /\ PeerPuts(s)' = PeerPuts(s) - n /\ UNCHANGED Takes(s)
Takings(s, n) == /\ n <= Takes(s) /\ unread'[s] = unread[s] - n
                 /\ Takes(s)' = Takes(s) - n /\ UNCHANGED PeerPuts(s)
Keeps(s) == UNCHANGED <<unread[s], PeerPuts(s), Takes(s)>>
MovesAsCount(s) ==
  Keeps(s) \/ \E n \in 1..Capacity : Reserves(s, n) \/ Claims(s, n) \/ Puts(s, n) \/ Takings(s, n)

LEMMA QuietStep ==
  ASSUME SocketTypeOK, NEW t \in Sides, NEW s \in Sides,
         \/ CallRead(t) \/ ReadCheck(t) \/ CallWrite(t) \/ WriteCheck(t)
         \/ CallPoll(t) \/ PollScan(t) \/ Close(t)
  PROVE  MovesAsCount(s)
<1>1. unread' = unread
  BY DEF CallRead, ReadCheck, CallWrite, WriteCheck, CallPoll, PollScan, Close
<1>2. pc[t] \notin {"put", "take"}
  BY DEF CallRead, ReadCheck, CallWrite, WriteCheck, CallPoll, PollScan, Close
<1>3. pc'[t] \notin {"put", "take"}
  BY DEF CallRead, ReadCheck, CallWrite, WriteCheck, CallPoll, PollScan, Close,
     Return, Enter,
         Goto, SocketTypeOK
<1>4. \A u \in Sides : u # t => pc'[u] = pc[u] /\ arg'[u] = arg[u]
  BY DEF CallRead, ReadCheck, CallWrite, WriteCheck, CallPoll, PollScan, Close,
     Return, Enter,
         Goto, SocketTypeOK
<1>5. UNCHANGED <<PeerPuts(s), Takes(s)>>
  BY <1>2, <1>3, <1>4, NothingMoves
<1> QED BY <1>1, <1>5 DEF MovesAsCount, Keeps

LEMMA CutMoves ==
  ASSUME SocketTypeOK, NEW t \in Sides, NEW next, next \in {"put", "take"},
         NEW available \in 0..Capacity, arg[t].bytes \in Requests, Cut(t, next, available)
  PROVE  /\ \A u \in Sides : u # t => pc'[u] = pc[u] /\ arg'[u] = arg[u]
         /\ \/ pc'[t] = "idle"
            \/ \E n \in 1..Capacity : n <= available /\ pc'[t] = next /\ arg'[t].bytes = n
<1>1. CASE available = 0
  <2>1. Enter(t, "idle", NoArg) BY <1>1 DEF Cut, Return
  <2> QED BY <2>1, EnterChanges
<1>2. CASE available # 0
  <2> DEFINE n == AtMost(arg[t].bytes, available)
             a == Arg(n, {}, arg[t].waits)
  <2>1. arg[t].bytes \in Nat \ {0} BY RequestsAssumption
  <2>2. n \in 1..Capacity /\ n <= available
    BY <1>2, <2>1, CapacityAssumption DEF AtMost
  <2>3. a.bytes = n BY DEF Arg
  <2>4. Enter(t, next, a) BY <1>2 DEF Cut
  <2> HIDE DEF n, a
  <2>5. /\ pc'[t] = next /\ arg'[t] = a
        /\ \A u \in Sides : u # t => pc'[u] = pc[u] /\ arg'[u] = arg[u]
    BY <2>4, EnterChanges
  <2> QED BY <2>2, <2>3, <2>5
<1> QED BY <1>1, <1>2

LEMMA MovedMoves ==
  ASSUME SocketTypeOK, NEW t \in Sides, arg[t].bytes \in Nat,
         NEW part \in 1..arg[t].bytes, Moved(t, part)
  PROVE  /\ \A u \in Sides : u # t => pc'[u] = pc[u] /\ arg'[u] = arg[u]
         /\ \/ pc'[t] = "idle" /\ arg[t].bytes - part = 0
            \/ pc'[t] = pc[t] /\ arg'[t].bytes = arg[t].bytes - part
<1>1. CASE part = arg[t].bytes
  <2>1. Enter(t, "idle", NoArg) BY <1>1 DEF Moved, Return
  <2>2. arg[t].bytes - part = 0 BY <1>1
  <2> QED BY <2>1, <2>2, EnterChanges
<1>2. CASE part # arg[t].bytes
  <2> DEFINE a == Arg(arg[t].bytes - part, {}, arg[t].waits)
  <2>1. a.bytes = arg[t].bytes - part BY DEF Arg
  <2>2. Enter(t, pc[t], a) BY <1>2 DEF Moved
  <2> HIDE DEF a
  <2>3. /\ pc'[t] = pc[t] /\ arg'[t] = a
        /\ \A u \in Sides : u # t => pc'[u] = pc[u] /\ arg'[u] = arg[u]
    BY <2>2, EnterChanges
  <2> QED BY <2>1, <2>3
<1> QED BY <1>1, <1>2

LEMMA ReadStepMoves ==
  ASSUME SocketIInv, NEW t \in Sides, NEW s \in Sides, ReadSpace(t) \/ ReadTake(t)
  PROVE  MovesAsCount(s)
<1>0. SocketTypeOK /\ ArgInv /\ MoveInv /\ unread \in [Sides -> 0..Capacity]
  BY DEF SocketIInv, SocketTypeOK
<1>1. CASE ReadSpace(t)
  <2>1. arg[t].bytes \in Requests /\ unread[t] \in 0..Capacity /\ unread' = unread
        /\ pc[t] = "read" /\ Cut(t, "take", unread[t])
    BY <1>0, <1>1 DEF ReadSpace, ArgInv
  <2>2. \A u \in Sides : u # t => pc'[u] = pc[u] /\ arg'[u] = arg[u]
    BY <1>0, <2>1, CutMoves
  <2>3. \/ pc'[t] = "idle"
        \/ \E n \in 1..Capacity : n <= unread[t] /\ pc'[t] = "take" /\ arg'[t].bytes = n
    BY <1>0, <2>1, CutMoves
  <2>4. CASE pc'[t] = "idle"
    <3>1. UNCHANGED <<PeerPuts(s), Takes(s)>>
      BY <2>1, <2>2, <2>4, NothingMoves
    <3> QED BY <2>1, <3>1 DEF MovesAsCount, Keeps
  <2>5. CASE \E n \in 1..Capacity : n <= unread[t] /\ pc'[t] = "take" /\ arg'[t].bytes = n
    <3>1. PICK n \in 1..Capacity : n <= unread[t] /\ pc'[t] = "take" /\ arg'[t].bytes = n
      BY <2>5
    <3>2. CASE s = t
      <4>1. Takes(s) = 0 /\ Takes(s)' = n BY <2>1, <3>1, <3>2 DEF Takes
      <4>2. UNCHANGED PeerPuts(s) BY <2>2, <3>2, PeerFacts DEF PeerPuts
      <4>3. Claims(s, n) BY <2>1, <3>1, <3>2, <4>1, <4>2 DEF Claims
      <4> QED BY <4>3 DEF MovesAsCount
    <3>3. CASE s # t
      <4>1. Peer(s) = t BY <3>3, PeerFacts
      <4>2. UNCHANGED <<PeerPuts(s), Takes(s)>>
        BY <2>1, <2>2, <3>1, <3>3, <4>1 DEF PeerPuts, Takes
      <4> QED BY <2>1, <4>2 DEF MovesAsCount, Keeps
    <3> QED BY <3>2, <3>3
  <2> QED BY <2>3, <2>4, <2>5
<1>2. CASE ReadTake(t)
  <2>1. PICK part \in 1..arg[t].bytes :
          unread' = [unread EXCEPT ![t] = @ - part] /\ Moved(t, part)
    BY <1>2 DEF ReadTake
  <2>2. pc[t] = "take" /\ arg[t].bytes \in 1..unread[t]
    BY <1>0, <1>2 DEF ReadTake, MoveInv
  <2>3. arg[t].bytes \in Nat /\ part \in 1..Capacity /\ unread[t] \in 0..Capacity
    BY <1>0, <2>1, <2>2, CapacityAssumption
  <2>4. \A u \in Sides : u # t => pc'[u] = pc[u] /\ arg'[u] = arg[u]
    BY <1>0, <2>1, <2>3, MovedMoves
  <2>5. \/ pc'[t] = "idle" /\ arg[t].bytes - part = 0
        \/ pc'[t] = pc[t] /\ arg'[t].bytes = arg[t].bytes - part
    BY <1>0, <2>1, <2>3, MovedMoves
  <2>6. CASE s = t
    <3>1. Takes(s) = arg[t].bytes /\ Takes(s)' = arg[t].bytes - part
      BY <2>2, <2>5, <2>6 DEF Takes
    <3>2. UNCHANGED PeerPuts(s) BY <2>4, <2>6, PeerFacts DEF PeerPuts
    <3>3. unread'[s] = unread[s] - part BY <1>0, <2>1, <2>6
    <3>4. Takings(s, part) BY <2>1, <2>3, <3>1, <3>2, <3>3 DEF Takings
    <3> QED BY <2>3, <3>4 DEF MovesAsCount
  <2>7. CASE s # t
    <3>1. Peer(s) = t BY <2>7, PeerFacts
    <3>2. UNCHANGED <<PeerPuts(s), Takes(s)>>
      BY <2>2, <2>4, <2>5, <2>7, <3>1 DEF PeerPuts, Takes
    <3>3. unread'[s] = unread[s] BY <1>0, <2>1, <2>7
    <3> QED BY <3>2, <3>3 DEF MovesAsCount, Keeps
  <2> QED BY <2>6, <2>7
<1> QED BY <1>1, <1>2

LEMMA WriteStepMoves ==
  ASSUME SocketIInv, NEW t \in Sides, NEW s \in Sides, WriteSpace(t) \/ WritePut(t)
  PROVE  MovesAsCount(s)
<1>0. SocketTypeOK /\ ArgInv /\ MoveInv /\ unread \in [Sides -> 0..Capacity]
  BY DEF SocketIInv, SocketTypeOK
<1>9. Peer(t) \in Sides /\ (s = Peer(t) <=> s # t) /\ (s # t => Peer(s) = t) BY
      PeerFacts
<1>1. CASE WriteSpace(t)
  <2> DEFINE free == Capacity - unread[Peer(t)]
  <2>1. arg[t].bytes \in Requests /\ unread' = unread
        /\ pc[t] = "write" /\ Cut(t, "put", free)
    BY <1>0, <1>1 DEF WriteSpace, ArgInv
  <2>0. free \in 0..Capacity BY <1>0, <1>9, CapacityAssumption
  <2>2. \A u \in Sides : u # t => pc'[u] = pc[u] /\ arg'[u] = arg[u]
    BY <1>0, <2>0, <2>1, CutMoves
  <2>3. \/ pc'[t] = "idle"
        \/ \E n \in 1..Capacity : n <= free /\ pc'[t] = "put" /\ arg'[t].bytes = n
    BY <1>0, <2>0, <2>1, CutMoves
  <2>4. CASE pc'[t] = "idle"
    <3>1. UNCHANGED <<PeerPuts(s), Takes(s)>>
      BY <2>1, <2>2, <2>4, NothingMoves
    <3> QED BY <2>1, <3>1 DEF MovesAsCount, Keeps
  <2>5. CASE \E n \in 1..Capacity : n <= free /\ pc'[t] = "put" /\ arg'[t].bytes = n
    <3>1. PICK n \in 1..Capacity : n <= free /\ pc'[t] = "put" /\ arg'[t].bytes = n
      BY <2>5
    <3>2. CASE s # t
      <4>1. PeerPuts(s) = 0 /\ PeerPuts(s)' = n BY <1>9, <2>1, <3>1, <3>2
            DEF PeerPuts
      <4>2. UNCHANGED Takes(s) BY <2>2, <3>2 DEF Takes
      <4>3. Reserves(s, n) BY <1>9, <2>1, <3>1, <3>2, <4>1, <4>2 DEF Reserves
      <4> QED BY <4>3 DEF MovesAsCount
    <3>3. CASE s = t
      <4>1. Peer(s) # t BY <3>3, PeerFacts
      <4>2. UNCHANGED <<PeerPuts(s), Takes(s)>>
        BY <1>9, <2>1, <2>2, <3>1, <3>3, <4>1 DEF PeerPuts, Takes
      <4> QED BY <2>1, <4>2 DEF MovesAsCount, Keeps
    <3> QED BY <3>2, <3>3
  <2> QED BY <2>3, <2>4, <2>5
<1>2. CASE WritePut(t)
  <2>1. PICK part \in 1..arg[t].bytes :
          unread' = [unread EXCEPT ![Peer(t)] = @ + part] /\ Moved(t, part)
    BY <1>2 DEF WritePut
  <2>2. pc[t] = "put" /\ arg[t].bytes \in 1..(Capacity - unread[Peer(t)])
    BY <1>0, <1>2 DEF WritePut, MoveInv
  <2>3. arg[t].bytes \in Nat /\ part \in 1..Capacity
    BY <1>0, <1>9, <2>1, <2>2, CapacityAssumption
  <2>4. \A u \in Sides : u # t => pc'[u] = pc[u] /\ arg'[u] = arg[u]
    BY <1>0, <2>1, <2>3, MovedMoves
  <2>5. \/ pc'[t] = "idle" /\ arg[t].bytes - part = 0
        \/ pc'[t] = pc[t] /\ arg'[t].bytes = arg[t].bytes - part
    BY <1>0, <2>1, <2>3, MovedMoves
  <2>6. CASE s # t
    <3>1. PeerPuts(s) = arg[t].bytes /\ PeerPuts(s)' = arg[t].bytes - part
      BY <1>9, <2>2, <2>5, <2>6 DEF PeerPuts
    <3>2. UNCHANGED Takes(s) BY <2>4, <2>6 DEF Takes
    <3>3. unread'[s] = unread[s] + part BY <1>0, <1>9, <2>1, <2>6
    <3>4. Puts(s, part) BY <2>1, <2>3, <3>1, <3>2, <3>3 DEF Puts
    <3> QED BY <2>3, <3>4 DEF MovesAsCount
  <2>7. CASE s = t
    <3>1. Peer(s) # t BY <2>7, PeerFacts
    <3>2. UNCHANGED <<PeerPuts(s), Takes(s)>>
      BY <1>9, <2>2, <2>4, <2>5, <2>7, <3>1 DEF PeerPuts, Takes
    <3>3. unread'[s] = unread[s] BY <1>0, <1>9, <2>1, <2>7, <3>1
    <3> QED BY <3>2, <3>3 DEF MovesAsCount, Keeps
  <2> QED BY <2>6, <2>7
<1> QED BY <1>1, <1>2

LEMMA SocketMoves ==
  ASSUME SocketIInv, [SocketNext]_socketVars, NEW s \in Sides
  PROVE  MovesAsCount(s)
<1>1. ASSUME NEW t \in Sides, Call(t) \/ Step(t) PROVE MovesAsCount(s)
  <2>1. SocketTypeOK BY DEF SocketIInv
  <2> QED BY <1>1, <2>1, QuietStep, ReadStepMoves, WriteStepMoves DEF Call,
             Step
<1>2. ASSUME UNCHANGED socketVars PROVE MovesAsCount(s)
  BY <1>2 DEF socketVars, MovesAsCount, Keeps, PeerPuts, Takes
<1> QED BY <1>1, <1>2 DEF SocketNext

(* Each of the two buffers of a connection moves as ByteCount says, and as *)
(* RingCountsBytes says of the ring: what Socket assumes of a buffer is    *)
(* what the ring, under every interleaving of its accesses, does.          *)
THEOREM SocketCountsBytes == SocketSpec => ServerBuffer!Spec /\ ClientBuffer!Spec
<1>0. "client" \in Sides /\ "server" \in Sides BY DEF Sides
<1>1. SocketInit => ServerBuffer!Init /\ ClientBuffer!Init
  BY <1>0, PeerFacts DEF SocketInit, ServerBuffer!Init, ClientBuffer!Init,
     PeerPuts, Takes
<1>2. SocketIInv /\ [SocketNext]_socketVars => [ServerBuffer!Next]_(ServerBuffer!vars)
  <2>1. MovesAsCount("client") => [ServerBuffer!Next]_(ServerBuffer!vars)
    BY DEF MovesAsCount, Keeps, Reserves, Claims, Puts, Takings,
       ServerBuffer!Next,
           ServerBuffer!Reserve, ServerBuffer!Claim, ServerBuffer!Put, ServerBuffer!Take,
           ServerBuffer!vars
  <2> QED BY <1>0, <2>1, SocketMoves
<1>3. SocketIInv /\ [SocketNext]_socketVars => [ClientBuffer!Next]_(ClientBuffer!vars)
  <2>1. MovesAsCount("server") => [ClientBuffer!Next]_(ClientBuffer!vars)
    BY DEF MovesAsCount, Keeps, Reserves, Claims, Puts, Takings,
       ClientBuffer!Next,
           ClientBuffer!Reserve, ClientBuffer!Claim, ClientBuffer!Put, ClientBuffer!Take,
           ClientBuffer!vars
  <2> QED BY <1>0, <2>1, SocketMoves
<1> QED
  BY <1>1, <1>2, <1>3, SocketInvariant, PTL DEF SocketSpec, ServerBuffer!Spec,
     ClientBuffer!Spec

=============================================================================
