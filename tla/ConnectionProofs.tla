-------------------------- MODULE ConnectionProofs --------------------------
(* Connection for every set of children, every modulus and every world:    *)
(* the parts of IInv are preserved by each action.                         *)
EXTENDS ConnectionInv, FiniteSetTheorems, TLAPS

(* References counts two sets of processes, so the proofs follow one       *)
(* process at a time: Weight is what a process at pc s contributes.        *)
Refs(f) == Cardinality({q \in Procs : f[q] \in HoldingPCs})
             + Cardinality({q \in Procs : f[q] = "fork"})
Weight(s) ==
  (IF s \in HoldingPCs THEN 1 ELSE 0) + (IF s = "fork" THEN 1 ELSE 0)

(* The two ends are different processes. *)
LEMMA TwoEnds ==
  Client \in Procs /\ Server \in Procs /\ Client # Server
PROOF BY ProcsAssumption DEF Procs

(* There are finitely many processes. *)
LEMMA ProcsFinite ==
  IsFiniteSet(Procs) /\ Cardinality(Procs) \in Nat
PROOF
  <1>1. IsFiniteSet({Client}) /\ IsFiniteSet({Server})
    BY FS_Singleton
  <1>2. IsFiniteSet({Client, Server})
    BY <1>1, FS_AddElement
  <1>3. IsFiniteSet(Procs)
    BY <1>2, FS_Union, ProcsAssumption DEF Procs
  <1> QED
    BY <1>3, FS_CardinalityType

(* A subset of the processes gains or loses one. *)
LEMMA AddOrDrop ==
  ASSUME NEW S \in SUBSET Procs, NEW p \in Procs
  PROVE  /\ IsFiniteSet(S)
         /\ Cardinality(S) \in 0..Cardinality(Procs)
         /\ Cardinality(S \cup {p}) = Cardinality(S) + (IF p \in S THEN 0 ELSE 1)
         /\ Cardinality(S \ {p}) = Cardinality(S) - (IF p \in S THEN 1 ELSE 0)
PROOF
  <1>1. /\ IsFiniteSet(S)
        /\ Cardinality(S) <= Cardinality(Procs)
    BY ProcsFinite, FS_Subset
  <1>2. Cardinality(S) \in Nat
    BY <1>1, FS_CardinalityType
  <1>3. Cardinality(S \cup {p}) = Cardinality(S) + (IF p \in S THEN 0 ELSE 1)
    BY <1>1, <1>2, FS_AddElement
  <1>4. Cardinality(S \ {p}) = Cardinality(S) - (IF p \in S THEN 1 ELSE 0)
    <2>1. CASE p \in S
      BY <1>1, <1>2, <2>1, FS_RemoveElement
    <2>2. CASE p \notin S
      BY <1>2, <2>2, S \ {p} = S
    <2> QED
      BY <2>1, <2>2
  <1> QED
    BY <1>1, <1>2, <1>3, <1>4, ProcsFinite

(* A process that moves takes its weight from one pc to the other. *)
LEMMA RefsMove ==
  ASSUME NEW f \in [Procs -> PCs], NEW p \in Procs, NEW next \in PCs
  PROVE  /\ Refs(f) \in 0..2 * Cardinality(Procs)
         /\ Refs([f EXCEPT ![p] = next]) = Refs(f) - Weight(f[p]) + Weight(next)
PROOF
  <1> DEFINE g == [f EXCEPT ![p] = next]
             H(h) == {q \in Procs : h[q] \in HoldingPCs}
             F(h) == {q \in Procs : h[q] = "fork"}
  <1>1. H(g) = IF next \in HoldingPCs THEN H(f) \cup {p} ELSE H(f) \ {p}
    OBVIOUS
  <1>2. F(g) = IF next = "fork" THEN F(f) \cup {p} ELSE F(f) \ {p}
    OBVIOUS
  <1>3. H(f) \in SUBSET Procs /\ F(f) \in SUBSET Procs
    OBVIOUS
  <1>4. /\ p \in H(f) <=> f[p] \in HoldingPCs
        /\ p \in F(f) <=> f[p] = "fork"
    OBVIOUS
  <1>5. Refs(f) = Cardinality(H(f)) + Cardinality(F(f))
    BY DEF Refs
  <1>6. Refs(g) = Cardinality(H(g)) + Cardinality(F(g))
    BY DEF Refs
  <1>7. /\ Cardinality(H(f)) \in 0..Cardinality(Procs)
        /\ Cardinality(H(g)) = Cardinality(H(f))
              - (IF f[p] \in HoldingPCs THEN 1 ELSE 0)
              + (IF next \in HoldingPCs THEN 1 ELSE 0)
    <2> HIDE DEF H
    <2>1. /\ Cardinality(H(f)) \in 0..Cardinality(Procs)
          /\ Cardinality(H(f) \cup {p})
               = Cardinality(H(f)) + (IF p \in H(f) THEN 0 ELSE 1)
          /\ Cardinality(H(f) \ {p})
               = Cardinality(H(f)) - (IF p \in H(f) THEN 1 ELSE 0)
      BY <1>3, AddOrDrop
    <2> QED
      BY <1>1, <1>4, <2>1, ProcsFinite
  <1>8. /\ Cardinality(F(f)) \in 0..Cardinality(Procs)
        /\ Cardinality(F(g)) = Cardinality(F(f))
              - (IF f[p] = "fork" THEN 1 ELSE 0)
              + (IF next = "fork" THEN 1 ELSE 0)
    <2> HIDE DEF F
    <2>1. /\ Cardinality(F(f)) \in 0..Cardinality(Procs)
          /\ Cardinality(F(f) \cup {p})
               = Cardinality(F(f)) + (IF p \in F(f) THEN 0 ELSE 1)
          /\ Cardinality(F(f) \ {p})
               = Cardinality(F(f)) - (IF p \in F(f) THEN 1 ELSE 0)
      BY <1>3, AddOrDrop
    <2> QED
      BY <1>2, <1>4, <2>1, ProcsFinite
  <1> HIDE DEF H, F, g
  <1>9. Refs(g) = Refs(f) - Weight(f[p]) + Weight(next)
    BY <1>5, <1>6, <1>7, <1>8, ProcsFinite DEF Weight
  <1> QED
    BY <1>5, <1>7, <1>8, <1>9, ProcsFinite DEF g

(* The same of the model's definitions *)
LEMMA GotoCounts ==
  ASSUME TypeOK, NEW p \in Procs, NEW next \in PCs, Goto(p, next)
  PROVE  /\ References \in 0..2 * Cardinality(Procs)
         /\ References' \in 0..2 * Cardinality(Procs)
         /\ References' = References - Weight(pc[p]) + Weight(next)
         /\ Holders' = IF next \in HoldingPCs THEN Holders \cup {p}
                                              ELSE Holders \ {p}
PROOF
  <1>1. pc \in [Procs -> PCs] /\ pc' = [pc EXCEPT ![p] = next]
    BY DEF TypeOK, Goto
  <1>2. References = Refs(pc) /\ References' = Refs(pc')
    BY DEF References, Refs, Holders, Forking
  <1>3. Holders' = IF next \in HoldingPCs THEN Holders \cup {p} ELSE Holders \ {p}
    BY <1>1 DEF Holders
  <1> QED
    BY <1>1, <1>2, <1>3, RefsMove

(* A count of zero is nobody's. *)
LEMMA NoReferences ==
  ASSUME TypeOK
  PROVE  /\ References \in Nat
         /\ References = 0 <=> Holders = {}
         /\ \A p \in Procs : pc[p] \in HoldingPCs => References >= Weight(pc[p])
         /\ \A p, q \in Procs :
              p # q /\ pc[p] \in HoldingPCs /\ pc[q] \in HoldingPCs
                => References >= 2
PROOF
  <1>1. Holders \in SUBSET Procs /\ Forking \in SUBSET Holders
    BY DEF Holders, Forking, HoldingPCs
  <1>2. IsFiniteSet(Holders) /\ Cardinality(Holders) \in Nat
    BY <1>1, AddOrDrop, FS_Subset, ProcsFinite, FS_CardinalityType
  <1>3. Cardinality(Forking) \in Nat /\ Cardinality(Forking) <= Cardinality(Holders)
    BY <1>1, <1>2, FS_Subset, FS_CardinalityType
  <1>4. Cardinality(Holders) = 0 <=> Holders = {}
    BY <1>2, FS_EmptySet
  <1>5. References \in Nat /\ (References = 0 <=> Holders = {})
    BY <1>2, <1>3, <1>4 DEF References
  <1>6. ASSUME NEW p \in Procs, pc[p] \in HoldingPCs
        PROVE  References >= Weight(pc[p])
    <2>1. Cardinality(Holders) # 0
      BY <1>4, <1>6 DEF Holders
    <2>2. pc[p] = "fork" => Cardinality(Forking) # 0
      BY <1>1, <1>2, <1>6, FS_Subset, FS_EmptySet DEF Forking
    <2> QED
      BY <1>2, <1>3, <2>1, <2>2 DEF References, Weight
  <1>7. ASSUME NEW p \in Procs, NEW q \in Procs, p # q,
               pc[p] \in HoldingPCs, pc[q] \in HoldingPCs
        PROVE  References >= 2
    <2>1. IsFiniteSet({p}) /\ Cardinality({p}) = 1
      BY FS_Singleton
    <2>a. q \notin {p}
      BY <1>7
    <2>2. Cardinality({p} \cup {q}) = 2
      BY <2>1, <2>a, FS_AddElement
    <2>3. {p} \cup {q} \subseteq Holders
      BY <1>7 DEF Holders
    <2>4. Cardinality(Holders) >= 2
      BY <1>2, <2>2, <2>3, FS_Subset
    <2> QED
      BY <1>2, <1>3, <2>4 DEF References
  <1> QED
    BY <1>5, <1>6, <1>7
(* TypeOK by the kind of its variables *)
CountOK ==
  /\ openCount \in 0..CountModulus-1
  /\ world.faults = {} => openCount <= 2 * Cardinality(Procs)
ShapeOK ==
  /\ attached \subseteq Procs
  /\ side \in [Procs -> {"client", "server", "none"}]
  /\ pc \in [Procs -> PCs]
  /\ session \in [Procs -> {"none", "valid", "stale"}]
  /\ exiting \in [Procs -> {"no", "yes", "twice"}]
FlagsOK ==
  /\ created \in BOOLEAN /\ removed \in BOOLEAN
  /\ idSent \in BOOLEAN /\ idRead \in BOOLEAN /\ synced \in BOOLEAN

(* A count that does not wrap *)
LEMMA CountSteps ==
  ASSUME openCount \in 0..CountModulus-1
  PROVE  /\ (openCount + 1) % CountModulus \in 0..CountModulus-1
         /\ (openCount + CountModulus - 1) % CountModulus \in 0..CountModulus-1
         /\ openCount + 1 < CountModulus =>
              (openCount + 1) % CountModulus = openCount + 1
         /\ openCount > 0 =>
              (openCount + CountModulus - 1) % CountModulus = openCount - 1
PROOF
  <1>1. CountModulus \in Nat /\ CountModulus > 0
    BY CountAssumption, ProcsFinite
  <1>2. \A n \in Nat : n % CountModulus \in 0..CountModulus-1
    BY <1>1
  <1>3. \A n \in 0..CountModulus-1 : n % CountModulus = n
    BY <1>1
  <1>4. \A n \in 0..CountModulus-1 : (n + CountModulus) % CountModulus = n
    BY <1>1, SMTT(30)
  <1>5. openCount > 0 =>
          (openCount + CountModulus - 1) % CountModulus = openCount - 1
    <2>1. SUFFICES ASSUME openCount > 0
                   PROVE  (openCount + CountModulus - 1) % CountModulus
                            = openCount - 1
      OBVIOUS
    <2>2. openCount - 1 \in 0..CountModulus-1
      BY <1>1, <2>1
    <2>3. openCount + CountModulus - 1 = (openCount - 1) + CountModulus
      BY <1>1
    <2> QED
      BY <1>4, <2>2, <2>3
  <1>6. openCount + 1 \in Nat /\ openCount + CountModulus - 1 \in Nat
    BY <1>1
  <1> QED
    BY <1>1, <1>2, <1>3, <1>5, <1>6

(* One lemma for each action: it keeps every part of the invariant. *)
(* server_setup creates the segment with the count at one. *)
LEMMA SCreateStep ==
  ASSUME IInv, SCreate, world' = world
  PROVE  IInv'
PROOF
  <1>1. /\ References' = References + 1
        /\ References' \in 0..2 * Cardinality(Procs)
        /\ References \in 0..2 * Cardinality(Procs)
        /\ Holders' = Holders \cup {Server}
    BY TwoEnds, GotoCounts DEF SCreate, socket, IInv, PCs, Weight, HoldingPCs
  <1>2. openCount' = 1
    BY DEF SCreate
  <1>3. FaultlessInv'
    BY TwoEnds, <1>1, <1>2, NoReferences DEF SCreate, Goto, socket, IInv,
       TypeOK, FaultlessInv, NoneTwice, ConnectPCs, HandshakeInv, HoldingPCs
  <1>4. CountOK' /\ ShapeOK'
    BY TwoEnds, <1>1, <1>2, <1>3, ProcsFinite, CountAssumption DEF SCreate,
       Goto, socket, IInv, TypeOK, CountOK, ShapeOK, FaultlessInv, NoneTwice, PCs
  <1>5. FlagsOK'
    BY Zenon DEF SCreate, Goto, socket, IInv, TypeOK, FlagsOK
  <1>6. TypeOK'
    BY <1>4, <1>5, Zenon DEF TypeOK, CountOK, ShapeOK, FlagsOK
  <1>7. HandshakeInv'
    BY TwoEnds, <1>2, ProcsAssumption DEF SCreate, Goto, socket, IInv, TypeOK,
       HandshakeInv, ConnectPCs, Procs
  <1>8. SessionInv'
    BY TwoEnds DEF SCreate, Goto, socket, IInv, TypeOK, SessionInv,
       SubtractedPCs
  <1>9. MappedInv'
    BY TwoEnds DEF SCreate, Goto, socket, IInv, TypeOK, HandshakeInv,
       SessionInv, SubtractedPCs, MappedInv, TouchesMapped
  <1>10. CountInv'
    BY TwoEnds, <1>1, <1>2, NoReferences DEF SCreate, Goto, socket, IInv,
       TypeOK, CountInv, NoneTwice, HandshakeInv, HoldingPCs, ConnectPCs, Procs
  <1> QED
    BY <1>3, <1>6, <1>7, <1>8, <1>9, <1>10 DEF SCreate, IInv

(* The id is sent, or the server disconnects. *)
LEMMA SSendIdStep ==
  ASSUME IInv, SSendId, world' = world
  PROVE  IInv'
PROOF
  <1>1. /\ References' = References
        /\ References' \in 0..2 * Cardinality(Procs)
        /\ References \in 0..2 * Cardinality(Procs)
        /\ Holders' = Holders \cup {Server}
    <2>1. CASE pc[Client] = "gone"
      BY TwoEnds, <2>1, GotoCounts DEF SSendId, IInv, PCs, Weight, HoldingPCs
    <2>2. CASE pc[Client] # "gone"
      BY TwoEnds, <2>2, GotoCounts DEF SSendId, IInv, PCs, Weight, HoldingPCs
    <2> QED
      BY <2>1, <2>2 DEF SSendId
  <1>2. openCount' = openCount
    BY DEF SSendId, Goto, shm
  <1>3. FaultlessInv'
    BY TwoEnds, <1>1, <1>2 DEF SSendId, Goto, shm, IInv, TypeOK, FaultlessInv,
       NoneTwice,
       ConnectPCs
  <1>4. CountOK' /\ ShapeOK'
    BY TwoEnds, <1>1, <1>2, <1>3, ProcsFinite, CountAssumption DEF SSendId,
       Goto, shm, IInv, TypeOK, CountOK, ShapeOK, FaultlessInv, NoneTwice, PCs
  <1>5. FlagsOK'
    BY Zenon DEF SSendId, Goto, shm, IInv, TypeOK, FlagsOK
  <1>6. TypeOK'
    BY <1>4, <1>5, Zenon DEF TypeOK, CountOK, ShapeOK, FlagsOK
  <1>7. HandshakeInv'
    BY TwoEnds, <1>2, ProcsAssumption DEF SSendId, Goto, shm, IInv, TypeOK,
       HandshakeInv, ConnectPCs, Procs
  <1>8. SessionInv'
    BY TwoEnds DEF SSendId, Goto, shm, IInv, TypeOK, SessionInv, SubtractedPCs
  <1>9. MappedInv'
    BY TwoEnds DEF SSendId, Goto, shm, IInv, TypeOK, HandshakeInv, SessionInv,
       SubtractedPCs,
       MappedInv, TouchesMapped
  <1>10. CountInv'
    BY TwoEnds, <1>1, <1>2, ProcsAssumption, NoReferences DEF SSendId, Goto,
       shm, IInv, TypeOK, CountInv, NoneTwice, HandshakeInv, HoldingPCs, Weight
  <1> QED
    BY <1>3, <1>6, <1>7, <1>8, <1>9, <1>10 DEF SSendId, IInv

(* accept ends; the segment is left behind when the read fails. *)
LEMMA SSyncStep ==
  ASSUME IInv, SSync, world' = world
  PROVE  IInv'
PROOF
  <1>1. /\ References' = References - Weight(pc[Server]) + Weight(pc'[Server])
        /\ References' \in 0..2 * Cardinality(Procs)
        /\ References \in 0..2 * Cardinality(Procs)
        /\ Holders' = IF pc'[Server] = "open" THEN Holders \cup {Server}
                            ELSE Holders \ {Server}
    <2>1. Goto(Server, "open") \/ Goto(Server, "failed")
      BY DEF SSync, SInsert
    <2>2. CASE Goto(Server, "open")
      BY TwoEnds, <2>2, GotoCounts DEF Goto, IInv, TypeOK, PCs, HoldingPCs
    <2>3. CASE Goto(Server, "failed")
      BY TwoEnds, <2>3, GotoCounts DEF Goto, IInv, TypeOK, PCs, HoldingPCs
    <2> QED
      BY <2>1, <2>2, <2>3
  <1>2. openCount' = openCount
    BY DEF SSync, SInsert, Goto, SetSession, shm, socket
  <1>3. FaultlessInv'
    BY TwoEnds, <1>1, <1>2 DEF SSync, SInsert, Goto, SetSession, shm, socket,
       IInv, TypeOK, FaultlessInv, NoneTwice, ConnectPCs, HandshakeInv, HoldingPCs, Weight
  <1>4. CountOK' /\ ShapeOK'
    BY TwoEnds, <1>1, <1>2, <1>3, ProcsFinite, CountAssumption DEF SSync,
       SInsert, Goto, SetSession, shm, socket, IInv, TypeOK, CountOK, ShapeOK,
       FaultlessInv, NoneTwice, PCs
  <1>5. FlagsOK'
    BY Zenon DEF SSync, SInsert, Goto, SetSession, shm, socket, IInv, TypeOK,
       FlagsOK
  <1>6. TypeOK'
    BY <1>4, <1>5, Zenon DEF TypeOK, CountOK, ShapeOK, FlagsOK
  <1>7. HandshakeInv'
    BY TwoEnds, <1>2, ProcsAssumption DEF SSync, SInsert, Goto, SetSession,
       shm, socket, IInv, TypeOK, HandshakeInv, ConnectPCs, Procs
  <1>8. SessionInv'
    BY TwoEnds DEF SSync, SInsert, Goto, SetSession, shm, socket, IInv, TypeOK,
       SessionInv, SubtractedPCs
  <1>9. MappedInv'
    BY TwoEnds DEF SSync, SInsert, Goto, SetSession, shm, socket, IInv, TypeOK,
       HandshakeInv, SessionInv, SubtractedPCs, MappedInv, TouchesMapped
  <1>10. CountInv'
    BY TwoEnds, <1>1, <1>2, ProcsAssumption, NoReferences DEF SSync, SInsert,
       Goto, SetSession, shm, socket, IInv, TypeOK, CountInv, NoneTwice,
       HandshakeInv, HoldingPCs, Weight
  <1> QED
    BY <1>3, <1>6, <1>7, <1>8, <1>9, <1>10 DEF SSync, IInv

(* The client reads the id. *)
LEMMA CReadIdStep ==
  ASSUME IInv, CReadId, world' = world
  PROVE  IInv'
PROOF
  <1>1. /\ References' = References
        /\ References' \in 0..2 * Cardinality(Procs)
        /\ References \in 0..2 * Cardinality(Procs)
        /\ Holders' = Holders \ {Client}
    BY TwoEnds, GotoCounts DEF CReadId, shm, IInv, PCs, Weight, HoldingPCs
  <1>2. openCount' = openCount
    BY DEF CReadId, Goto, shm
  <1>3. FaultlessInv'
    BY TwoEnds, <1>1, <1>2 DEF CReadId, Goto, shm, IInv, TypeOK, FaultlessInv,
       NoneTwice,
       ConnectPCs
  <1>4. CountOK' /\ ShapeOK'
    BY TwoEnds, <1>1, <1>2, <1>3, ProcsFinite, CountAssumption DEF CReadId,
       Goto, shm, IInv, TypeOK, CountOK, ShapeOK, FaultlessInv, NoneTwice, PCs
  <1>5. FlagsOK'
    BY Zenon DEF CReadId, Goto, shm, IInv, TypeOK, FlagsOK
  <1>6. TypeOK'
    BY <1>4, <1>5, Zenon DEF TypeOK, CountOK, ShapeOK, FlagsOK
  <1>7. HandshakeInv'
    BY TwoEnds, <1>2, ProcsAssumption DEF CReadId, Goto, shm, IInv, TypeOK,
       HandshakeInv, ConnectPCs, Procs
  <1>8. SessionInv'
    BY TwoEnds DEF CReadId, Goto, shm, IInv, TypeOK, SessionInv, SubtractedPCs
  <1>9. MappedInv'
    BY TwoEnds DEF CReadId, Goto, shm, IInv, TypeOK, HandshakeInv, SessionInv,
       SubtractedPCs,
       MappedInv, TouchesMapped
  <1>10. CountInv'
    BY TwoEnds, <1>1, <1>2 DEF CReadId, Goto, shm, IInv, TypeOK, CountInv,
       NoneTwice
  <1> QED
    BY <1>3, <1>6, <1>7, <1>8, <1>9, <1>10 DEF CReadId, IInv

(* The read fails: only a fault lets it. *)
LEMMA CReadIdFailsStep ==
  ASSUME IInv, CReadIdFails, world' = world
  PROVE  IInv'
PROOF
  <1>1. /\ References' = References
        /\ References' \in 0..2 * Cardinality(Procs)
        /\ References \in 0..2 * Cardinality(Procs)
        /\ Holders' = Holders \ {Client}
    BY TwoEnds, GotoCounts DEF CReadIdFails, shm, socket, IInv, PCs, Weight,
       HoldingPCs
  <1>2. openCount' = openCount
    BY DEF CReadIdFails, Goto, shm, socket
  <1>3. FaultlessInv'
    BY TwoEnds, <1>1, <1>2 DEF CReadIdFails, Goto, shm, socket, IInv, TypeOK,
       FaultlessInv, NoneTwice, ConnectPCs
  <1>4. CountOK' /\ ShapeOK'
    BY TwoEnds, <1>1, <1>2, <1>3, ProcsFinite, CountAssumption DEF
       CReadIdFails, Goto, shm, socket, IInv, TypeOK, CountOK, ShapeOK,
       FaultlessInv, NoneTwice, PCs
  <1>5. FlagsOK'
    BY Zenon DEF CReadIdFails, Goto, shm, socket, IInv, TypeOK, FlagsOK
  <1>6. TypeOK'
    BY <1>4, <1>5, Zenon DEF TypeOK, CountOK, ShapeOK, FlagsOK
  <1>7. HandshakeInv'
    BY TwoEnds, <1>2, ProcsAssumption DEF CReadIdFails, Goto, shm, socket,
       IInv, TypeOK, HandshakeInv, ConnectPCs, Procs
  <1>8. SessionInv'
    BY TwoEnds DEF CReadIdFails, Goto, shm, socket, IInv, TypeOK, SessionInv,
       SubtractedPCs
  <1>9. MappedInv'
    BY TwoEnds DEF CReadIdFails, Goto, shm, socket, IInv, TypeOK, HandshakeInv,
       SessionInv, SubtractedPCs, MappedInv, TouchesMapped
  <1>10. CountInv'
    BY TwoEnds, <1>1, <1>2 DEF CReadIdFails, Goto, shm, socket, IInv, TypeOK,
       CountInv, NoneTwice
  <1> QED
    BY <1>3, <1>6, <1>7, <1>8, <1>9, <1>10 DEF CReadIdFails, IInv

(* End of file instead of the id: only faults end the server first. *)
LEMMA CReadIdEndStep ==
  ASSUME IInv, CReadIdEnd, world' = world
  PROVE  IInv'
PROOF
  <1>1. /\ References' = References
        /\ References' \in 0..2 * Cardinality(Procs)
        /\ References \in 0..2 * Cardinality(Procs)
        /\ Holders' = Holders \ {Client}
    BY TwoEnds, GotoCounts DEF CReadIdEnd, Die, socket, IInv, PCs, Weight,
       HoldingPCs
  <1>2. openCount' = openCount
    BY DEF CReadIdEnd, Goto, Die, socket
  <1>3. FaultlessInv'
    BY TwoEnds, <1>1, <1>2 DEF CReadIdEnd, Goto, Die, socket, IInv, TypeOK,
       FaultlessInv, NoneTwice, ConnectPCs
  <1>4. CountOK' /\ ShapeOK'
    BY TwoEnds, <1>1, <1>2, <1>3, ProcsFinite, CountAssumption DEF CReadIdEnd,
       Goto, Die, socket, IInv, TypeOK, CountOK, ShapeOK, FaultlessInv, NoneTwice, PCs
  <1>5. FlagsOK'
    BY Zenon DEF CReadIdEnd, Goto, Die, socket, IInv, TypeOK, FlagsOK
  <1>6. TypeOK'
    BY <1>4, <1>5, Zenon DEF TypeOK, CountOK, ShapeOK, FlagsOK
  <1>7. HandshakeInv'
    BY TwoEnds, <1>2, ProcsAssumption DEF CReadIdEnd, Goto, Die, socket, IInv,
       TypeOK, HandshakeInv, ConnectPCs, Procs
  <1>8. SessionInv'
    BY TwoEnds DEF CReadIdEnd, Goto, Die, socket, IInv, TypeOK, SessionInv,
       SubtractedPCs
  <1>9. MappedInv'
    BY TwoEnds DEF CReadIdEnd, Goto, Die, socket, IInv, TypeOK, HandshakeInv,
       SessionInv, SubtractedPCs, MappedInv, TouchesMapped
  <1>10. CountInv'
    BY TwoEnds, <1>1, <1>2 DEF CReadIdEnd, Goto, Die, socket, IInv, TypeOK,
       CountInv, NoneTwice
  <1> QED
    BY <1>3, <1>6, <1>7, <1>8, <1>9, <1>10 DEF CReadIdEnd, IInv

(* The client maps the segment. *)
LEMMA CAttachStep ==
  ASSUME IInv, CAttach, world' = world
  PROVE  IInv'
PROOF
  <1>1. /\ References' = References
        /\ References' \in 0..2 * Cardinality(Procs)
        /\ References \in 0..2 * Cardinality(Procs)
        /\ Holders' = Holders \ {Client}
    BY TwoEnds, GotoCounts DEF CAttach, socket, IInv, PCs, Weight, HoldingPCs
  <1>2. openCount' = openCount
    BY DEF CAttach, Goto, socket
  <1>3. FaultlessInv'
    BY TwoEnds, <1>1, <1>2 DEF CAttach, Goto, socket, IInv, TypeOK,
       FaultlessInv, NoneTwice, ConnectPCs
  <1>4. CountOK' /\ ShapeOK'
    BY TwoEnds, <1>1, <1>2, <1>3, ProcsFinite, CountAssumption DEF CAttach,
       Goto, socket, IInv, TypeOK, CountOK, ShapeOK, FaultlessInv, NoneTwice, PCs
  <1>5. FlagsOK'
    BY Zenon DEF CAttach, Goto, socket, IInv, TypeOK, FlagsOK
  <1>6. TypeOK'
    BY <1>4, <1>5, Zenon DEF TypeOK, CountOK, ShapeOK, FlagsOK
  <1>7. HandshakeInv'
    BY TwoEnds, <1>2, ProcsAssumption DEF CAttach, Goto, socket, IInv, TypeOK,
       HandshakeInv, ConnectPCs, Procs
  <1>8. SessionInv'
    BY TwoEnds DEF CAttach, Goto, socket, IInv, TypeOK, SessionInv,
       SubtractedPCs
  <1>9. MappedInv'
    BY TwoEnds DEF CAttach, Goto, socket, IInv, TypeOK, HandshakeInv,
       SessionInv, SubtractedPCs, MappedInv, TouchesMapped
  <1>10. CountInv'
    BY TwoEnds, <1>1, <1>2 DEF CAttach, Goto, socket, IInv, TypeOK, CountInv,
       NoneTwice
  <1> QED
    BY <1>3, <1>6, <1>7, <1>8, <1>9, <1>10 DEF CAttach, IInv

(* The client counts itself; the count is at most one before. *)
LEMMA CIncrementStep ==
  ASSUME IInv, CIncrement, world' = world
  PROVE  IInv'
PROOF
  <1>1. /\ References' = References + 1
        /\ References' \in 0..2 * Cardinality(Procs)
        /\ References \in 0..2 * Cardinality(Procs)
        /\ Holders' = Holders \cup {Client}
    BY TwoEnds, GotoCounts DEF CIncrement, shm, socket, IInv, PCs, Weight,
       HoldingPCs
  <1>2. openCount' = openCount + 1
    BY <1>1, CountSteps, CountAssumption, ProcsFinite DEF CIncrement, IInv,
       TypeOK, HandshakeInv, ConnectPCs
  <1>3. FaultlessInv'
    BY TwoEnds, <1>1, <1>2 DEF CIncrement, Goto, shm, socket, IInv, TypeOK,
       FaultlessInv, NoneTwice, ConnectPCs
  <1>4. CountOK' /\ ShapeOK'
    BY TwoEnds, <1>1, <1>2, <1>3, ProcsFinite, CountAssumption DEF CIncrement,
       Goto, shm, socket, IInv, TypeOK, CountOK, ShapeOK, FaultlessInv, NoneTwice, PCs
  <1>5. FlagsOK'
    BY Zenon DEF CIncrement, Goto, shm, socket, IInv, TypeOK, FlagsOK
  <1>6. TypeOK'
    BY <1>4, <1>5, Zenon DEF TypeOK, CountOK, ShapeOK, FlagsOK
  <1>7. HandshakeInv'
    BY TwoEnds, <1>2, ProcsAssumption DEF CIncrement, Goto, shm, socket, IInv,
       TypeOK, HandshakeInv, ConnectPCs, Procs
  <1>8. SessionInv'
    BY TwoEnds DEF CIncrement, Goto, shm, socket, IInv, TypeOK, SessionInv,
       SubtractedPCs
  <1>9. MappedInv'
    BY TwoEnds DEF CIncrement, Goto, shm, socket, IInv, TypeOK, HandshakeInv,
       SessionInv, SubtractedPCs, MappedInv, TouchesMapped
  <1>10. CountInv'
    BY TwoEnds, <1>1, <1>2, ProcsAssumption DEF CIncrement, Goto, shm, socket,
       IInv, TypeOK, CountInv, NoneTwice, HandshakeInv, HoldingPCs, ConnectPCs,
       Procs
  <1> QED
    BY <1>3, <1>6, <1>7, <1>8, <1>9, <1>10 DEF CIncrement, IInv

(* connect ends; the connection is left behind when the write fails. *)
LEMMA CSendSyncStep ==
  ASSUME IInv, CSendSync, world' = world
  PROVE  IInv'
PROOF
  <1>1. /\ References' = References - Weight(pc[Client]) + Weight(pc'[Client])
        /\ References' \in 0..2 * Cardinality(Procs)
        /\ References \in 0..2 * Cardinality(Procs)
        /\ Holders' = IF pc'[Client] = "open" THEN Holders \cup {Client}
                            ELSE Holders \ {Client}
    <2>1. Goto(Client, "open") \/ Goto(Client, "failed")
      BY DEF CSendSync
    <2>2. CASE Goto(Client, "open")
      BY TwoEnds, <2>2, GotoCounts DEF Goto, IInv, TypeOK, PCs, HoldingPCs
    <2>3. CASE Goto(Client, "failed")
      BY TwoEnds, <2>3, GotoCounts DEF Goto, IInv, TypeOK, PCs, HoldingPCs
    <2> QED
      BY <2>1, <2>2, <2>3
  <1>2. openCount' = openCount
    BY DEF CSendSync, Goto, SetSession, shm
  <1>3. FaultlessInv'
    BY TwoEnds, <1>1, <1>2 DEF CSendSync, Goto, SetSession, shm, IInv, TypeOK,
       FaultlessInv, NoneTwice, ConnectPCs, HandshakeInv, HoldingPCs, Weight
  <1>4. CountOK' /\ ShapeOK'
    BY TwoEnds, <1>1, <1>2, <1>3, ProcsFinite, CountAssumption DEF CSendSync,
       Goto, SetSession, shm, IInv, TypeOK, CountOK, ShapeOK, FaultlessInv, NoneTwice, PCs
  <1>5. FlagsOK'
    BY Zenon DEF CSendSync, Goto, SetSession, shm, IInv, TypeOK, FlagsOK
  <1>6. TypeOK'
    BY <1>4, <1>5, Zenon DEF TypeOK, CountOK, ShapeOK, FlagsOK
  <1>7. HandshakeInv'
    BY TwoEnds, <1>2, ProcsAssumption DEF CSendSync, Goto, SetSession, shm,
       IInv, TypeOK, HandshakeInv, ConnectPCs, Procs
  <1>8. SessionInv'
    BY TwoEnds DEF CSendSync, Goto, SetSession, shm, IInv, TypeOK, SessionInv,
       SubtractedPCs
  <1>9. MappedInv'
    BY TwoEnds DEF CSendSync, Goto, SetSession, shm, IInv, TypeOK,
       HandshakeInv, SessionInv, SubtractedPCs, MappedInv, TouchesMapped
  <1>10. CountInv'
    BY TwoEnds, <1>1, <1>2, ProcsAssumption, NoReferences DEF CSendSync, Goto,
       SetSession, shm, IInv, TypeOK, CountInv, NoneTwice, HandshakeInv,
       HoldingPCs, Weight
  <1> QED
    BY <1>3, <1>6, <1>7, <1>8, <1>9, <1>10 DEF CSendSync, IInv

(* disconnect subtracts the count this process owns. *)
LEMMA SubStep ==
  ASSUME IInv, NEW p \in Procs, Sub(p), world' = world
  PROVE  IInv'
PROOF
  <1>1. /\ References' = References - 1
        /\ References' \in 0..2 * Cardinality(Procs)
        /\ References \in 0..2 * Cardinality(Procs)
        /\ Holders' = Holders \ {p}
    BY TwoEnds, GotoCounts DEF Sub, shm, socket, IInv, PCs, Weight, HoldingPCs
  <1>2. /\ openCount' \in 0..CountModulus-1
        /\ openCount > 0 => openCount' = openCount - 1
    BY CountSteps DEF Sub, IInv, TypeOK
  <1>3. FaultlessInv'
    BY TwoEnds, <1>1, <1>2, NoReferences, ProcsAssumption DEF Sub, Goto, shm,
       socket, IInv, TypeOK, FaultlessInv, NoneTwice, ConnectPCs, HandshakeInv, Procs,
       HoldingPCs
  <1>4. CountOK' /\ ShapeOK'
    BY TwoEnds, <1>1, <1>2, <1>3, ProcsFinite, CountAssumption DEF Sub, Goto,
       shm, socket, IInv, TypeOK, CountOK, ShapeOK, FaultlessInv, NoneTwice, PCs
  <1>5. FlagsOK'
    BY Zenon DEF Sub, Goto, shm, socket, IInv, TypeOK, FlagsOK
  <1>6. TypeOK'
    BY <1>4, <1>5, Zenon DEF TypeOK, CountOK, ShapeOK, FlagsOK
  <1>7. HandshakeInv'
    BY TwoEnds, <1>2, ProcsAssumption DEF Sub, Goto, shm, socket, IInv, TypeOK,
       HandshakeInv, ConnectPCs, Procs
  <1>8. SessionInv'
    BY TwoEnds DEF Sub, Goto, shm, socket, IInv, TypeOK, SessionInv,
       SubtractedPCs
  <1>9. MappedInv'
    BY TwoEnds DEF Sub, Goto, shm, socket, IInv, TypeOK, HandshakeInv,
       SessionInv, SubtractedPCs, MappedInv, TouchesMapped
  <1>10. CountInv'
    BY TwoEnds, <1>1, <1>2, NoReferences, ProcsAssumption DEF Sub, Goto, shm,
       socket, IInv, TypeOK, CountInv, NoneTwice, HandshakeInv, HoldingPCs,
       ConnectPCs, Procs, Weight
  <1> QED
    BY <1>3, <1>6, <1>7, <1>8, <1>9, <1>10 DEF Sub, IInv

(* Only an exit handler inside disconnect faults. *)
LEMMA SubFaultsStep ==
  ASSUME IInv, NEW p \in Procs, SubFaults(p), world' = world
  PROVE  IInv'
PROOF
  <1>1. /\ References' = References - 1
        /\ References' \in 0..2 * Cardinality(Procs)
        /\ References \in 0..2 * Cardinality(Procs)
        /\ Holders' = Holders \ {p}
    BY TwoEnds, GotoCounts DEF SubFaults, Die, socket, IInv,
       PCs, Weight, HoldingPCs
  <1>2. openCount' = openCount
    BY DEF SubFaults, Goto, Die, socket
  <1>3. FaultlessInv'
    BY TwoEnds, <1>1, <1>2 DEF SubFaults,
       Goto, Die, socket, IInv, TypeOK, FaultlessInv, NoneTwice, MappedInv,
       TouchesMapped
  <1>4. CountOK' /\ ShapeOK'
    BY TwoEnds, <1>1, <1>2, <1>3, ProcsFinite, CountAssumption DEF
       SubFaults, Goto, Die, socket, IInv, TypeOK, CountOK,
       ShapeOK, FaultlessInv, NoneTwice, PCs
  <1>5. FlagsOK'
    BY Zenon DEF SubFaults, Goto, Die, socket, IInv, TypeOK,
       FlagsOK
  <1>6. TypeOK'
    BY <1>4, <1>5, Zenon DEF TypeOK, CountOK, ShapeOK, FlagsOK
  <1>7. HandshakeInv'
    BY TwoEnds, <1>2, ProcsAssumption DEF SubFaults, Goto, Die,
       socket, IInv, TypeOK, HandshakeInv, ConnectPCs, Procs
  <1>8. SessionInv'
    BY TwoEnds DEF SubFaults, Goto, Die, socket, IInv, TypeOK,
       SessionInv, SubtractedPCs
  <1>9. MappedInv'
    BY TwoEnds DEF SubFaults, Goto, Die, socket, IInv, TypeOK,
       HandshakeInv, SessionInv, SubtractedPCs, MappedInv, TouchesMapped
  <1>10. CountInv'
    BY TwoEnds, <1>1, <1>2, NoReferences, ProcsAssumption DEF SubFaults,
       Goto, Die, socket, IInv, TypeOK, CountInv, NoneTwice,
       HandshakeInv, HoldingPCs, ConnectPCs, Procs, Weight
  <1> QED
    BY <1>3, <1>6, <1>7, <1>8, <1>9, <1>10 DEF SubFaults, IInv

(* A process that reads zero is right: nobody has the connection. *)
LEMMA LoadStep ==
  ASSUME IInv, NEW p \in Procs, Load(p), world' = world
  PROVE  IInv'
PROOF
  <1>1. /\ References' = References
        /\ References' \in 0..2 * Cardinality(Procs)
        /\ References \in 0..2 * Cardinality(Procs)
        /\ Holders' = Holders \ {p}
    <2>1. CASE openCount = 0
      BY TwoEnds, <2>1, GotoCounts DEF Load, IInv, PCs, Weight, HoldingPCs
    <2>2. CASE openCount # 0
      BY TwoEnds, <2>2, GotoCounts DEF Load, IInv, PCs, Weight, HoldingPCs
    <2> QED
      BY <2>1, <2>2 DEF Load
  <1>2. openCount' = openCount
    BY DEF Load, Goto, shm, socket
  <1>3. FaultlessInv'
    BY TwoEnds, <1>1, <1>2, NoReferences, ProcsAssumption DEF Load, Goto, shm,
       socket, IInv, TypeOK, FaultlessInv, NoneTwice, ConnectPCs, HandshakeInv, Procs,
       HoldingPCs
  <1>4. CountOK' /\ ShapeOK'
    BY TwoEnds, <1>1, <1>2, <1>3, ProcsFinite, CountAssumption DEF Load, Goto,
       shm, socket, IInv, TypeOK, CountOK, ShapeOK, FaultlessInv, NoneTwice, PCs
  <1>5. FlagsOK'
    BY Zenon DEF Load, Goto, shm, socket, IInv, TypeOK, FlagsOK
  <1>6. TypeOK'
    BY <1>4, <1>5, Zenon DEF TypeOK, CountOK, ShapeOK, FlagsOK
  <1>7. HandshakeInv'
    BY TwoEnds, <1>2, ProcsAssumption DEF Load, Goto, shm, socket, IInv,
       TypeOK, HandshakeInv, ConnectPCs, Procs
  <1>8. SessionInv'
    BY TwoEnds DEF Load, Goto, shm, socket, IInv, TypeOK, SessionInv,
       SubtractedPCs
  <1>9. MappedInv'
    BY TwoEnds DEF Load, Goto, shm, socket, IInv, TypeOK, HandshakeInv,
       SessionInv, SubtractedPCs, MappedInv, TouchesMapped
  <1>10. CountInv'
    BY TwoEnds, <1>1, <1>2, NoReferences, ProcsAssumption DEF Load, Goto, shm,
       socket, IInv, TypeOK, CountInv, NoneTwice, HandshakeInv, HoldingPCs,
       ConnectPCs, Procs
  <1> QED
    BY <1>3, <1>6, <1>7, <1>8, <1>9, <1>10 DEF Load, IInv

(* shmdt: nothing but a disconnect under way is left unmapped. *)
LEMMA DetachStep ==
  ASSUME IInv, NEW p \in Procs, Detach(p), world' = world
  PROVE  IInv'
PROOF
  <1>1. /\ References' = References
        /\ References' \in 0..2 * Cardinality(Procs)
        /\ References \in 0..2 * Cardinality(Procs)
        /\ Holders' = Holders \ {p}
    BY TwoEnds, GotoCounts DEF Detach, socket,
       IInv, PCs, Weight, HoldingPCs
  <1>2. openCount' = openCount
    BY DEF Detach, Goto, socket
  <1>3. FaultlessInv'
    BY TwoEnds, <1>1, <1>2, NoReferences, ProcsAssumption DEF Detach,
       Goto, socket, IInv, TypeOK, FaultlessInv, NoneTwice,
       ConnectPCs, HandshakeInv, Procs, HoldingPCs
  <1>4. CountOK' /\ ShapeOK'
    BY TwoEnds, <1>1, <1>2, <1>3, ProcsFinite, CountAssumption DEF Detach,
       Goto, socket, IInv, TypeOK, CountOK,
       ShapeOK, FaultlessInv, NoneTwice, PCs
  <1>5. FlagsOK'
    BY Zenon DEF Detach, Goto, socket, IInv,
       TypeOK, FlagsOK
  <1>6. TypeOK'
    BY <1>4, <1>5, Zenon DEF TypeOK, CountOK, ShapeOK, FlagsOK
  <1>7. HandshakeInv'
    BY TwoEnds, <1>2, ProcsAssumption DEF Detach, Goto,
       socket, IInv, TypeOK, HandshakeInv, ConnectPCs, Procs
  <1>8. SessionInv'
    BY TwoEnds DEF Detach, Goto, socket, IInv,
       TypeOK, SessionInv, SubtractedPCs
  <1>9. MappedInv'
    BY TwoEnds DEF Detach, Goto, socket, IInv,
       TypeOK, HandshakeInv, SessionInv, SubtractedPCs, MappedInv, TouchesMapped
  <1>10. CountInv'
    BY TwoEnds, <1>1, <1>2, NoReferences, ProcsAssumption DEF Detach,
       Goto, socket, IInv, TypeOK, CountInv,
       NoneTwice, HandshakeInv, HoldingPCs, ConnectPCs, Procs, Weight
  <1> QED
    BY <1>3, <1>6, <1>7, <1>8, <1>9, <1>10 DEF Detach, IInv

(* The connection is emptied. *)
LEMMA ResetStep ==
  ASSUME IInv, NEW p \in Procs, Reset(p), world' = world
  PROVE  IInv'
PROOF
  <1>1. /\ References' = References
        /\ References' \in 0..2 * Cardinality(Procs)
        /\ References \in 0..2 * Cardinality(Procs)
        /\ Holders' = Holders \ {p}
    BY TwoEnds, GotoCounts DEF Reset, SetSession, shm, socket, IInv, PCs,
       Weight, HoldingPCs
  <1>2. openCount' = openCount
    BY DEF Reset, Goto, SetSession, shm, socket
  <1>3. FaultlessInv'
    BY TwoEnds, <1>1, <1>2, NoReferences, ProcsAssumption DEF Reset, Goto,
       SetSession, shm, socket, IInv, TypeOK, FaultlessInv, NoneTwice, ConnectPCs,
       HandshakeInv, Procs, HoldingPCs
  <1>4. CountOK' /\ ShapeOK'
    BY TwoEnds, <1>1, <1>2, <1>3, ProcsFinite, CountAssumption DEF Reset,
       Goto, SetSession, shm, socket, IInv, TypeOK, CountOK, ShapeOK, FaultlessInv, NoneTwice,
       PCs
  <1>5. FlagsOK'
    BY Zenon DEF Reset, Goto, SetSession, shm, socket, IInv, TypeOK, FlagsOK
  <1>6. TypeOK'
    BY <1>4, <1>5, Zenon DEF TypeOK, CountOK, ShapeOK, FlagsOK
  <1>7. HandshakeInv'
    BY TwoEnds, <1>2, ProcsAssumption DEF Reset, Goto, SetSession, shm, socket,
       IInv, TypeOK, HandshakeInv, ConnectPCs, Procs
  <1>8. SessionInv'
    BY TwoEnds DEF Reset, Goto, SetSession, shm, socket, IInv, TypeOK,
       SessionInv, SubtractedPCs, MappedInv
  <1>9. MappedInv'
    BY TwoEnds DEF Reset, Goto, SetSession, shm, socket, IInv, TypeOK,
       HandshakeInv, SessionInv, SubtractedPCs, MappedInv, TouchesMapped
  <1>10. CountInv'
    BY TwoEnds, <1>1, <1>2, NoReferences, ProcsAssumption DEF Reset, Goto,
       SetSession, shm, socket, IInv, TypeOK, CountInv, NoneTwice, HandshakeInv,
       HoldingPCs, ConnectPCs, Procs, Weight
  <1> QED
    BY <1>3, <1>6, <1>7, <1>8, <1>9, <1>10 DEF Reset, IInv

(* The session is cleared. *)
LEMMA FreeStep ==
  ASSUME IInv, NEW p \in Procs, Free(p), world' = world
  PROVE  IInv'
PROOF
  <1>1. /\ References' = References
        /\ References' \in 0..2 * Cardinality(Procs)
        /\ References \in 0..2 * Cardinality(Procs)
        /\ Holders' = Holders \ {p}
    BY TwoEnds, GotoCounts DEF Free, AfterDisconnect, SetSession, shm, socket,
       IInv, PCs, Weight, HoldingPCs
  <1>2. openCount' = openCount
    BY DEF Free, AfterDisconnect, Goto, SetSession, shm, socket
  <1>3. FaultlessInv'
    BY TwoEnds, <1>1, <1>2, NoReferences, ProcsAssumption DEF Free,
       AfterDisconnect, Goto, SetSession, shm, socket, IInv, TypeOK, FaultlessInv, NoneTwice,
       ConnectPCs, HandshakeInv, Procs, HoldingPCs
  <1>4. CountOK' /\ ShapeOK'
    BY TwoEnds, <1>1, <1>2, <1>3, ProcsFinite, CountAssumption DEF Free,
       AfterDisconnect, Goto, SetSession, shm, socket, IInv, TypeOK, CountOK,
       ShapeOK, FaultlessInv, NoneTwice, PCs
  <1>5. FlagsOK'
    BY Zenon DEF Free, AfterDisconnect, Goto, SetSession, shm, socket, IInv,
       TypeOK, FlagsOK
  <1>6. TypeOK'
    BY <1>4, <1>5, Zenon DEF TypeOK, CountOK, ShapeOK, FlagsOK
  <1>7. HandshakeInv'
    BY TwoEnds, <1>2, ProcsAssumption DEF Free, AfterDisconnect, Goto,
       SetSession, shm, socket, IInv, TypeOK, HandshakeInv, ConnectPCs, Procs
  <1>8. SessionInv'
    BY TwoEnds DEF Free, AfterDisconnect, Goto, SetSession, shm, socket, IInv,
       TypeOK, SessionInv, SubtractedPCs
  <1>9. MappedInv'
    BY TwoEnds DEF Free, AfterDisconnect, Goto, SetSession, shm, socket, IInv,
       TypeOK, HandshakeInv, SessionInv, SubtractedPCs, MappedInv, TouchesMapped
  <1>10. CountInv'
    BY TwoEnds, <1>1, <1>2, NoReferences, ProcsAssumption DEF Free,
       AfterDisconnect, Goto, SetSession, shm, socket, IInv, TypeOK, CountInv,
       NoneTwice, HandshakeInv, HoldingPCs, ConnectPCs, Procs, Weight
  <1> QED
    BY <1>3, <1>6, <1>7, <1>8, <1>9, <1>10 DEF Free, IInv

(* IPC_RMID. *)
LEMMA DestroyStep ==
  ASSUME IInv, NEW p \in Procs, Destroy(p), world' = world
  PROVE  IInv'
PROOF
  <1>1. /\ References' = References
        /\ References' \in 0..2 * Cardinality(Procs)
        /\ References \in 0..2 * Cardinality(Procs)
        /\ Holders' = Holders \ {p}
    BY TwoEnds, GotoCounts DEF Destroy, socket,
       IInv, PCs, Weight, HoldingPCs
  <1>2. openCount' = openCount
    BY DEF Destroy, Goto, socket
  <1>3. FaultlessInv'
    BY TwoEnds, <1>1, <1>2, NoReferences, ProcsAssumption DEF Destroy,
       Goto, socket, IInv, TypeOK, FaultlessInv, NoneTwice,
       ConnectPCs, HandshakeInv, Procs, HoldingPCs
  <1>4. CountOK' /\ ShapeOK'
    BY TwoEnds, <1>1, <1>2, <1>3, ProcsFinite, CountAssumption DEF Destroy,
       Goto, socket, IInv, TypeOK, CountOK,
       ShapeOK, FaultlessInv, NoneTwice, PCs
  <1>5. FlagsOK'
    BY Zenon DEF Destroy, Goto, socket, IInv,
       TypeOK, FlagsOK
  <1>6. TypeOK'
    BY <1>4, <1>5, Zenon DEF TypeOK, CountOK, ShapeOK, FlagsOK
  <1>7. HandshakeInv'
    BY TwoEnds, <1>2, ProcsAssumption DEF Destroy, Goto,
       socket, IInv, TypeOK, HandshakeInv, ConnectPCs, Procs
  <1>8. SessionInv'
    BY TwoEnds DEF Destroy, Goto, socket, IInv,
       TypeOK, SessionInv, SubtractedPCs
  <1>9. MappedInv'
    BY TwoEnds DEF Destroy, Goto, socket, IInv,
       TypeOK, HandshakeInv, SessionInv, SubtractedPCs, MappedInv, TouchesMapped
  <1>10. CountInv'
    BY TwoEnds, <1>1, <1>2, NoReferences, ProcsAssumption DEF Destroy,
       Goto, socket, IInv, TypeOK, CountInv,
       NoneTwice, HandshakeInv, HoldingPCs, ConnectPCs, Procs, Weight
  <1> QED
    BY <1>3, <1>6, <1>7, <1>8, <1>9, <1>10 DEF Destroy, IInv

(* IPC_RMID a second time. *)
LEMMA DestroyThrowsStep ==
  ASSUME IInv, NEW p \in Procs, DestroyThrows(p), world' = world
  PROVE  IInv'
PROOF
  <1>1. /\ References' = References
        /\ References' \in 0..2 * Cardinality(Procs)
        /\ References \in 0..2 * Cardinality(Procs)
        /\ Holders' = Holders \ {p}
    BY TwoEnds, GotoCounts DEF DestroyThrows, Destroyed, Die, socket, IInv,
       PCs, Weight, HoldingPCs
  <1>2. openCount' = openCount
    BY DEF DestroyThrows, Destroyed, Goto, Die, socket
  <1>3. FaultlessInv'
    BY TwoEnds, <1>1, <1>2, NoReferences, ProcsAssumption DEF DestroyThrows,
       Destroyed, Goto, Die, socket, IInv, TypeOK, FaultlessInv, NoneTwice, ConnectPCs,
       HandshakeInv, Procs, HoldingPCs
  <1>4. CountOK' /\ ShapeOK'
    BY TwoEnds, <1>1, <1>2, <1>3, ProcsFinite, CountAssumption DEF
       DestroyThrows, Destroyed, Goto, Die, socket, IInv, TypeOK, CountOK,
       ShapeOK, FaultlessInv, NoneTwice, PCs
  <1>5. FlagsOK'
    BY Zenon DEF DestroyThrows, Destroyed, Goto, Die, socket, IInv, TypeOK,
       FlagsOK
  <1>6. TypeOK'
    BY <1>4, <1>5, Zenon DEF TypeOK, CountOK, ShapeOK, FlagsOK
  <1>7. HandshakeInv'
    BY TwoEnds, <1>2, ProcsAssumption DEF DestroyThrows, Destroyed, Goto, Die,
       socket, IInv, TypeOK, HandshakeInv, ConnectPCs, Procs
  <1>8. SessionInv'
    BY TwoEnds DEF DestroyThrows, Destroyed, Goto, Die, socket, IInv, TypeOK,
       SessionInv, SubtractedPCs
  <1>9. MappedInv'
    BY TwoEnds DEF DestroyThrows, Destroyed, Goto, Die, socket, IInv, TypeOK,
       HandshakeInv, SessionInv, SubtractedPCs, MappedInv, TouchesMapped
  <1>10. CountInv'
    BY TwoEnds, <1>1, <1>2, NoReferences, ProcsAssumption DEF DestroyThrows,
       Destroyed, Goto, Die, socket, IInv, TypeOK, CountInv, NoneTwice,
       HandshakeInv, HoldingPCs, ConnectPCs, Procs, Weight
  <1> QED
    BY <1>3, <1>6, <1>7, <1>8, <1>9, <1>10 DEF DestroyThrows, IInv

(* The application closes the descriptor. *)
LEMMA CloseStep ==
  ASSUME IInv, NEW p \in Procs, Close(p), world' = world
  PROVE  IInv'
PROOF
  <1>1. /\ References' = References
        /\ References' \in 0..2 * Cardinality(Procs)
        /\ References \in 0..2 * Cardinality(Procs)
        /\ Holders' = Holders \cup {p}
    BY TwoEnds, GotoCounts DEF Close, shm, socket, IInv, PCs, Weight,
       HoldingPCs
  <1>2. openCount' = openCount
    BY DEF Close, Goto, shm, socket
  <1>3. FaultlessInv'
    BY TwoEnds, <1>1, <1>2, NoReferences, ProcsAssumption DEF Close, Goto, shm,
       socket, IInv, TypeOK, FaultlessInv, NoneTwice, ConnectPCs, HandshakeInv, Procs,
       HoldingPCs
  <1>4. CountOK' /\ ShapeOK'
    BY TwoEnds, <1>1, <1>2, <1>3, ProcsFinite, CountAssumption DEF Close, Goto,
       shm, socket, IInv, TypeOK, CountOK, ShapeOK, FaultlessInv, NoneTwice, PCs
  <1>5. FlagsOK'
    BY Zenon DEF Close, Goto, shm, socket, IInv, TypeOK, FlagsOK
  <1>6. TypeOK'
    BY <1>4, <1>5, Zenon DEF TypeOK, CountOK, ShapeOK, FlagsOK
  <1>7. HandshakeInv'
    BY TwoEnds, <1>2, ProcsAssumption DEF Close, Goto, shm, socket, IInv,
       TypeOK, HandshakeInv, ConnectPCs, Procs
  <1>8. SessionInv'
    BY TwoEnds DEF Close, Goto, shm, socket, IInv, TypeOK, SessionInv,
       SubtractedPCs
  <1>9. MappedInv'
    BY TwoEnds DEF Close, Goto, shm, socket, IInv, TypeOK, HandshakeInv,
       SessionInv, SubtractedPCs, MappedInv, TouchesMapped
  <1>10. CountInv'
    BY TwoEnds, <1>1, <1>2, NoReferences, ProcsAssumption DEF Close, Goto, shm,
       socket, IInv, TypeOK, CountInv, NoneTwice, HandshakeInv, HoldingPCs,
       ConnectPCs, Procs, Weight
  <1> QED
    BY <1>3, <1>6, <1>7, <1>8, <1>9, <1>10 DEF Close, IInv

(* exit, from a resting process or from a signal handler: a session that   *)
(* is valid is disconnected, and a process inside disconnect does so       *)
(* twice.                                                                  *)
LEMMA RunExitHandlersStep ==
  ASSUME IInv, NEW p \in Procs,
         pc[p] \in Resting \/ (world.faults # {} /\ exiting[p] = "no"),
         pc[p] \notin {"absent", "gone"}, RunExitHandlers(p), world' = world
  PROVE  IInv'
PROOF
  <1>1. /\ References' = References - Weight(pc[p]) + Weight(pc'[p])
        /\ References' \in 0..2 * Cardinality(Procs)
        /\ References \in 0..2 * Cardinality(Procs)
        /\ Holders' = IF pc'[p] = "sub" THEN Holders \cup {p}
                          ELSE Holders \ {p}
    <2>1. Goto(p, "sub") \/ Goto(p, "gone")
      BY DEF RunExitHandlers, Die
    <2>2. CASE Goto(p, "sub")
      BY TwoEnds, <2>2, GotoCounts DEF Goto, IInv, TypeOK, PCs, HoldingPCs
    <2>3. CASE Goto(p, "gone")
      BY TwoEnds, <2>3, GotoCounts DEF Goto, IInv, TypeOK, PCs, HoldingPCs
    <2> QED
      BY <2>1, <2>2, <2>3
  <1>2. openCount' = openCount
    BY DEF RunExitHandlers, Goto, Die, socket
  <1>3. FaultlessInv'
    BY TwoEnds, <1>1, <1>2, ProcsAssumption DEF RunExitHandlers, Goto, Die,
       socket, IInv, TypeOK, FaultlessInv, NoneTwice, ConnectPCs, HandshakeInv,
       SessionInv, SubtractedPCs, Procs, HoldingPCs, Weight, Resting
  <1>4. CountOK' /\ ShapeOK'
    BY TwoEnds, <1>1, <1>2, <1>3, ProcsFinite, CountAssumption DEF
       RunExitHandlers, Goto, Die, socket, IInv, TypeOK, CountOK, ShapeOK,
       FaultlessInv, NoneTwice, PCs
  <1>5. FlagsOK'
    BY Zenon DEF RunExitHandlers, Goto, Die, socket, IInv, TypeOK, FlagsOK
  <1>6. TypeOK'
    BY <1>4, <1>5, Zenon DEF TypeOK, CountOK, ShapeOK, FlagsOK
  <1>7. HandshakeInv'
    BY TwoEnds, <1>2, ProcsAssumption DEF RunExitHandlers, Goto, Die, socket,
       IInv, TypeOK, HandshakeInv, ConnectPCs, Procs, SessionInv, SubtractedPCs, Resting
  <1>8. SessionInv'
    BY TwoEnds DEF RunExitHandlers, Goto, Die, socket, IInv, TypeOK,
       SessionInv, SubtractedPCs, Resting
  <1>9. MappedInv'
    BY TwoEnds DEF RunExitHandlers, Goto, Die, socket, IInv, TypeOK,
       HandshakeInv, SessionInv, SubtractedPCs, MappedInv, TouchesMapped, Resting
  <1>10. CountInv'
    <2>1. exiting[p] = "no"
      BY DEF IInv, SessionInv, SubtractedPCs, Resting
    <2> SUFFICES ASSUME NoneTwice'
                 PROVE  /\ openCount' >= References'
                        /\ removed' \/ (\E q \in Procs :
                               pc'[q] \in {"detachLast", "resetLast", "destroy"})
                             => Holders' = {}
      BY DEF CountInv
    <2>2. NoneTwice /\ pc[p] \notin SubtractedPCs
      BY <2>1 DEF RunExitHandlers, IInv, TypeOK, NoneTwice
    <2>3. /\ pc'[p] = "sub" => pc[p] \in {"open", "fork", "sub"}
          /\ pc' = [pc EXCEPT ![p] = pc'[p]] /\ pc'[p] \in {"sub", "gone"}
      BY <2>2 DEF RunExitHandlers, Goto, Die, IInv, TypeOK, SessionInv,
         SubtractedPCs
    <2>4. openCount' >= References'
      BY <1>1, <1>2, <2>2, <2>3 DEF IInv, TypeOK, CountInv, Weight, HoldingPCs
    <2>5. pc'[p] = "sub" => p \in Holders
      BY <2>3 DEF Holders, HoldingPCs
    <2>6. Holders' \subseteq Holders
      BY <1>1, <2>5
    <2>7. removed' = removed
      BY DEF RunExitHandlers
    <2> QED
      BY <2>2, <2>3, <2>4, <2>6, <2>7 DEF IInv, TypeOK, CountInv
  <1> QED
    BY <1>3, <1>6, <1>7, <1>8, <1>9, <1>10 DEF RunExitHandlers, IInv

(* fork counts the child before there is one. *)
LEMMA ForkAddStep ==
  ASSUME IInv, NEW p \in Procs, ForkAdd(p), world' = world
  PROVE  IInv'
PROOF
  <1>1. /\ References' = References + 1
        /\ References' \in 0..2 * Cardinality(Procs)
        /\ References \in 0..2 * Cardinality(Procs)
        /\ Holders' = Holders \cup {p}
    BY TwoEnds, GotoCounts DEF ForkAdd, shm, socket, IInv, PCs, Weight,
       HoldingPCs
  <1>2. openCount' = openCount + 1
    BY CountSteps DEF ForkAdd, CanFork, IInv, TypeOK
  <1>3. FaultlessInv'
    BY TwoEnds, <1>1, <1>2, NoReferences, ProcsAssumption DEF ForkAdd, Goto,
       shm, socket, IInv, TypeOK, FaultlessInv, NoneTwice, ConnectPCs, HandshakeInv,
       Procs, HoldingPCs
  <1>4. CountOK' /\ ShapeOK'
    BY TwoEnds, <1>1, <1>2, <1>3, ProcsFinite, CountAssumption DEF ForkAdd,
       Goto, shm, socket, IInv, TypeOK, CountOK, ShapeOK, FaultlessInv, NoneTwice, PCs
  <1>5. FlagsOK'
    BY Zenon DEF ForkAdd, Goto, shm, socket, IInv, TypeOK, FlagsOK
  <1>6. TypeOK'
    BY <1>4, <1>5, Zenon DEF TypeOK, CountOK, ShapeOK, FlagsOK
  <1>7. HandshakeInv'
    BY TwoEnds, <1>2, ProcsAssumption DEF ForkAdd, Goto, shm, socket, IInv,
       TypeOK, HandshakeInv, ConnectPCs, Procs
  <1>8. SessionInv'
    BY TwoEnds DEF ForkAdd, Goto, shm, socket, IInv, TypeOK, SessionInv,
       SubtractedPCs
  <1>9. MappedInv'
    BY TwoEnds DEF ForkAdd, Goto, shm, socket, IInv, TypeOK, HandshakeInv,
       SessionInv, SubtractedPCs, MappedInv, TouchesMapped
  <1>10. CountInv'
    BY TwoEnds, <1>1, <1>2, NoReferences, ProcsAssumption DEF ForkAdd, Goto,
       shm, socket, IInv, TypeOK, CountInv, NoneTwice, HandshakeInv,
       HoldingPCs, ConnectPCs, Procs, Weight
  <1> QED
    BY <1>3, <1>6, <1>7, <1>8, <1>9, <1>10 DEF ForkAdd, IInv

(* The child takes over the count of the fork and inherits the rest. *)
LEMMA ForkStep ==
  ASSUME IInv, NEW p \in Procs, NEW c \in world.children, Fork(p, c),
         world' = world
  PROVE  IInv'
PROOF
  <1>1. /\ References' = References
        /\ References' \in 0..2 * Cardinality(Procs)
        /\ References \in 0..2 * Cardinality(Procs)
        /\ Holders' = Holders \cup {c}
    <2> DEFINE f == [pc EXCEPT ![p] = "open"]
    <2>1. c \in Procs /\ p # c
      BY WorldsAssumption DEF Fork, IInv, Procs
    <2>2. /\ pc \in [Procs -> PCs] /\ f \in [Procs -> PCs] /\ pc' \in [Procs -> PCs]
          /\ pc' = [f EXCEPT ![c] = "open"]
          /\ pc[p] = "fork" /\ f[c] = "absent"
          /\ "open" \in PCs
          /\ f = [pc EXCEPT ![p] = "open"]
      BY <2>1 DEF Fork, IInv, TypeOK, PCs
    <2> HIDE DEF f
    <2>3. /\ Refs(pc) \in 0..2 * Cardinality(Procs)
          /\ Refs(f) = Refs(pc) - Weight(pc[p]) + Weight("open")
      <3>1. \A n \in PCs : Refs([pc EXCEPT ![p] = n]) = Refs(pc) - Weight(pc[p]) + Weight(n)
        <4>1. pc \in [Procs -> PCs]
          BY <2>2
        <4> QED
          BY <4>1, RefsMove, Zenon
      <3>2. Refs([pc EXCEPT ![p] = "open"]) = Refs(f)
        BY <2>2, Zenon
      <3>3. Refs(pc) \in 0..2 * Cardinality(Procs)
        BY <2>2, RefsMove
      <3> QED
        BY <2>2, <3>1, <3>2, <3>3, Zenon
    <2>4. /\ Refs(f) \in 0..2 * Cardinality(Procs)
          /\ Refs(pc') = Refs(f) - Weight(f[c]) + Weight("open")
          /\ Refs(pc') \in 0..2 * Cardinality(Procs)
      BY <2>1, <2>2, RefsMove
    <2>5. Holders' = Holders \cup {c}
      BY <2>1, <2>2 DEF Holders, HoldingPCs
    <2>6. References = Refs(pc) /\ References' = Refs(pc')
      BY DEF References, Refs, Holders, Forking
    <2>7. Weight("open") = 1 /\ Weight(pc[p]) = 2 /\ Weight(f[c]) = 0
      BY <2>2 DEF Weight, HoldingPCs
    <2> QED
      BY <2>3, <2>4, <2>5, <2>6, <2>7, ProcsFinite
  <1>2. openCount' = openCount
    BY DEF Fork, SetSession, socket
  <1>3. FaultlessInv'
    BY TwoEnds, <1>1, <1>2, NoReferences, ProcsAssumption, WorldsAssumption DEF
       Fork, SetSession, socket, IInv, TypeOK, FaultlessInv, NoneTwice, ConnectPCs,
       HandshakeInv, Procs, HoldingPCs, Weight
  <1>4. CountOK' /\ ShapeOK'
    BY TwoEnds, <1>1, <1>2, <1>3, ProcsFinite, CountAssumption,
       WorldsAssumption DEF Fork, SetSession, socket, IInv, TypeOK, CountOK,
       ShapeOK, FaultlessInv, NoneTwice, PCs, Procs
  <1>5. FlagsOK'
    BY Zenon DEF Fork, SetSession, socket, IInv, TypeOK, FlagsOK
  <1>6. TypeOK'
    BY <1>4, <1>5, Zenon DEF TypeOK, CountOK, ShapeOK, FlagsOK
  <1>7. HandshakeInv'
    BY TwoEnds, <1>2, ProcsAssumption, WorldsAssumption DEF Fork, SetSession,
       socket, IInv, TypeOK, HandshakeInv, ConnectPCs, Procs
  <1>8. SessionInv'
    BY TwoEnds DEF Fork, SetSession, socket, IInv, TypeOK, SessionInv,
       SubtractedPCs
  <1>9. MappedInv'
    BY TwoEnds DEF Fork, SetSession, socket, IInv, TypeOK, HandshakeInv,
       SessionInv, SubtractedPCs, MappedInv, TouchesMapped
  <1>10. CountInv'
    BY TwoEnds, <1>1, <1>2, NoReferences, ProcsAssumption DEF Fork, SetSession,
       socket, IInv, TypeOK, CountInv, NoneTwice, HandshakeInv, HoldingPCs,
       ConnectPCs, Procs, Weight
  <1> QED
    BY <1>3, <1>6, <1>7, <1>8, <1>9, <1>10 DEF Fork, IInv

(* A failed fork leaves the count as it is: only a fault lets it. *)
LEMMA ForkFailsStep ==
  ASSUME IInv, NEW p \in Procs, ForkFails(p), world' = world
  PROVE  IInv'
PROOF
  <1>1. /\ References' = References - 1
        /\ References' \in 0..2 * Cardinality(Procs)
        /\ References \in 0..2 * Cardinality(Procs)
        /\ Holders' = Holders \cup {p}
    BY TwoEnds, GotoCounts DEF ForkFails, shm, socket, IInv, PCs, Weight,
       HoldingPCs
  <1>2. openCount' = openCount
    BY DEF ForkFails, Goto, shm, socket
  <1>3. FaultlessInv'
    BY TwoEnds, <1>1, <1>2, NoReferences, ProcsAssumption DEF ForkFails, Goto,
       shm, socket, IInv, TypeOK, FaultlessInv, NoneTwice, ConnectPCs, HandshakeInv,
       Procs, HoldingPCs
  <1>4. CountOK' /\ ShapeOK'
    BY TwoEnds, <1>1, <1>2, <1>3, ProcsFinite, CountAssumption DEF ForkFails,
       Goto, shm, socket, IInv, TypeOK, CountOK, ShapeOK, FaultlessInv, NoneTwice, PCs
  <1>5. FlagsOK'
    BY Zenon DEF ForkFails, Goto, shm, socket, IInv, TypeOK, FlagsOK
  <1>6. TypeOK'
    BY <1>4, <1>5, Zenon DEF TypeOK, CountOK, ShapeOK, FlagsOK
  <1>7. HandshakeInv'
    BY TwoEnds, <1>2, ProcsAssumption DEF ForkFails, Goto, shm, socket, IInv,
       TypeOK, HandshakeInv, ConnectPCs, Procs
  <1>8. SessionInv'
    BY TwoEnds DEF ForkFails, Goto, shm, socket, IInv, TypeOK, SessionInv,
       SubtractedPCs
  <1>9. MappedInv'
    BY TwoEnds DEF ForkFails, Goto, shm, socket, IInv, TypeOK, HandshakeInv,
       SessionInv, SubtractedPCs, MappedInv, TouchesMapped
  <1>10. CountInv'
    BY TwoEnds, <1>1, <1>2, NoReferences, ProcsAssumption DEF ForkFails, Goto,
       shm, socket, IInv, TypeOK, CountInv, NoneTwice, HandshakeInv,
       HoldingPCs, ConnectPCs, Procs, Weight
  <1> QED
    BY <1>3, <1>6, <1>7, <1>8, <1>9, <1>10 DEF ForkFails, IInv

(* A process is killed wherever it is: only a fault kills. *)
LEMMA CrashStep ==
  ASSUME IInv, NEW p \in Procs, Crash(p), world' = world
  PROVE  IInv'
PROOF
  <1>1. /\ References' = References - Weight(pc[p])
        /\ References' \in 0..2 * Cardinality(Procs)
        /\ References \in 0..2 * Cardinality(Procs)
        /\ Holders' = Holders \ {p}
    BY TwoEnds, GotoCounts DEF Crash, Die, socket, IInv, PCs, Weight,
       HoldingPCs
  <1>2. openCount' = openCount
    BY DEF Crash, Goto, Die, socket
  <1>3. FaultlessInv'
    BY TwoEnds, <1>1, <1>2, NoReferences, ProcsAssumption DEF Crash, Goto, Die,
       socket, IInv, TypeOK, FaultlessInv, NoneTwice, ConnectPCs, HandshakeInv, Procs,
       HoldingPCs
  <1>4. CountOK' /\ ShapeOK'
    BY TwoEnds, <1>1, <1>2, <1>3, ProcsFinite, CountAssumption DEF Crash, Goto,
       Die, socket, IInv, TypeOK, CountOK, ShapeOK, FaultlessInv, NoneTwice, PCs
  <1>5. FlagsOK'
    BY Zenon DEF Crash, Goto, Die, socket, IInv, TypeOK, FlagsOK
  <1>6. TypeOK'
    BY <1>4, <1>5, Zenon DEF TypeOK, CountOK, ShapeOK, FlagsOK
  <1>7. HandshakeInv'
    BY TwoEnds, <1>2, ProcsAssumption DEF Crash, Goto, Die, socket, IInv,
       TypeOK, HandshakeInv, ConnectPCs, Procs
  <1>8. SessionInv'
    BY TwoEnds DEF Crash, Goto, Die, socket, IInv, TypeOK, SessionInv,
       SubtractedPCs
  <1>9. MappedInv'
    BY TwoEnds DEF Crash, Goto, Die, socket, IInv, TypeOK, HandshakeInv,
       SessionInv, SubtractedPCs, MappedInv, TouchesMapped
  <1>10. CountInv'
    BY TwoEnds, <1>1, <1>2, NoReferences, ProcsAssumption DEF Crash, Goto, Die,
       socket, IInv, TypeOK, CountInv, NoneTwice, HandshakeInv, HoldingPCs,
       ConnectPCs, Procs, Weight
  <1> QED
    BY <1>3, <1>6, <1>7, <1>8, <1>9, <1>10 DEF Crash, IInv

-----------------------------------------------------------------------------
(* The invariant holds initially. *)
LEMMA InitInvariant ==
  Init => IInv
PROOF
  <1> SUFFICES ASSUME Init PROVE IInv
    OBVIOUS
  <1>1. CountOK /\ ShapeOK
    BY TwoEnds, ProcsFinite, CountAssumption
       DEF Init, CountOK, ShapeOK, PCs
  <1>2. FlagsOK
    BY Zenon DEF Init, FlagsOK
  <1>3. TypeOK
    BY <1>1, <1>2, Zenon DEF TypeOK, CountOK, ShapeOK, FlagsOK
  <1>4. Holders = {}
    BY TwoEnds DEF Init, Holders, HoldingPCs
  <1>5. References = 0
    BY <1>3, <1>4, NoReferences
  <1>6. HandshakeInv
    BY ProcsAssumption DEF Init, HandshakeInv, ConnectPCs, Procs
  <1>7. SessionInv /\ MappedInv
    BY TwoEnds
       DEF Init, SessionInv, SubtractedPCs, MappedInv, TouchesMapped
  <1>8. CountInv
    BY <1>4, <1>5 DEF Init, CountInv
  <1>9. FaultlessInv
    BY TwoEnds, ProcsAssumption, <1>5 DEF Init, FaultlessInv, NoneTwice,
       ConnectPCs
  <1> QED
    BY <1>3, <1>6, <1>7, <1>8, <1>9 DEF Init, IInv

(* Every step of the system keeps it. *)
LEMMA NextInvariant ==
  IInv /\ [Next]_vars => IInv'
PROOF
  <1> SUFFICES ASSUME IInv, [Next]_vars PROVE IInv'
    OBVIOUS
  <1>1. CASE Next
    <2>0. world' = world
      BY <1>1 DEF Next
    <2>1. CASE Accept
      BY <2>0, <2>1, SCreateStep, SSendIdStep, SSyncStep DEF Accept
    <2>2. CASE Connect
      BY <2>0, <2>2, CReadIdStep, CReadIdFailsStep, CReadIdEndStep,
         CAttachStep, CIncrementStep, CSendSyncStep DEF Connect
    <2>3. ASSUME NEW p \in Procs, Disconnect(p)
          PROVE  IInv'
      BY <2>0, <2>3, SubStep, SubFaultsStep, LoadStep, DetachStep, ResetStep,
         DestroyStep, DestroyThrowsStep, FreeStep DEF Disconnect
    <2>4. ASSUME NEW p \in Procs, ForkReturns(p)
          PROVE  IInv'
      BY <2>0, <2>4, ForkStep, ForkFailsStep DEF ForkReturns
    <2>5. ASSUME NEW p \in Procs, Exit(p)
          PROVE  IInv'
      <3>1. pc[p] \in Resting /\ RunExitHandlers(p)
        BY <2>5 DEF Exit
      <3>2. pc[p] \notin {"absent", "gone"}
        BY <3>1 DEF Resting
      <3> QED
        BY <2>0, <3>1, <3>2, RunExitHandlersStep
    <2>6. ASSUME NEW p \in Procs, Signal(p)
          PROVE  IInv'
      <3>1. world.faults # {} /\ RunExitHandlers(p) /\ exiting[p] = "no"
            /\ pc[p] \notin {"absent", "gone"}
        BY <2>6 DEF Signal
      <3> QED
        BY <2>0, <3>1, RunExitHandlersStep
    <2>7. ASSUME NEW p \in Procs, Close(p) \/ ForkAdd(p) \/ Crash(p)
          PROVE  IInv'
      BY <2>0, <2>7, CloseStep, ForkAddStep, CrashStep
    <2> QED
      BY <1>1, <2>1, <2>2, <2>3, <2>4, <2>5, <2>6, <2>7 DEF Next
  <1>2. CASE UNCHANGED vars
    <2>1. CountOK' /\ ShapeOK' /\ FlagsOK'
      BY <1>2 DEF IInv, TypeOK, CountOK, ShapeOK, FlagsOK, vars, state, shm,
         socket
    <2>2. TypeOK'
      BY <2>1, Zenon DEF TypeOK, CountOK, ShapeOK, FlagsOK
    <2>3. HandshakeInv' /\ SessionInv' /\ MappedInv'
      BY <1>2 DEF IInv, HandshakeInv, SessionInv, SubtractedPCs, MappedInv,
         TouchesMapped,
         vars, state, shm, socket
    <2>4. References' = References /\ Holders' = Holders
      BY <1>2 DEF References, Holders, Forking, vars, state
    <2>5. CountInv' /\ FaultlessInv'
      BY <1>2, <2>4 DEF IInv, CountInv, NoneTwice, FaultlessInv, vars, state,
         shm, socket
    <2> QED
      BY <1>2, <2>2, <2>3, <2>5 DEF IInv, vars
  <1> QED
    BY <1>1, <1>2

(* The strengthened invariant of the connection: for any number of         *)
(* children forked by either side, in every interleaving of the two        *)
(* handshakes, forks, closes, exits, signals and crashes.                  *)
THEOREM ConnectionInvariant ==
  Spec => []IInv
PROOF BY InitInvariant, NextInvariant, PTL DEF Spec

(* Every variable keeps its type; without faults the count is at most      *)
(* twice the number of processes and never wraps (connection.c).           *)
THEOREM ConnectionTyped ==
  Spec => []TypeOK
PROOF
  <1>1. IInv => TypeOK
    BY DEF IInv
  <1> QED
    BY <1>1, ConnectionInvariant, PTL

(* Without faults open_count is the number of processes that have the      *)
(* connection, whoever forks and closes in whatever order.                 *)
THEOREM ConnectionCountsUsers ==
  Spec => []CountIsReferences
PROOF
  <1>1. IInv => CountIsReferences
    BY DEF IInv, FaultlessInv, NoneTwice, CountIsReferences
  <1> QED
    BY <1>1, ConnectionInvariant, PTL

(* Whatever crashes, is signalled or fails, open_count only errs high: the *)
(* segment is removed when nobody uses it, and nobody is told of a hangup  *)
(* that has not happened, unless an exit handler disconnects a second      *)
(* time.                                                                   *)
THEOREM ConnectionFaultsErrHigh ==
  Spec => []FaultsErrHigh
PROOF
  <1>1. IInv => FaultsErrHigh
    <2> SUFFICES ASSUME IInv, NoneTwice
                 PROVE  openCount >= References /\ RemovedOnlyUnused
                          /\ NoFalseHangup
      BY DEF FaultsErrHigh, NoneTwice
    <2>1. openCount >= References
      BY DEF IInv, CountInv
    <2>2. RemovedOnlyUnused
      BY DEF IInv, CountInv, HandshakeInv, ConnectPCs, RemovedOnlyUnused
    <2>3. ASSUME NEW p \in Procs, SeesHangup(p), NEW q \in OtherSide(p)
          PROVE  pc[q] \notin HoldingPCs \cup {"start", "attach", "increment"}
      <3>1. q \in Procs /\ p # q
        BY DEF OtherSide
      <3>2. References < 2 /\ pc[p] = "open" /\ TypeOK
        <4>1. TypeOK /\ openCount = 1 /\ pc[p] = "open"
          BY <2>3 DEF SeesHangup, IInv
        <4>2. References \in Nat
          BY <4>1, NoReferences
        <4> QED
          BY <2>1, <4>1, <4>2
      <3>3. pc[q] \notin HoldingPCs
        <4>1. pc[p] \in HoldingPCs /\ References \in Nat /\ ~(References >= 2)
          BY <3>2, NoReferences DEF HoldingPCs
        <4> QED
          BY <3>1, <3>2, <4>1, NoReferences
      <3>4. pc[q] \notin {"start", "attach", "increment"}
        BY <3>1, <3>2, TwoEnds DEF IInv, HandshakeInv, ConnectPCs, Procs
      <3> QED
        BY <3>3, <3>4
    <2> QED
      BY <2>1, <2>2, <2>3 DEF NoFalseHangup
  <1> QED
    BY <1>1, ConnectionInvariant, PTL

(* Without faults the segment is gone when every process is through with   *)
(* it: the last of them has removed it (connection.c, disconnect).         *)
THEOREM ConnectionLeavesNoSegment ==
  Spec => []NoSegmentLeft
PROOF
  <1>1. IInv => NoSegmentLeft
    <2> SUFFICES ASSUME IInv, world.faults = {}, created,
                        \A p \in Procs : pc[p] \in Ended
                 PROVE  removed
      BY DEF NoSegmentLeft
    <2>1. TypeOK /\ openCount = References
      BY DEF IInv, FaultlessInv, NoneTwice
    <2>2. Holders = {}
      BY DEF Holders, HoldingPCs, Ended
    <2>3. openCount = 0
      BY <2>1, <2>2, NoReferences
    <2> QED
      BY <2>3 DEF IInv, FaultlessInv, NoneTwice, Ended
  <1> QED
    BY <1>1, ConnectionInvariant, PTL

(* Whoever touches open_count has the segment mapped, but for an exit      *)
(* handler that a signal has started inside disconnect, after the          *)
(* subtraction (session.c, bridge.c).                                      *)
THEOREM ConnectionTouchesMapped ==
  Spec => []TouchesMapped
PROOF
  <1>1. IInv => TouchesMapped
    BY DEF IInv, MappedInv
  <1> QED
    BY <1>1, ConnectionInvariant, PTL
=============================================================================
