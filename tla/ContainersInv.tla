---------------------------- MODULE ContainersInv ----------------------------
(***************************************************************************)
(* Why the containers are what they stand for: the inductive invariant of  *)
(* Containers.  A table is determined by its capacity and its nodes, a     *)
(* vector by the sequence in its allocation; what is said of each is about *)
(* the one allocation it has at the moment, since every resize makes a new *)
(* one.                                                                    *)
(***************************************************************************)
EXTENDS Containers

(***************************************************************************)
(* Tables.                                                                 *)
(***************************************************************************)

\* A table with exactly those nodes: each in the bucket of its key under the
\* present capacity, and the threshold of that capacity not passed.
IsTable(hash, t, nodes) ==
    /\ t = Table(t.size, t.threshold, t.capacity, TRUE, Spread(hash, nodes, t.capacity))
    /\ t.size \in Nat /\ t.capacity \in Nat /\ MinCapacity <= t.capacity
    /\ t.threshold = Threshold(t.capacity)
    /\ t.size <= t.threshold

\* A table without memory yet has no nodes.
Stores(hash, t, nodes) == (t = HT_INITIALIZER /\ nodes = {}) \/ IsTable(hash, t, nodes)

Pairs(map) == {Node(k, map[k]) : k \in DOMAIN map}

TableInv ==
    /\ dict \in [DOMAIN dict -> Value] /\ DOMAIN dict \subseteq Key
    /\ IsFiniteSet(DOMAIN dict) /\ table.size = Cardinality(DOMAIN dict)
    /\ Stores(_ht_hash, table, Pairs(dict))

StringNodes(strings) == {StringNode(s) : s \in strings}

SetInv ==
    /\ names \subseteq String
    /\ IsFiniteSet(names) /\ set.size = Cardinality(names)
    /\ Stores(_ss_hash, set, StringNodes(names))

-----------------------------------------------------------------------------
(***************************************************************************)
(* Vectors.                                                                *)
(***************************************************************************)

Cell == Element \cup {Junk}

\* The elements of the sequence are in their places; those that were never
\* written may be anything.
Agrees(s, contents) ==
    /\ Len(s) = Len(contents)
    /\ \A p \in 1 .. Len(s) : s[p] = Unset \/ s[p] = contents[p]

\* The copy of an empty vector: memory, but no room.
IsHollow(v) ==
    /\ v = [size |-> v.size, capacity |-> 0, live |-> TRUE, data |-> v.data]
    /\ v.size \in Nat /\ v.data \in [{} -> Cell]

\* A vector that lost its memory is not looked at again.
Stands(v, s) ==
    \/ v.live = FALSE
    \/ IsVector(v) /\ Agrees(s, Contents(v))
    \/ IsHollow(v) /\ v.size = Len(s)

VectorInv ==
    /\ DOMAIN vec = Vec /\ seq \in [Vec -> Seq(Element \cup {Unset})]
    /\ \A i \in Vec : Stands(vec[i], seq[i])

\* The free list never fails to allocate, and holds the keys freed, the last
\* one at its end.
ListInv ==
    /\ keys \in Seq(Element) /\ IsVector(list) /\ Contents(list) = keys
    /\ popped \in Cell \X Cell \X Nat
    /\ \/ popped[1] = popped[2]
       \/ popped[1] = Junk /\ list.size = 0 /\ popped[3] > VECTOR_MINIMUM_CAPACITY

IInv == kind \in Kinds /\ VectorInv /\ TableInv /\ SetInv /\ ListInv

=============================================================================
