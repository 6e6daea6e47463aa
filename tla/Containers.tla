----------------------------- MODULE Containers -----------------------------
(***************************************************************************)
(* The containers of the library under every sequence of legal calls, each *)
(* next to what it stands for: a sequence for a vector, a function for the *)
(* hash table, a set for the set of strings, a stack for the free list.    *)
(*                                                                         *)
(* "Legal" is what the assertions ask: an index that exists, a vector with *)
(* memory.  A behaviour is about one container, which Init chooses, or     *)
(* about two vectors, for the operations on two.                           *)
(***************************************************************************)
EXTENDS Vector, StringSet, SequencesExt

CONSTANTS Kinds,       \* the containers to look at
          Unset,       \* an element vector_resize does not write
          MaxSize,     \* bound: no vector or list grows past this
          MaxPair,     \* bound: the same for each of two vectors
          MaxCapacity, \* bound: the largest capacity a caller asks for
          Key, Value,  \* of the hash table; a key is a descriptor
          String, Hash,\* the strings and the djb2 value of each
          Alloc        \* the outcomes of an allocation

ASSUME BoundsAssumption == MaxSize \in Nat /\ MaxPair \in Nat /\ MaxCapacity \in Nat
ASSUME KeyAssumption == Key \subseteq Nat
ASSUME HashAssumption == Hash \in [String -> Nat]
ASSUME AllocAssumption == Alloc \subseteq BOOLEAN

\* The hash of a descriptor.
_ht_hash == [key \in Key |-> (69 * key + 99) % 123]

\* The hash of a string, byte by byte, is abstracted to a number.
_ss_hash == Hash

VARIABLES kind,
          vec, seq,      \* two vectors, and the sequences they stand for
          table, dict,   \* the hash table, and the function it stands for
          set, names,    \* the string set, and the strings inserted
          list, keys,    \* the free list, and the keys it holds
          popped         \* the last key the free list gave out, which it should be,
                         \* and the capacity the list had

vars == <<kind, vec, seq, table, dict, set, names, list, keys, popped>>

Vec == {1, 2}
NoMap == [k \in {} |-> 0]

Init ==
    /\ kind \in Kinds
    /\ vec = [i \in Vec |-> VECTOR_INITIALIZER] /\ seq = [i \in Vec |-> <<>>]
    /\ table = HT_INITIALIZER /\ dict = NoMap
    /\ set = SS_INITIALIZER /\ names = {}
    /\ list = vector_setup(0, TRUE) /\ keys = <<>> /\ popped = <<Junk, Junk, 0>>

-----------------------------------------------------------------------------
(***************************************************************************)
(* Vectors.                                                                *)
(***************************************************************************)

Vectors == CASE kind = "vector" -> {1} [] kind = "two vectors" -> {1, 2} [] OTHER -> {}

Limit == IF kind = "vector" THEN MaxSize ELSE MaxPair

\* A push or an insertion asserts that the elements fit.
Usable(i) == vec[i].live /\ vec[i].size <= vec[i].capacity

\* Vector i becomes v and stands for s.
Set(i, v, s) == vec' = [vec EXCEPT ![i] = v] /\ seq' = [seq EXCEPT ![i] = s]

OtherThanVectors == UNCHANGED <<kind, table, dict, set, names, list, keys, popped>>

Setup(i) ==
    \E c \in 0 .. MaxCapacity, ok \in Alloc :
        /\ ~vec[i].live
        /\ Set(i, vector_setup(c, ok), <<>>)

Push(i) ==
    \E e \in Element, ok \in Alloc :
        /\ Usable(i) /\ vec[i].size < Limit
        /\ Set(i, vector_push_back(vec[i], e, ok), Append(seq[i], e))

Insert(i) ==
    \E e \in Element, ok \in Alloc, n \in 0 .. vec[i].size :
        /\ Usable(i) /\ vec[i].size < Limit
        /\ Set(i, IF n = 0 THEN vector_push_front(vec[i], e, ok) ELSE vector_insert(vec[i], n, e, ok),
               InsertAt(seq[i], n + 1, e))

Assign(i) ==
    \E e \in Element, n \in 0 .. vec[i].size - 1 :
        /\ Usable(i)
        /\ Set(i, vector_assign(vec[i], n, e), [seq[i] EXCEPT ![n + 1] = e])

PopBack(i) ==
    \E ok \in Alloc :
        /\ Usable(i) /\ vec[i].size > 0
        /\ Set(i, vector_pop_back(vec[i], ok), Front(seq[i]))

Erase(i) ==
    \E ok \in Alloc, n \in 0 .. vec[i].size - 1 :
        /\ Usable(i)
        /\ Set(i, IF n = 0 THEN vector_pop_front(vec[i], ok) ELSE vector_erase(vec[i], n, ok),
               RemoveAt(seq[i], n + 1))

Resize(i) ==
    \E ok \in Alloc, n \in 0 .. Limit :
        /\ Usable(i)
        /\ Set(i, IF n = 0 THEN vector_clear(vec[i], ok) ELSE vector_resize(vec[i], n, ok),
               [p \in 1 .. n |-> IF p <= Len(seq[i]) THEN seq[i][p] ELSE Unset])

Reserve(i) ==
    \E ok \in Alloc :
        /\ Usable(i)
        /\ \/ \E c \in 0 .. MaxCapacity : Set(i, vector_reserve(vec[i], c, ok), seq[i])
           \/ Set(i, vector_shrink_to_fit(vec[i], ok), seq[i])

Destroy(i) == vec[i].live /\ Set(i, vector_destroy(vec[i]), <<>>)

\* Copying into vector d, which copy assignment destroys first.
Copy(d, s) ==
    \E ok \in Alloc :
        /\ d # s /\ Usable(s)
        /\ Set(d, vector_copy(vec[s], ok), seq[s])

\* A move leaves the source without memory, move assignment without elements.
Move(d, s) ==
    /\ d # s /\ Usable(s)
    /\ vec' = [vec EXCEPT ![d] = vec[s], ![s] = vector_moved_from(vec[s])]
    /\ seq' = [seq EXCEPT ![d] = seq[s], ![s] = <<>>]

Swap ==
    /\ Usable(1) /\ Usable(2)
    /\ vec' = [vec EXCEPT ![1] = vec[2], ![2] = vec[1]]
    /\ seq' = [seq EXCEPT ![1] = seq[2], ![2] = seq[1]]

VectorStep ==
    /\ \/ \E i \in Vectors : Setup(i) \/ Push(i) \/ Insert(i) \/ Assign(i) \/ PopBack(i) \/ Erase(i)
                         \/ Resize(i) \/ Reserve(i) \/ Destroy(i)
       \/ \E d, s \in Vectors : Copy(d, s) \/ Move(d, s)
       \/ kind = "two vectors" /\ Swap
    /\ OtherThanVectors

-----------------------------------------------------------------------------
(***************************************************************************)
(* The hash table and the string set.                                      *)
(***************************************************************************)

Put(k, v) ==
    /\ table' = ht_insert(_ht_hash, table, k, v)
    /\ dict' = [x \in DOMAIN dict \cup {k} |-> IF x = k THEN v ELSE dict[x]]

Delete(k) ==
    /\ table' = ht_remove(_ht_hash, table, k)
    /\ dict' = [x \in DOMAIN dict \ {k} |-> dict[x]]

ClearTable == table' = ht_clear(table) /\ dict' = NoMap

TableStep ==
    /\ kind = "table"
    /\ (\E k \in Key : Delete(k) \/ \E v \in Value : Put(k, v)) \/ ClearTable
    /\ UNCHANGED <<kind, vec, seq, set, names, list, keys, popped>>

AddString(s) == set' = ss_insert(_ss_hash, set, s) /\ names' = names \cup {s}

RemoveString(s) == set' = ss_remove(set, s) /\ UNCHANGED names

ClearStrings == set' = ss_clear(set) /\ names' = {}

SetStep ==
    /\ kind = "set"
    /\ (\E s \in String : AddString(s) \/ RemoveString(s)) \/ ClearStrings
    /\ UNCHANGED <<kind, vec, seq, table, dict, list, keys, popped>>

-----------------------------------------------------------------------------
(***************************************************************************)
(* The free list: a vector of keys used as a stack.                        *)
(***************************************************************************)

free_list_push(key) ==
    /\ list.size < MaxSize
    /\ list' = vector_push_back(list, key, TRUE)
    /\ keys' = Append(keys, key)
    /\ popped' = <<Junk, Junk, 0>>

\* The key is read through a pointer into the vector after the pop: when the
\* pop reallocated, from memory that is free.
free_list_pop ==
    /\ list.size > 0
    /\ list' = vector_pop_back(list, TRUE)
    /\ keys' = Front(keys)
    /\ \E key \in {vector_back(list)} \cup (IF list'.capacity # list.capacity THEN {Junk} ELSE {}) :
          popped' = <<key, Last(keys), list.capacity>>

ListStep ==
    /\ kind = "list"
    /\ (\E key \in Element : free_list_push(key)) \/ free_list_pop
    /\ UNCHANGED <<kind, vec, seq, table, dict, set, names>>

Next == VectorStep \/ TableStep \/ SetStep \/ ListStep

Spec == Init /\ [][Next]_vars

-----------------------------------------------------------------------------
(***************************************************************************)
(* Properties.                                                             *)
(***************************************************************************)

\* Types: a vector with memory has one cell per unit of capacity, a table one
\* bucket.
TypeOK ==
    /\ kind \in Kinds
    /\ \A i \in Vec : vec[i].live => DOMAIN vec[i].data = 0 .. vec[i].capacity - 1
    /\ \A t \in {table, set} : t.live => DOMAIN t.nodes = 0 .. t.capacity - 1 /\ t.capacity >= MinCapacity
    /\ popped \in (Element \cup {Junk}) \X (Element \cup {Junk}) \X Nat

\* A vector with memory holds the elements put into it, in their places,
\* through every growth, shift and shrink, copy, move and swap: the offsets and
\* lengths of the memmoves and the size at the moment of a reallocation.
VectorIsSequence ==
    \A i \in Vec : vec[i].live /\ vec[i].capacity > 0 =>
        /\ vec[i].size = Len(seq[i])
        /\ \A p \in DOMAIN seq[i] : seq[i][p] \in {Unset, Contents(vec[i])[p]}

\* The elements fit the allocation, the assertion every push starts with; only
\* the copy of an empty vector, which has no room and does not grow, is written
\* past its end.
VectorFits ==
    \A i \in Vec : vec[i].live => vec[i].size <= vec[i].capacity \/ vec[i].capacity = 0

\* The hash table is the map of the pairs put into it: every key is found
\* exactly when it is there, with its last value, in one node, and the size
\* counts the nodes - after the resizes of insertions, of updates, which resize
\* first, and of removals, which with the load factor of the code enlarge the table
\* too.
TableIsMap ==
    table.live =>
        /\ table.size = Cardinality(DOMAIN dict) /\ Cardinality(Nodes(table)) = table.size
        /\ \A k \in Key :
              /\ ht_contains(_ht_hash, table, k) <=> k \in DOMAIN dict
              /\ k \in DOMAIN dict => ht_get(_ht_hash, table, k) = dict[k]

\* The size never passes the threshold, although it is compared for equality
\* and both move: chains stay as short as the load factor says.
LoadIsBounded == \A t \in {table, set} : t.size <= t.threshold

\* The set of strings has exactly the strings inserted since it was cleared; a
\* removal takes nothing away.
SetKeepsStrings ==
    /\ \A s \in String : ss_contains(_ss_hash, set, s) <=> s \in names
    /\ set.live => Strings(set) = names /\ set.size = Cardinality(names)

\* The free list gives back the key freed last, unless taking it emptied a list
\* that had grown past the least capacity: then the key may be read from memory
\* already given back.
PopsLastFreed ==
    kind = "list" =>
        \/ popped[1] = popped[2]
        \/ popped[1] = Junk /\ list.size = 0 /\ popped[3] > VECTOR_MINIMUM_CAPACITY

=============================================================================
