------------------------------ MODULE StringSet ------------------------------
(***************************************************************************)
(* The set of strings of string-set.c: the hash table's code again, with   *)
(* strings for keys and no values.  Two things are its own: an insertion   *)
(* leaves a string that is there alone, and a removal compares the         *)
(* caller's pointer with the address of the node's own copy, which no      *)
(* string of a caller has.                                                 *)
(***************************************************************************)
EXTENDS HashTable

SS_INITIALIZER == HT_INITIALIZER

_ss_allocate(set, capacity) == _ht_allocate(set, capacity)

ss_setup(set, capacity) == ht_setup(set, capacity)

_ss_rehash(hash, set, old) == _ht_rehash(hash, set, old)

(* mutant: the old nodes are dropped with the old array *)
ResizeEmpty(hash, set) ==
    LET new == set.size * 2
    IN  IF new < MinCapacity THEN set ELSE _ss_allocate(set, new)

_ss_resize(hash, set) ==
    LET new == set.size * 2
    IN  IF new < MinCapacity THEN set ELSE _ss_rehash(hash, _ss_allocate(set, new), Nodes(set))

ss_contains(hash, set, key) == ht_contains(hash, set, key)

\* The set an insertion looks for the string in.
ReadySet(hash, set) ==
    LET s == IF set.live THEN set ELSE ss_setup(set, 0)
    IN  IF s.size = s.threshold THEN _ss_resize(hash, s) ELSE s

StringNode(key) == [key |-> key]

ss_insert(hash, set, key) ==
    LET t == ReadySet(hash, set)
    IN  IF ss_contains(hash, t, key) THEN t
        ELSE Relinked(hash, t, key, Bucket(hash, t, key) \cup {StringNode(key)}, t.size + 1)

\* No node's copy is at the address of a caller's string.
ss_remove(set, key) == set

ss_clear(set) ==
    IF ~set.live THEN set ELSE Resized(_ss_allocate(set, MinCapacity), 0)

\* What a walk over the buckets finds.
Strings(set) == {n.key : n \in Nodes(set)}

=============================================================================
