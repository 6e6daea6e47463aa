------------------------------ MODULE HashTable ------------------------------
(***************************************************************************)
(* The chained hash table of hashtable.c, as the functions of a table.     *)
(*                                                                         *)
(* A table is a record.  "nodes" is the array of buckets; "live" is the    *)
(* test nodes # NULL.  A node is a key and a value.  A bucket is the set   *)
(* of the nodes in its chain: a chain is searched by key to its end and    *)
(* has no two nodes with one key, so the order they are linked in, which a *)
(* resize reverses, tells nothing.  The string set of string-set.c is the  *)
(* same code with other keys, so the hash before the modulus, a function   *)
(* on the keys, is a parameter.                                            *)
(***************************************************************************)
EXTENDS Integers

CONSTANTS MinCapacity,  \* HT_MINIMUM_CAPACITY and SS_MINIMUM_CAPACITY, 8 in the code
          LoadFactor    \* HT_LOAD_FACTOR and SS_LOAD_FACTOR, 5 in the code

ASSUME MinCapacityAssumption == MinCapacity \in Nat \ {0}
ASSUME LoadFactorAssumption == LoadFactor \in Nat \ {0}

Table(size, threshold, capacity, live, nodes) ==
    [size |-> size, threshold |-> threshold, capacity |-> capacity, live |-> live, nodes |-> nodes]

Threshold(capacity) == capacity * LoadFactor

HT_INITIALIZER == Table(0, 0, 0, FALSE, [i \in {} |-> {}])

Index(hash, capacity, key) == hash[key] % capacity

Bucket(hash, table, key) == table.nodes[Index(hash, table.capacity, key)]

\* All nodes, as a walk over the buckets meets them.
Nodes(table) == UNION {table.nodes[i] : i \in DOMAIN table.nodes}

\* The array of that capacity with every node in the bucket of its key.
Spread(hash, nodes, capacity) ==
    [i \in 0 .. capacity - 1 |-> {n \in nodes : Index(hash, capacity, n.key) = i}]

-----------------------------------------------------------------------------

(* mutant: the threshold of the first allocation is kept *)
AllocateKeepingThreshold(table, capacity) ==
    Table(table.size, IF table.live THEN table.threshold ELSE Threshold(capacity), capacity, TRUE,
          [i \in 0 .. capacity - 1 |-> {}])

_ht_allocate(table, capacity) ==
    Table(table.size, Threshold(capacity), capacity, TRUE, [i \in 0 .. capacity - 1 |-> {}])

\* The table with another size.
Resized(table, size) == Table(size, table.threshold, table.capacity, table.live, table.nodes)

ht_setup(table, capacity) ==
    Resized(_ht_allocate(table, IF capacity < MinCapacity THEN MinCapacity ELSE capacity), 0)

\* The old nodes, linked into the new buckets.
_ht_rehash(hash, table, old) ==
    Table(table.size, table.threshold, table.capacity, table.live, Spread(hash, old, table.capacity))

(* mutant: the nodes keep the bucket number they had *)
ResizeInPlace(hash, table) ==
    LET new == table.size * 2
        t == _ht_allocate(table, new)
    IN  IF new < MinCapacity THEN table
        ELSE [t EXCEPT !.nodes = [i \in DOMAIN t.nodes |->
                IF i \in DOMAIN table.nodes THEN table.nodes[i] ELSE {}]]

(***************************************************************************)
(* The new capacity is twice the size whether the table grows or shrinks:  *)
(* after a removal it can be the larger one.                               *)
(***************************************************************************)
_ht_resize(hash, table) ==
    LET new == table.size * 2
    IN  IF new < MinCapacity THEN table
        ELSE _ht_rehash(hash, _ht_allocate(table, new), Nodes(table))

-----------------------------------------------------------------------------

ht_contains(hash, table, key) ==
    table.live /\ \E n \in Bucket(hash, table, key) : n.key = key

\* The value under a key that is there.
ht_get(hash, table, key) == (CHOOSE n \in Bucket(hash, table, key) : n.key = key).value

\* The table an insertion looks for the key in: it is resized before the key
\* is looked up, also when the key turns out to be there.
Ready(hash, table) ==
    LET t == IF table.live THEN table ELSE ht_setup(table, 0)
    IN  IF t.size = t.threshold THEN _ht_resize(hash, t) ELSE t

\* The table with another chain in the bucket of the key, and another size.
Relinked(hash, table, key, chain, size) ==
    Table(size, table.threshold, table.capacity, table.live,
          [table.nodes EXCEPT ![Index(hash, table.capacity, key)] = chain])

Node(key, value) == [key |-> key, value |-> value]

\* What an insertion does to the table it looked in: the node's value changes
\* or a node is linked in.
Inserted(hash, t, key, value) ==
    LET b == Bucket(hash, t, key)
    IN  IF ht_contains(hash, t, key)
        THEN Relinked(hash, t, key, {IF n.key = key THEN Node(key, value) ELSE n : n \in b}, t.size)
        ELSE Relinked(hash, t, key, b \cup {Node(key, value)}, t.size + 1)

ht_insert(hash, table, key, value) == Inserted(hash, Ready(hash, table), key, value)

\* The table without the key that is there.
Unlinked(hash, table, key) ==
    Relinked(hash, table, key, {n \in Bucket(hash, table, key) : n.key # key}, table.size - 1)

ht_remove(hash, table, key) ==
    LET t == Unlinked(hash, table, key)
    IN  IF ~ht_contains(hash, table, key) THEN table
        ELSE IF t.size = t.threshold \div 4 THEN _ht_resize(hash, t) ELSE t

ht_clear(table) ==
    IF ~table.live THEN table ELSE Resized(_ht_allocate(table, MinCapacity), 0)

=============================================================================
