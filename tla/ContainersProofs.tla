-------------------------- MODULE ContainersProofs --------------------------
(***************************************************************************)
(* The containers are what they stand for, for every capacity, load        *)
(* factor, hash, key and element: first the tables, then the vectors, then *)
(* the steps of Containers.                                                *)
(***************************************************************************)
EXTENDS ContainersInv, VectorProofs, FiniteSetTheorems, FunctionTheorems

(***************************************************************************)
(* Tables.                                                                 *)
(***************************************************************************)

\* What a product with the load factor is at least.
LEMMA LoadGrows ==
    \A c \in Nat : Threshold(c) \in Nat /\ c <= Threshold(c)
<1> TAKE c \in Nat
<1>1. LoadFactor \in Nat /\ 1 <= LoadFactor
  BY LoadFactorAssumption
<1> QED BY <1>1 DEF Threshold

LEMMA IndexInRange ==
    ASSUME NEW K, NEW hash \in [K -> Nat], NEW k \in K, NEW c \in Nat, MinCapacity <= c
    PROVE  Index(hash, c, k) \in 0 .. c - 1
<1>1. MinCapacity \in Nat /\ 1 <= MinCapacity
  BY MinCapacityAssumption
<1>2. hash[k] \in Nat /\ c \in Nat \ {0}
  BY <1>1
<1> QED BY <1>2 DEF Index

(***************************************************************************)
(* A walk over the buckets meets the nodes that were spread over them.     *)
(***************************************************************************)
LEMMA SpreadHasAll ==
    ASSUME NEW K, NEW hash \in [K -> Nat], NEW c \in Nat, MinCapacity <= c,
           NEW nodes, \A n \in nodes : n.key \in K
    PROVE  UNION {Spread(hash, nodes, c)[i] : i \in DOMAIN Spread(hash, nodes, c)} = nodes
<1> DEFINE a == Spread(hash, nodes, c)
<1>1. DOMAIN a = 0 .. c - 1
  BY DEF Spread
<1>2. \A i \in 0 .. c - 1 : a[i] = {n \in nodes : Index(hash, c, n.key) = i}
  BY DEF Spread
<1>3. \A n \in nodes : Index(hash, c, n.key) \in 0 .. c - 1
  BY IndexInRange
<1> HIDE DEF a
<1>4. \A n \in nodes : n \in UNION {a[i] : i \in DOMAIN a}
  <2> TAKE n \in nodes
  <2>1. n \in a[Index(hash, c, n.key)]
    BY <1>2, <1>3
  <2> QED BY <1>1, <1>3, <2>1
<1>5. \A n \in UNION {a[i] : i \in DOMAIN a} : n \in nodes
  BY <1>1, <1>2
<1> QED BY <1>4, <1>5 DEF a

LEMMA TableHas ==
    ASSUME NEW hash, NEW nodes, NEW t, IsTable(hash, t, nodes)
    PROVE  /\ t.size \in Nat /\ t.capacity \in Nat /\ MinCapacity <= t.capacity
           /\ t.threshold = Threshold(t.capacity) /\ t.size <= t.threshold /\ t.threshold \in Nat
BY LoadGrows DEF IsTable

LEMMA TableLives ==
    ASSUME NEW hash, NEW nodes, NEW t, IsTable(hash, t, nodes)
    PROVE  t.live = TRUE /\ t.nodes = Spread(hash, nodes, t.capacity)
BY DEF IsTable, Table

LEMMA TableNodes ==
    ASSUME NEW K, NEW hash \in [K -> Nat], NEW nodes, \A n \in nodes : n.key \in K,
           NEW t, IsTable(hash, t, nodes)
    PROVE  Nodes(t) = nodes
<1> DEFINE a == Spread(hash, nodes, t.capacity)
<1>1. t.capacity \in Nat /\ MinCapacity <= t.capacity /\ t.nodes = a
  BY TableHas, TableLives
<1>2. UNION {a[i] : i \in DOMAIN a} = nodes
  BY <1>1, SpreadHasAll
<1> QED BY <1>1, <1>2 DEF Nodes

\* The table of that capacity and size, with memory, with those nodes.
TableOf(hash, nodes, c, size) == Table(size, Threshold(c), c, TRUE, Spread(hash, nodes, c))

LEMMA MakeTable ==
    ASSUME NEW hash, NEW nodes, NEW c \in Nat, MinCapacity <= c,
           NEW size \in Nat, size <= Threshold(c),
           NEW t, t = TableOf(hash, nodes, c, size)
    PROVE  /\ IsTable(hash, t, nodes)
           /\ t.size = size /\ t.threshold = Threshold(c) /\ t.capacity = c
<1>1. /\ t.size = size /\ t.threshold = Threshold(c) /\ t.capacity = c
  BY DEF Table, TableOf
<1>2. t = Table(t.size, t.threshold, t.capacity, TRUE, Spread(hash, nodes, t.capacity))
  BY <1>1 DEF TableOf
<1>3. IsTable(hash, t, nodes)
  BY <1>1, <1>2 DEF IsTable
<1> QED BY <1>1, <1>3

(***************************************************************************)
(* A resize keeps the nodes, and one at the threshold makes room, although *)
(* the new capacity is computed from the size alone.                       *)
(***************************************************************************)
LEMMA ResizeKeepsNodes ==
    ASSUME NEW K, NEW hash \in [K -> Nat], NEW nodes, \A n \in nodes : n.key \in K,
           NEW t, IsTable(hash, t, nodes)
    PROVE  /\ IsTable(hash, _ht_resize(hash, t), nodes) /\ _ht_resize(hash, t).size = t.size
           /\ t.size = t.threshold => _ht_resize(hash, t).size < _ht_resize(hash, t).threshold
<1> DEFINE new == t.size * 2
           r == _ht_resize(hash, t)
<1>1. /\ t.size \in Nat /\ t.capacity \in Nat /\ MinCapacity <= t.capacity
      /\ t.threshold = Threshold(t.capacity) /\ t.size <= t.threshold /\ t.threshold \in Nat
      /\ Nodes(t) = nodes
  BY TableHas, TableLives, TableNodes
<1>2. MinCapacity \in Nat /\ 1 <= MinCapacity
  BY MinCapacityAssumption
<1>3. new \in Nat /\ t.size <= new /\ (t.size > 0 => t.size < new)
  BY <1>1
<1>4. t.capacity <= t.threshold
  BY <1>1, LoadGrows
<1>5. CASE new < MinCapacity
  <2>1. r = t
    BY <1>5 DEF _ht_resize
  <2>2. t.size # t.threshold
    BY <1>1, <1>2, <1>4, <1>5
  <2> QED BY <2>1, <2>2
<1>6. CASE ~(new < MinCapacity)
  <2>1. r = TableOf(hash, nodes, new, t.size)
    <3>1. r = _ht_rehash(hash, _ht_allocate(t, new), nodes)
      BY <1>1, <1>6 DEF _ht_resize
    <3> QED BY <3>1 DEF _ht_rehash, _ht_allocate, Table, TableOf
  <2>2. Threshold(new) \in Nat /\ new <= Threshold(new)
    BY <1>3, LoadGrows
  <2>3. t.size <= Threshold(new)
    BY <1>1, <1>3, <2>2
  <2>4. MinCapacity <= new
    BY <1>2, <1>3, <1>6
  <2> HIDE DEF new, r
  <2>5. IsTable(hash, r, nodes) /\ r.size = t.size /\ r.threshold = Threshold(new)
    BY <1>1, <1>3, <2>1, <2>3, <2>4, MakeTable
  <2>6. t.size = t.threshold => t.size < Threshold(new)
    BY <1>1, <1>2, <1>3, <1>4, <2>2
  <2> QED BY <2>5, <2>6 DEF r
<1> QED BY <1>5, <1>6

LEMMA ReadyHasRoom ==
    ASSUME NEW K, NEW hash \in [K -> Nat], NEW nodes, \A n \in nodes : n.key \in K,
           NEW t, Stores(hash, t, nodes), NEW r, r = Ready(hash, t)
    PROVE  IsTable(hash, r, nodes) /\ r.size = t.size /\ r.size < r.threshold
<1> DEFINE s == IF t.live THEN t ELSE ht_setup(t, 0)
<1>0. r = IF s.size = s.threshold THEN _ht_resize(hash, s) ELSE s
  BY DEF Ready
<1>1. IsTable(hash, s, nodes) /\ s.size = t.size
  <2>1. CASE t = HT_INITIALIZER /\ nodes = {}
    <3>1. MinCapacity \in Nat /\ ~(0 < MinCapacity) = FALSE
      BY MinCapacityAssumption
    <3>2. t.live = FALSE /\ t.size = 0
      BY <2>1 DEF HT_INITIALIZER, Table
    <3>3. Spread(hash, nodes, MinCapacity) = [i \in 0 .. MinCapacity - 1 |-> {}]
      BY <2>1 DEF Spread
    <3>4. s = TableOf(hash, nodes, MinCapacity, 0)
      BY <3>1, <3>2, <3>3 DEF ht_setup, Resized, _ht_allocate, Table, TableOf
    <3>5. Threshold(MinCapacity) \in Nat
      BY <3>1, LoadGrows
    <3> HIDE DEF s
    <3>6. IsTable(hash, s, nodes) /\ s.size = 0
      BY <3>1, <3>4, <3>5, MakeTable
    <3> QED BY <3>2, <3>6
  <2>2. CASE IsTable(hash, t, nodes)
    <3>1. t.live = TRUE
      BY <2>2 DEF IsTable, Table
    <3> QED BY <2>2, <3>1
  <2> QED BY <2>1, <2>2 DEF Stores
<1> HIDE DEF s
<1>2. s.size \in Nat /\ s.threshold \in Nat /\ s.size <= s.threshold
  BY <1>1, TableHas
<1>3. CASE s.size = s.threshold
  BY <1>0, <1>1, <1>3, ResizeKeepsNodes
<1>4. CASE s.size # s.threshold
  BY <1>0, <1>1, <1>2, <1>4
<1> QED BY <1>3, <1>4

(***************************************************************************)
(* Lookup: searching one chain finds a key exactly when a node has it.     *)
(***************************************************************************)
\* Two keys of one bucket.
Near(hash, t, j, k) == Index(hash, t.capacity, j) = Index(hash, t.capacity, k)

LEMMA BucketHas ==
    ASSUME NEW K, NEW hash \in [K -> Nat], NEW nodes, \A n \in nodes : n.key \in K,
           NEW t, IsTable(hash, t, nodes), NEW k \in K
    PROVE  /\ Index(hash, t.capacity, k) \in 0 .. t.capacity - 1
           /\ \A n : n \in Bucket(hash, t, k) <=>
                n \in nodes /\ Near(hash, t, n.key, k)
           /\ \A n : n \in Bucket(hash, t, k) /\ n.key = k <=> n \in nodes /\ n.key = k
<1>1. /\ t.capacity \in Nat /\ MinCapacity <= t.capacity
      /\ t.nodes = Spread(hash, nodes, t.capacity)
  BY TableHas, TableLives, TableNodes
<1>2. Index(hash, t.capacity, k) \in 0 .. t.capacity - 1
  BY <1>1, IndexInRange
<1>3. Bucket(hash, t, k) =
        {n \in nodes : Index(hash, t.capacity, n.key) = Index(hash, t.capacity, k)}
  BY <1>1, <1>2 DEF Bucket, Spread
<1>4. \A n : n.key = k => Near(hash, t, n.key, k)
  BY DEF Near
<1> QED BY <1>2, <1>3, <1>4 DEF Near

LEMMA ContainsKey ==
    ASSUME NEW K, NEW hash \in [K -> Nat], NEW nodes, \A n \in nodes : n.key \in K,
           NEW t, Stores(hash, t, nodes), NEW k \in K
    PROVE  ht_contains(hash, t, k) <=> \E n \in nodes : n.key = k
<1>1. CASE t = HT_INITIALIZER /\ nodes = {}
  BY <1>1 DEF HT_INITIALIZER, Table, ht_contains
<1>2. CASE IsTable(hash, t, nodes)
  <2>1. t.live = TRUE
    BY <1>2, TableLives
  <2>2. \A n : n \in Bucket(hash, t, k) /\ n.key = k <=> n \in nodes /\ n.key = k
    BY <1>2, BucketHas
  <2> QED BY <2>1, <2>2 DEF ht_contains
<1> QED BY <1>1, <1>2 DEF Stores

(***************************************************************************)
(* Changing the chain of one key changes the nodes of that bucket and no   *)
(* others.                                                                 *)
(***************************************************************************)
SameBucket(hash, t, k, nodes, others, chain) ==
    \A n : IF Near(hash, t, n.key, k)
           THEN n \in others <=> n \in chain
           ELSE n \notin chain /\ (n \in others <=> n \in nodes)

LEMMA RelinkChanges ==
    ASSUME NEW K, NEW hash \in [K -> Nat], NEW nodes, \A n \in nodes : n.key \in K,
           NEW t, IsTable(hash, t, nodes), NEW k \in K,
           NEW chain, NEW others, NEW size \in Nat, size <= t.threshold,
           SameBucket(hash, t, k, nodes, others, chain)
    PROVE  /\ IsTable(hash, Relinked(hash, t, k, chain, size), others)
           /\ Relinked(hash, t, k, chain, size).size = size
<1> DEFINE i == Index(hash, t.capacity, k)
           r == Relinked(hash, t, k, chain, size)
<1>1. /\ t.capacity \in Nat /\ MinCapacity <= t.capacity /\ t.live = TRUE
      /\ t.nodes = Spread(hash, nodes, t.capacity) /\ t.threshold = Threshold(t.capacity)
  BY TableHas, TableLives, TableNodes
<1>2. i \in 0 .. t.capacity - 1
  BY <1>1, IndexInRange
<1>3. [t.nodes EXCEPT ![i] = chain] = Spread(hash, others, t.capacity)
  <2> DEFINE a == [t.nodes EXCEPT ![i] = chain]
             b == Spread(hash, others, t.capacity)
             In(j, m) == {n \in m : Index(hash, t.capacity, n.key) = j}
  <2>1. t.nodes = [j \in 0 .. t.capacity - 1 |-> In(j, nodes)]
    BY <1>1 DEF Spread
  <2>2. b = [j \in 0 .. t.capacity - 1 |-> In(j, others)]
    BY DEF Spread
  <2>3. a = [j \in 0 .. t.capacity - 1 |-> IF j = i THEN chain ELSE In(j, nodes)]
    <3> HIDE DEF In, i
    <3> QED BY <2>1
  <2>4. In(i, others) = chain
    BY DEF SameBucket, Near
  <2>5. \A j \in 0 .. t.capacity - 1 : j # i => In(j, others) = In(j, nodes)
    BY DEF SameBucket, Near
  <2> HIDE DEF In, i, a, b
  <2> QED BY <2>2, <2>3, <2>4, <2>5 DEF a, b
<1>4. r = TableOf(hash, others, t.capacity, size)
  BY <1>1, <1>3 DEF Relinked, TableOf
<1> HIDE DEF r
<1>5. IsTable(hash, r, others) /\ r.size = size
  BY <1>1, <1>4, MakeTable
<1> QED BY <1>5 DEF r

-----------------------------------------------------------------------------
(***************************************************************************)
(* The hash table as a map.                                                *)
(***************************************************************************)

LEMMA PairsHas ==
    ASSUME NEW map
    PROVE  /\ \A n \in Pairs(map) : n.key \in DOMAIN map /\ n = Node(n.key, map[n.key])
           /\ \A k \in DOMAIN map : Node(k, map[k]) \in Pairs(map)
BY DEF Pairs, Node

LEMMA NodeHas == \A k, v : Node(k, v).key = k /\ Node(k, v).value = v
BY DEF Node

LEMMA PairsWith ==
    ASSUME NEW map, NEW k
    PROVE  (\E n \in Pairs(map) : n.key = k) <=> k \in DOMAIN map
BY PairsHas, NodeHas

\* The map with another pair.
Paired(map, k, v) == [x \in DOMAIN map \cup {k} |-> IF x = k THEN v ELSE map[x]]

(***************************************************************************)
(* An insertion puts the pair into the map, whether the key is new or not. *)
(***************************************************************************)
THEOREM InsertPuts ==
    ASSUME NEW K, NEW hash \in [K -> Nat], NEW map, DOMAIN map \subseteq K,
           IsFiniteSet(DOMAIN map), NEW t, Stores(hash, t, Pairs(map)),
           t.size = Cardinality(DOMAIN map), NEW k \in K, NEW v,
           NEW r, r = ht_insert(hash, t, k, v),
           NEW m, m = Paired(map, k, v)
    PROVE  /\ IsTable(hash, r, Pairs(m))
           /\ IsFiniteSet(DOMAIN m) /\ r.size = Cardinality(DOMAIN m)
<1> DEFINE nodes == Pairs(map)
           q == Ready(hash, t)
           b == Bucket(hash, q, k)
<1>1. \A n \in nodes : n.key \in K
  BY PairsHas
<1>2. IsTable(hash, q, nodes) /\ q.size = t.size /\ q.size < q.threshold
  BY <1>1, ReadyHasRoom
<1> HIDE DEF q
<1>3. q.size \in Nat /\ q.threshold \in Nat /\ Stores(hash, q, nodes)
  BY <1>1, <1>2, TableHas DEF Stores
<1>4. ht_contains(hash, q, k) <=> k \in DOMAIN map
  <2>1. ht_contains(hash, q, k) <=> \E n \in nodes : n.key = k
    <3> HIDE DEF nodes
    <3> QED BY <1>1, <1>3, ContainsKey
  <2> QED BY <2>1, PairsWith
<1>5. \A n : n \in b <=> n \in nodes /\ Near(hash, q, n.key, k)
  <2> HIDE DEF nodes
  <2> QED BY <1>1, <1>2, BucketHas
<1>6. DOMAIN m = DOMAIN map \cup {k} /\ m[k] = v /\ \A x \in DOMAIN map : x # k => m[x] = map[x]
  BY DEF Paired
<1>7. \A n \in Pairs(m) : n.key \in K
  BY <1>6, PairsHas
<1>11. Near(hash, q, k, k)
  BY DEF Near
<1>8. \A n : ~Near(hash, q, n.key, k) => (n \in Pairs(m) <=> n \in nodes)
  BY <1>6, <1>11, PairsHas
<1>9. CASE k \in DOMAIN map
  <2> DEFINE chain == {IF n.key = k THEN Node(k, v) ELSE n : n \in b}
  <2>1. r = Relinked(hash, q, k, chain, q.size)
    BY <1>4, <1>9 DEF ht_insert, Inserted, q
  <2>2. \A n : n \in chain <=> \E x \in b : n = IF x.key = k THEN Node(k, v) ELSE x
    OBVIOUS
  <2> HIDE DEF chain, b, nodes
  <2>3. \A n \in chain : Near(hash, q, n.key, k)
    BY <1>5, <1>11, <2>2, NodeHas
  <2>4. \A n : Near(hash, q, n.key, k) => (n \in Pairs(m) <=> n \in chain)
    <3> TAKE n
    <3> HAVE Near(hash, q, n.key, k)
    <3>1. ASSUME n \in Pairs(m) PROVE n \in chain
      <4>1. CASE n.key = k
        <5>1. n = Node(k, v)
          BY <1>6, <3>1, <4>1, PairsHas
        <5>2. Node(k, map[k]) \in b /\ Node(k, map[k]).key = k
          BY <1>5, <1>9, <1>11, PairsHas, NodeHas DEF nodes
        <5> QED BY <2>2, <5>1, <5>2
      <4>2. CASE n.key # k
        <5>1. n \in nodes
          BY <1>6, <3>1, <4>2, PairsHas DEF nodes
        <5>2. n \in b
          BY <1>5, <5>1
        <5> QED BY <2>2, <4>2, <5>2
      <4> QED BY <4>1, <4>2
    <3>2. ASSUME n \in chain PROVE n \in Pairs(m)
      <4>1. PICK x \in b : n = IF x.key = k THEN Node(k, v) ELSE x
        BY <2>2, <3>2
      <4>2. x \in nodes
        BY <1>5
      <4>3. x.key \in DOMAIN map /\ x = Node(x.key, map[x.key])
        BY <4>2, PairsHas DEF nodes
      <4> QED BY <1>6, <4>1, <4>3, PairsHas
    <3> QED BY <3>1, <3>2
  <2>5. SameBucket(hash, q, k, nodes, Pairs(m), chain)
    BY <1>8, <2>3, <2>4 DEF SameBucket
  <2>7. IsTable(hash, r, Pairs(m)) /\ r.size = q.size
    <3>1. q.size \in Nat /\ q.size <= q.threshold
      BY <1>2, <1>3
    <3>2. PICK others : others = Pairs(m)
      OBVIOUS
    <3>3. SameBucket(hash, q, k, nodes, others, chain)
      BY <2>5, <3>2
    <3>4. PICK size : size = q.size
      OBVIOUS
    <3>5. size \in Nat /\ size <= q.threshold
      BY <3>1, <3>4
    <3>6. r = Relinked(hash, q, k, chain, size)
      BY <2>1, <3>4
    <3>7. IsTable(hash, q, nodes)
      BY <1>2
    <3>8. IsTable(hash, r, others) /\ r.size = size
      BY <1>1, <3>3, <3>5, <3>6, <3>7, RelinkChanges
    <3> QED BY <3>2, <3>4, <3>8
  <2>6. DOMAIN m = DOMAIN map
    BY <1>6, <1>9
  <2> QED BY <1>2, <2>6, <2>7
<1>10. CASE k \notin DOMAIN map
  <2> DEFINE chain == b \cup {Node(k, v)}
  <2>1. r = Relinked(hash, q, k, chain, q.size + 1)
    BY <1>4, <1>10 DEF ht_insert, Inserted, q
  <2> HIDE DEF b, nodes
  <2>2. \A n \in chain : Near(hash, q, n.key, k)
    BY <1>5, <1>11, NodeHas
  <2>3. \A n : Near(hash, q, n.key, k) => (n \in Pairs(m) <=> n \in chain)
    <3> TAKE n
    <3> HAVE Near(hash, q, n.key, k)
    <3>1. CASE n.key = k
      <4>1. n \in Pairs(m) <=> n = Node(k, v)
        BY <1>6, <3>1, PairsHas
      <4>2. n \notin b
        BY <1>5, <1>10, <3>1, PairsHas DEF nodes
      <4> QED BY <4>1, <4>2
    <3>2. CASE n.key # k
      <4>1. n \in Pairs(m) <=> n \in nodes
        BY <1>6, <3>2, PairsHas DEF nodes
      <4>2. n # Node(k, v)
        BY <3>2, NodeHas
      <4> QED BY <1>5, <4>1, <4>2
    <3> QED BY <3>1, <3>2
  <2> HIDE DEF chain
  <2>4. PICK more \in Nat : more = q.size + 1 /\ more <= q.threshold
    BY <1>2, <1>3
  <2>5. SameBucket(hash, q, k, nodes, Pairs(m), chain)
    BY <1>8, <2>2, <2>3 DEF SameBucket
  <2>8. r = Relinked(hash, q, k, chain, more)
    BY <2>1, <2>4
  <2>7. IsTable(hash, r, Pairs(m)) /\ r.size = more
    <3>1. PICK others : others = Pairs(m)
      OBVIOUS
    <3>2. SameBucket(hash, q, k, nodes, others, chain)
      BY <2>5, <3>1
    <3>3. IsTable(hash, r, others) /\ r.size = more
      BY <1>1, <1>2, <2>4, <2>8, <3>2, RelinkChanges
    <3> QED BY <3>1, <3>3
  <2>6. IsFiniteSet(DOMAIN m) /\ Cardinality(DOMAIN m) = Cardinality(DOMAIN map) + 1
    BY <1>6, <1>10, FS_AddElement
  <2> QED BY <1>2, <2>4, <2>6, <2>7
<1> QED BY <1>6, <1>9, <1>10, FS_AddElement

(***************************************************************************)
(* A removal takes the key out of the map, if it is there.                 *)
(***************************************************************************)
THEOREM RemoveDeletes ==
    ASSUME NEW K, NEW hash \in [K -> Nat], NEW map, DOMAIN map \subseteq K,
           IsFiniteSet(DOMAIN map), NEW t, Stores(hash, t, Pairs(map)),
           t.size = Cardinality(DOMAIN map), NEW k \in K,
           NEW r, r = ht_remove(hash, t, k),
           NEW m, m = [x \in DOMAIN map \ {k} |-> map[x]]
    PROVE  /\ Stores(hash, r, Pairs(m))
           /\ IsFiniteSet(DOMAIN m) /\ r.size = Cardinality(DOMAIN m)
<1> DEFINE nodes == Pairs(map)
           b == Bucket(hash, t, k)
           u == Unlinked(hash, t, k)
<1>1. \A n \in nodes : n.key \in K
  BY PairsHas
<1>2. ht_contains(hash, t, k) <=> k \in DOMAIN map
  <2>1. ht_contains(hash, t, k) <=> \E n \in nodes : n.key = k
    <3> HIDE DEF nodes
    <3> QED BY <1>1, ContainsKey DEF nodes
  <2> QED BY <2>1, PairsWith
<1>3. DOMAIN m = DOMAIN map \ {k} /\ \A x \in DOMAIN map : x # k => m[x] = map[x]
  OBVIOUS
<1>4. \A n : n \in Pairs(m) <=> n \in nodes /\ n.key # k
  BY <1>3, PairsHas
<1>5. IsFiniteSet(DOMAIN m)
      /\ Cardinality(DOMAIN m) = IF k \in DOMAIN map THEN t.size - 1 ELSE t.size
  BY <1>3, FS_RemoveElement
<1>6. CASE k \notin DOMAIN map
  <2>1. r = t
    BY <1>2, <1>6 DEF ht_remove
  <2>2. Pairs(m) = nodes
    BY <1>4, <1>6, PairsHas
  <2> QED BY <1>5, <1>6, <2>1, <2>2
<1>7. CASE k \in DOMAIN map
  <2>1. r = IF u.size = u.threshold \div 4 THEN _ht_resize(hash, u) ELSE u
    BY <1>2, <1>7 DEF ht_remove
  <2>2. nodes # {}
    BY <1>7, PairsHas
  <2>3. IsTable(hash, t, nodes)
    BY <2>2 DEF Stores
  <2> DEFINE chain == {n \in b : n.key # k}
  <2>4. u = Relinked(hash, t, k, chain, t.size - 1)
    BY DEF Unlinked
  <2>5. Near(hash, t, k, k)
    BY DEF Near
  <2> HIDE DEF nodes, u
  <2>6. \A n : n \in b <=> n \in nodes /\ Near(hash, t, n.key, k)
    BY <1>1, <2>3, BucketHas
  <2>7. SameBucket(hash, t, k, nodes, Pairs(m), chain)
    BY <1>4, <2>5, <2>6 DEF SameBucket
  <2>8. t.size \in Nat /\ t.size <= t.threshold /\ t.threshold \in Nat
    BY <2>3, TableHas
  <2>9. PICK less \in Nat : less = t.size - 1 /\ less <= t.threshold
    <3>1. t.size # 0
      BY <1>7, FS_EmptySet
    <3> QED BY <2>8, <3>1
  <2> HIDE DEF chain
  <2>10. u = Relinked(hash, t, k, chain, less)
    BY <2>4, <2>9
  <2>11. IsTable(hash, u, Pairs(m)) /\ u.size = less
    BY <1>1, <2>3, <2>7, <2>9, <2>10, RelinkChanges
  <2>12. \A n \in Pairs(m) : n.key \in K
    BY <1>1, <1>4
  <2>13. IsTable(hash, _ht_resize(hash, u), Pairs(m)) /\ _ht_resize(hash, u).size = u.size
    BY <2>11, <2>12, ResizeKeepsNodes
  <2>15. IsTable(hash, r, Pairs(m)) /\ r.size = less
    BY <2>1, <2>11, <2>13
  <2> QED BY <1>5, <1>7, <2>9, <2>15 DEF Stores
<1> QED BY <1>6, <1>7

LEMMA ClearEmpties ==
    ASSUME NEW hash, NEW nodes, NEW t, Stores(hash, t, nodes), NEW r, r = ht_clear(t)
    PROVE  Stores(hash, r, {}) /\ r.size = 0
<1>1. CASE t = HT_INITIALIZER
  BY <1>1 DEF HT_INITIALIZER, Table, ht_clear, Stores
<1>2. CASE IsTable(hash, t, nodes)
  <2>1. t.live = TRUE
    BY <1>2 DEF IsTable, Table
  <2>2. Spread(hash, {}, MinCapacity) = [i \in 0 .. MinCapacity - 1 |-> {}]
    BY DEF Spread
  <2>3. r = TableOf(hash, {}, MinCapacity, 0)
    BY <2>1, <2>2 DEF ht_clear, Resized, _ht_allocate, Table, TableOf
  <2>4. MinCapacity \in Nat /\ Threshold(MinCapacity) \in Nat
    BY MinCapacityAssumption, LoadGrows
  <2> QED BY <2>3, <2>4, MakeTable DEF Stores
<1> QED BY <1>1, <1>2 DEF Stores

(***************************************************************************)
(* What the table that stores the pairs of a map answers.                  *)
(***************************************************************************)
LEMMA PairsCount ==
    ASSUME NEW map, IsFiniteSet(DOMAIN map)
    PROVE  Cardinality(Pairs(map)) = Cardinality(DOMAIN map)
<1> DEFINE f == [k \in DOMAIN map |-> Node(k, map[k])]
<1>1. f \in Bijection(DOMAIN map, Pairs(map))
  <2>1. f \in [DOMAIN map -> Pairs(map)]
    BY PairsHas
  <2>2. \A a, b \in DOMAIN map : f[a] = f[b] => a = b
    BY NodeHas
  <2>3. \A n \in Pairs(map) : \E k \in DOMAIN map : f[k] = n
    BY PairsHas
  <2> HIDE DEF f
  <2> QED BY <2>1, <2>2, <2>3, Fun_IsBij
<1> QED BY <1>1, FS_Bijection DEF ExistsBijection

LEMMA FindsItsKeys ==
    ASSUME NEW K, NEW hash \in [K -> Nat], NEW map, DOMAIN map \subseteq K,
           NEW t, Stores(hash, t, Pairs(map)), NEW k \in K
    PROVE  ht_contains(hash, t, k) <=> k \in DOMAIN map
<1> DEFINE nodes == Pairs(map)
<1>1. \A n \in nodes : n.key \in K
  BY PairsHas
<1>2. ht_contains(hash, t, k) <=> \E n \in nodes : n.key = k
  <2> HIDE DEF nodes
  <2> QED BY <1>1, ContainsKey DEF nodes
<1> QED BY <1>2, PairsWith

LEMMA GetsTheirValues ==
    ASSUME NEW K, NEW hash \in [K -> Nat], NEW map, DOMAIN map \subseteq K,
           NEW t, Stores(hash, t, Pairs(map)), NEW k \in DOMAIN map
    PROVE  ht_get(hash, t, k) = map[k]
<1> DEFINE nodes == Pairs(map)
<1>0. \A n \in nodes : n.key \in K
  BY PairsHas
<1>1. IsTable(hash, t, nodes)
  BY PairsHas DEF Stores
<1>2. \A n : n \in Bucket(hash, t, k) /\ n.key = k <=> n \in nodes /\ n.key = k
  <2> HIDE DEF nodes
  <2> QED BY <1>0, <1>1, BucketHas
<1>3. Node(k, map[k]) \in Bucket(hash, t, k) /\ Node(k, map[k]).key = k
  BY <1>2, PairsHas, NodeHas
<1>4. \A n \in Bucket(hash, t, k) : n.key = k => n = Node(k, map[k])
  BY <1>2, PairsHas
<1>5. (CHOOSE n \in Bucket(hash, t, k) : n.key = k) = Node(k, map[k])
  BY <1>3, <1>4
<1>6. ht_get(hash, t, k) = (CHOOSE n \in Bucket(hash, t, k) : n.key = k).value
  BY DEF ht_get
<1>7. ht_get(hash, t, k) = Node(k, map[k]).value
  BY <1>5, <1>6, Zenon
<1> QED BY <1>7, NodeHas

LEMMA CountsItsKeys ==
    ASSUME NEW K, NEW hash \in [K -> Nat], NEW map, DOMAIN map \subseteq K,
           IsFiniteSet(DOMAIN map), NEW t, Stores(hash, t, Pairs(map)), t.live
    PROVE  Cardinality(Nodes(t)) = Cardinality(DOMAIN map)
<1> DEFINE nodes == Pairs(map)
<1>1. \A n \in nodes : n.key \in K
  BY PairsHas
<1>2. IsTable(hash, t, nodes)
  BY DEF Stores, HT_INITIALIZER, Table
<1>3. Nodes(t) = nodes
  <2> HIDE DEF nodes
  <2> QED BY <1>1, <1>2, TableNodes
<1> QED BY <1>3, PairsCount

\* A table that stores the pairs of a map answers as the map: it finds the keys
\* of the map and no others, with their values, and has one node for each.
THEOREM StoredIsMap ==
    ASSUME NEW K, NEW hash \in [K -> Nat], NEW map, DOMAIN map \subseteq K,
           IsFiniteSet(DOMAIN map), NEW t, Stores(hash, t, Pairs(map))
    PROVE  /\ t.live => Cardinality(Nodes(t)) = Cardinality(DOMAIN map)
           /\ \A k \in K : ht_contains(hash, t, k) <=> k \in DOMAIN map
           /\ \A k \in DOMAIN map : ht_get(hash, t, k) = map[k]
BY CountsItsKeys, FindsItsKeys, GetsTheirValues

-----------------------------------------------------------------------------
(***************************************************************************)
(* The string set as a set.                                                *)
(***************************************************************************)

LEMMA StringNodesHas ==
    ASSUME NEW strings
    PROVE  /\ \A n \in StringNodes(strings) : n.key \in strings /\ n = StringNode(n.key)
           /\ \A k \in strings : StringNode(k) \in StringNodes(strings) /\ StringNode(k).key = k
BY DEF StringNodes, StringNode

LEMMA StringNodesWith ==
    ASSUME NEW strings, NEW k
    PROVE  (\E n \in StringNodes(strings) : n.key = k) <=> k \in strings
BY StringNodesHas

LEMMA SameReady == \A hash, t : ReadySet(hash, t) = Ready(hash, t)
BY DEF ReadySet, Ready, _ss_resize, _ht_resize, _ss_rehash, _ss_allocate,
   ss_setup

\* An insertion adds the string to the set, whether it is there or not, and
\* whether the table grows first or not.
THEOREM InsertAddsString ==
    ASSUME NEW K, NEW hash \in [K -> Nat], NEW strings \in SUBSET K, IsFiniteSet(strings),
           NEW t, Stores(hash, t, StringNodes(strings)), t.size = Cardinality(strings),
           NEW k \in K, NEW r, r = ss_insert(hash, t, k),
           NEW more, more = strings \cup {k}
    PROVE  /\ IsTable(hash, r, StringNodes(more))
           /\ IsFiniteSet(more) /\ r.size = Cardinality(more)
<1> DEFINE nodes == StringNodes(strings)
           q == Ready(hash, t)
           b == Bucket(hash, q, k)
           chain == b \cup {StringNode(k)}
<1>1. \A n \in nodes : n.key \in K
  BY StringNodesHas
<1>2. IsTable(hash, q, nodes) /\ q.size = t.size /\ q.size < q.threshold
  BY <1>1, ReadyHasRoom
<1>3. r = IF ht_contains(hash, q, k) THEN q ELSE Relinked(hash, q, k, chain, q.size + 1)
  BY SameReady DEF ss_insert, ss_contains
<1> HIDE DEF q
<1>4. q.size \in Nat /\ q.threshold \in Nat /\ Stores(hash, q, nodes)
  BY <1>2, TableHas DEF Stores
<1>5. ht_contains(hash, q, k) <=> k \in strings
  <2>1. ht_contains(hash, q, k) <=> \E n \in nodes : n.key = k
    <3> HIDE DEF nodes
    <3> QED BY <1>1, <1>4, ContainsKey
  <2> QED BY <2>1, StringNodesWith
<1>6. CASE k \in strings
  <2>1. more = strings /\ r = q
    BY <1>3, <1>5, <1>6
  <2> QED BY <1>2, <2>1
<1>7. CASE k \notin strings
  <2>1. r = Relinked(hash, q, k, chain, q.size + 1)
    BY <1>3, <1>5, <1>7
  <2>2. Near(hash, q, k, k)
    BY DEF Near
  <2> HIDE DEF b, nodes
  <2>3. \A n : n \in b <=> n \in nodes /\ Near(hash, q, n.key, k)
    BY <1>1, <1>2, BucketHas DEF b
  <2>4. \A n : n \in StringNodes(more) <=> n \in nodes \/ n = StringNode(k)
    BY StringNodesHas DEF nodes
  <2>5. StringNode(k).key = k
    BY DEF StringNode
  <2>6. SameBucket(hash, q, k, nodes, StringNodes(more), chain)
    BY <2>2, <2>3, <2>4, <2>5 DEF SameBucket
  <2> HIDE DEF chain
  <2>7. PICK size \in Nat : size = q.size + 1 /\ size <= q.threshold
    BY <1>2, <1>4
  <2>8. r = Relinked(hash, q, k, chain, size)
    BY <2>1, <2>7
  <2>9. IsTable(hash, r, StringNodes(more)) /\ r.size = size
    <3> DEFINE others == StringNodes(more)
    <3>1. IsTable(hash, q, nodes) /\ size <= q.threshold
          /\ SameBucket(hash, q, k, nodes, others, chain)
      BY <1>2, <2>6, <2>7
    <3> HIDE DEF others
    <3>2. IsTable(hash, Relinked(hash, q, k, chain, size), others)
          /\ Relinked(hash, q, k, chain, size).size = size
      BY <1>1, <3>1, RelinkChanges
    <3> QED BY <2>8, <3>2 DEF others
  <2>10. IsFiniteSet(more) /\ Cardinality(more) = Cardinality(strings) + 1
    BY <1>7, FS_AddElement
  <2> QED BY <1>2, <2>7, <2>9, <2>10
<1> QED BY <1>6, <1>7

\* A table that stores the strings of a set answers as the set, and its size
\* counts them.
THEOREM StoredIsSet ==
    ASSUME NEW K, NEW hash \in [K -> Nat], NEW strings \in SUBSET K,
           NEW t, Stores(hash, t, StringNodes(strings))
    PROVE  /\ \A k \in K : ss_contains(hash, t, k) <=> k \in strings
           /\ t.live => Strings(t) = strings
<1> DEFINE nodes == StringNodes(strings)
<1>1. \A n \in nodes : n.key \in K
  BY StringNodesHas
<1>2. \A k \in K : ss_contains(hash, t, k) <=> k \in strings
  <2> TAKE k \in K
  <2>1. ht_contains(hash, t, k) <=> \E n \in nodes : n.key = k
    <3> HIDE DEF nodes
    <3> QED BY <1>1, ContainsKey DEF nodes
  <2> QED BY <2>1, StringNodesWith DEF ss_contains
<1>3. ASSUME t.live PROVE Strings(t) = strings
  <2>1. IsTable(hash, t, nodes)
    BY <1>3 DEF Stores, HT_INITIALIZER, Table
  <2>2. Nodes(t) = nodes
    <3> HIDE DEF nodes
    <3> QED BY <1>1, <2>1, TableNodes
  <2>3. {n.key : n \in nodes} = strings
    BY StringNodesHas
  <2> QED BY <2>2, <2>3 DEF Strings
<1> QED BY <1>2, <1>3

-----------------------------------------------------------------------------
(***************************************************************************)
(* Vectors: an operation does to the elements what it does to the          *)
(* sequence, whatever the cells nobody wrote hold.                         *)
(***************************************************************************)

LEMMA AgreesAppend ==
    ASSUME NEW E, NEW s \in Seq(E), NEW F, NEW c \in Seq(F), Agrees(s, c), NEW e
    PROVE  Agrees(Append(s, e), Append(c, e))
BY DEF Agrees

LEMMA AgreesConcat ==
    ASSUME NEW E, NEW s \in Seq(E), NEW u \in Seq(E),
           NEW F, NEW c \in Seq(F), NEW d \in Seq(F), Agrees(s, c), Agrees(u, d)
    PROVE  Agrees(s \o u, c \o d)
<1>1. Len(s) = Len(c) /\ Len(u) = Len(d) /\ Len(s) \in Nat /\ Len(u) \in Nat
  BY DEF Agrees
<1>2. \A p \in 1 .. Len(s) : s[p] = Unset \/ s[p] = c[p]
  BY DEF Agrees
<1>3. \A p \in 1 .. Len(u) : u[p] = Unset \/ u[p] = d[p]
  BY DEF Agrees
<1> DEFINE x == s \o u
           y == c \o d
<1>4. Len(x) = Len(s) + Len(u) /\ Len(y) = Len(s) + Len(u)
  BY <1>1
<1>5. \A p \in 1 .. Len(s) + Len(u) :
        /\ x[p] = IF p <= Len(s) THEN s[p] ELSE u[p - Len(s)]
        /\ y[p] = IF p <= Len(s) THEN c[p] ELSE d[p - Len(s)]
  BY <1>1
<1> HIDE DEF x, y
<1>6. \A p \in 1 .. Len(s) + Len(u) : x[p] = Unset \/ x[p] = y[p]
  <2> TAKE p \in 1 .. Len(s) + Len(u)
  <2>1. CASE p <= Len(s)
    BY <1>1, <1>2, <1>5, <2>1
  <2>2. CASE ~(p <= Len(s))
    <3>1. p - Len(s) \in 1 .. Len(u)
      BY <1>1, <2>2
    <3> QED BY <1>3, <1>5, <2>2, <3>1
  <2> QED BY <2>1, <2>2
<1>7. Agrees(x, y)
  BY <1>4, <1>6 DEF Agrees
<1> QED BY <1>7 DEF x, y

LEMMA AgreesSub ==
    ASSUME NEW E, NEW s \in Seq(E), NEW F, NEW c \in Seq(F), Agrees(s, c),
           NEW a \in 1 .. Len(s) + 1, NEW b \in 0 .. Len(s)
    PROVE  /\ SubSeq(s, a, b) \in Seq(E) /\ SubSeq(c, a, b) \in Seq(F)
           /\ Agrees(SubSeq(s, a, b), SubSeq(c, a, b))
<1>1. Len(s) = Len(c) /\ Len(s) \in Nat
  BY DEF Agrees
<1>2. \A p \in 1 .. Len(s) : s[p] = Unset \/ s[p] = c[p]
  BY DEF Agrees
<1> DEFINE x == SubSeq(s, a, b)
           y == SubSeq(c, a, b)
<1>3. x \in Seq(E) /\ y \in Seq(F)
  BY <1>1, SubSeqProperties
<1>4. Len(x) = Len(y) /\ Len(x) = (IF a <= b THEN b - a + 1 ELSE 0)
  BY <1>1, SubSeqProperties
<1>5. \A p \in 1 .. Len(x) : x[p] = s[a + p - 1] /\ y[p] = c[a + p - 1]
  BY <1>1, SubSeqProperties
<1>6. \A p \in 1 .. Len(x) : a + p - 1 \in 1 .. Len(s)
  BY <1>1, <1>4
<1> HIDE DEF x, y
<1>7. Agrees(x, y)
  BY <1>2, <1>4, <1>5, <1>6 DEF Agrees
<1> QED BY <1>3, <1>7 DEF x, y

LEMMA AgreesExcept ==
    ASSUME NEW E, NEW s \in Seq(E), NEW F, NEW c \in Seq(F), Agrees(s, c),
           NEW i \in 1 .. Len(s), NEW e
    PROVE  Agrees([s EXCEPT ![i] = e], [c EXCEPT ![i] = e])
BY DEF Agrees

(***************************************************************************)
(* What a push or an insertion asserts leaves two kinds of vector; and an  *)
(* allocation that fails leaves what it would have left, or no memory.     *)
(***************************************************************************)
Item == Element \cup {Unset}

CanGrow(v) == v.live /\ v.size <= v.capacity

IsFull(v, s) == IsVector(v) /\ Agrees(s, Contents(v))

IsEmptied(v, s) == IsHollow(v) /\ v.size = 0 /\ s = <<>>

LEMMA GrowCases ==
    ASSUME NEW v, NEW s \in Seq(Item), Stands(v, s), CanGrow(v)
    PROVE  IsFull(v, s) \/ IsEmptied(v, s)
<1>1. CASE v.live = FALSE
  BY <1>1 DEF CanGrow
<1>2. CASE IsVector(v) /\ Agrees(s, Contents(v))
  BY <1>2 DEF IsFull
<1>3. CASE IsHollow(v) /\ v.size = Len(s)
  <2>1. v.capacity = 0 /\ v.size \in Nat
    BY <1>3 DEF IsHollow
  <2>2. v.size = 0
    BY <2>1 DEF CanGrow
  <2> QED BY <1>3, <2>2, EmptySeq DEF IsEmptied
<1> QED BY <1>1, <1>2, <1>3 DEF Stands

LEMMA FullHas ==
    ASSUME NEW v, NEW s \in Seq(Item), IsFull(v, s)
    PROVE  /\ IsVector(v) /\ v.size \in Nat /\ Len(s) = v.size
           /\ Contents(v) \in Seq(Cell) /\ Len(Contents(v)) = v.size
           /\ Agrees(s, Contents(v))
BY ContentsSeq DEF IsFull, Agrees, Cell

LEMMA FullStands ==
    ASSUME NEW f, NEW g, Shows(f, g), NEW s, IsFull(g, s)
    PROVE  Stands(f, s) /\ Stands(g, s)
BY DEF Shows, Stands, IsFull

LEMMA ShowsStands ==
    ASSUME NEW f, NEW g, Shows(f, g), NEW s, Stands(g, s)
    PROVE  Stands(f, s)
BY DEF Shows, Stands

LEMMA HollowHas ==
    ASSUME NEW v, IsHollow(v)
    PROVE  v.capacity = 0 /\ v.size \in Nat /\ v.data \in [{} -> Cell]
BY DEF IsHollow

LEMMA HollowLives ==
    ASSUME NEW v, IsHollow(v)
    PROVE  v.live = TRUE
BY DEF IsHollow

LEMMA HollowWith ==
    ASSUME NEW v, IsHollow(v), NEW n \in Nat, NEW d \in [{} -> Cell], NEW s, Len(s) = n
    PROVE  Stands(With(v, n, d), s)
BY HollowHas, HollowLives DEF With, IsHollow, Stands

LEMMA HollowTiny ==
    ASSUME NEW v, IsHollow(v)
    PROVE  v.capacity <= VECTOR_MINIMUM_CAPACITY
BY HollowHas, Constants

LEMMA NoCell ==
    ASSUME NEW d, d \in [{} -> Cell], NEW i, NEW e
    PROVE  [d EXCEPT ![i] = e] \in [{} -> Cell]
OBVIOUS

\* The lists that stand for a vector after an insertion, and after an erasure.
LEMMA InsertAtIs ==
    ASSUME NEW s \in Seq(Item), NEW n \in 0 .. Len(s), NEW e \in Element
    PROVE  InsertAt(s, n + 1, e) = Append(SubSeq(s, 1, n), e) \o SubSeq(s, n + 1, Len(s))
<1>1. n \in Nat /\ Len(s) \in Nat
  BY LenProperties
<1>2. PICK k \in Nat : k = n + 1
  BY <1>1
<1>3. k - 1 = n
  BY <1>1, <1>2
<1> DEFINE a == SubSeq(s, 1, n)
           b == SubSeq(s, k, Len(s))
<1>4. InsertAt(s, k, e) = SubSeq(s, 1, k - 1) \o <<e>> \o b
  BY Zenon DEF InsertAt
<1>5. SubSeq(s, 1, k - 1) = a
  BY <1>3, Zenon
<1>6. InsertAt(s, k, e) = a \o <<e>> \o b
  BY <1>4, <1>5, Zenon
<1>7. a \in Seq(Item)
  BY <1>1, SubSeqProperties
<1> HIDE DEF a, b
<1>8. a \o <<e>> = Append(a, e)
  BY <1>7
<1>9. InsertAt(s, k, e) = Append(a, e) \o b
  BY <1>6, <1>8, Zenon
<1> QED BY <1>2, <1>9, Zenon DEF a, b

LEMMA RemoveAtIs ==
    ASSUME NEW s \in Seq(Item), NEW n \in Nat
    PROVE  RemoveAt(s, n + 1) = SubSeq(s, 1, n) \o SubSeq(s, n + 2, Len(s))
<1>1. PICK k \in Nat : k = n + 1
  OBVIOUS
<1>2. k - 1 = n /\ k + 1 = n + 2
  BY <1>1
<1>3. RemoveAt(s, k) = SubSeq(s, 1, k - 1) \o SubSeq(s, k + 1, Len(s))
  BY Zenon DEF RemoveAt
<1>4. RemoveAt(s, k) = SubSeq(s, 1, n) \o SubSeq(s, n + 2, Len(s))
  BY <1>2, <1>3, Zenon
<1> QED BY <1>1, <1>4, Zenon

\* A vector without room does not find that it has to grow.
LEMMA HollowGrows ==
    ASSUME NEW v, IsHollow(v), v.size = 0, NEW ok
    PROVE  Grown(v, ok) = v
<1>1. v.size * 2 = 0 /\ MAX(1, v.size * 2) = 1
  BY DEF MAX
<1>2. _vector_adjust_capacity(v, ok) = _vector_reallocate(v, 1, ok)
  BY <1>1, Constants DEF _vector_adjust_capacity
<1>3. _vector_reallocate(v, 1, ok) = v
  BY HollowTiny, Constants DEF _vector_reallocate
<1> QED BY <1>2, <1>3 DEF Grown

LEMMA PushStands ==
    ASSUME NEW v, NEW s \in Seq(Item), Stands(v, s), CanGrow(v),
           NEW e \in Element, NEW ok \in BOOLEAN
    PROVE  Stands(vector_push_back(v, e, ok), Append(s, e))
<1> DEFINE g == vector_push_back(v, e, TRUE)
           f == vector_push_back(v, e, FALSE)
<1>1. CASE IsFull(v, s)
  <2>1. IsVector(g) /\ Contents(g) = Append(Contents(v), e)
    BY <1>1, FullHas, PushBackAppends
  <2>2. Agrees(Append(s, e), Contents(g))
    BY <1>1, <2>1, FullHas, AgreesAppend
  <2>3. Shows(f, g)
    BY <1>1, FullHas, PushShows
  <2> HIDE DEF f, g
  <2>4. Stands(f, Append(s, e)) /\ Stands(g, Append(s, e))
    BY <2>1, <2>2, <2>3, FullStands DEF IsFull
  <2> QED BY <2>4 DEF f, g
<1>2. CASE IsEmptied(v, s)
  <2>1. IsHollow(v) /\ v.size = 0 /\ s = <<>>
    BY <1>2 DEF IsEmptied
  <2> DEFINE d == [v.data EXCEPT ![v.size] = e]
  <2>2. vector_push_back(v, e, ok) = With(v, v.size + 1, d)
    <3>1. Grown(v, ok) = v /\ v.live = TRUE
      BY <2>1, HollowGrows, HollowLives
    <3> QED BY <3>1 DEF vector_push_back
  <2>3. v.size + 1 = 1 /\ d \in [{} -> Cell]
    BY <2>1, HollowHas, NoCell
  <2>4. Len(Append(s, e)) = 1
    BY <2>1
  <2> HIDE DEF d
  <2> QED BY <2>1, <2>2, <2>3, <2>4, HollowWith
<1> QED BY <1>1, <1>2, GrowCases

LEMMA InsertStands ==
    ASSUME NEW v, NEW s \in Seq(Item), Stands(v, s), CanGrow(v),
           NEW e \in Element, NEW ok \in BOOLEAN, NEW n \in 0 .. v.size
    PROVE  Stands(vector_insert(v, n, e, ok), InsertAt(s, n + 1, e))
<1> DEFINE g == vector_insert(v, n, e, TRUE)
           f == vector_insert(v, n, e, FALSE)
<1>1. CASE IsFull(v, s)
  <2> DEFINE c == Contents(v)
             a == SubSeq(s, 1, n)
             b == SubSeq(s, n + 1, Len(s))
             x == SubSeq(c, 1, n)
             y == SubSeq(c, n + 1, v.size)
  <2>1. /\ IsVector(v) /\ v.size \in Nat /\ Len(s) = v.size
        /\ c \in Seq(Cell) /\ Len(c) = v.size /\ Agrees(s, c)
    BY <1>1, FullHas
  <2>2. IsVector(g) /\ Contents(g) = Append(x, e) \o y
    BY <2>1, InsertInserts
  <2>3. n \in Nat /\ 1 \in 1 .. Len(s) + 1 /\ n + 1 \in 1 .. Len(s) + 1
        /\ n \in 0 .. Len(s) /\ Len(s) \in 0 .. Len(s)
    BY <2>1
  <2>4. a \in Seq(Item) /\ x \in Seq(Cell) /\ Agrees(a, x)
    BY <2>1, <2>3, AgreesSub
  <2>5. b \in Seq(Item) /\ y \in Seq(Cell) /\ Agrees(b, y)
    BY <2>1, <2>3, AgreesSub
  <2>6. InsertAt(s, n + 1, e) = Append(a, e) \o b
    BY <2>1, <2>3, InsertAtIs
  <2> HIDE DEF a, b, x, y
  <2>7. Append(a, e) \in Seq(Item) /\ Append(x, e) \in Seq(Cell) /\ Agrees(Append(a, e), Append(x, e))
    BY <2>4, AgreesAppend DEF Item, Cell
  <2>8. Agrees(InsertAt(s, n + 1, e), Contents(g))
    BY <2>2, <2>5, <2>6, <2>7, AgreesConcat
  <2>9. Shows(f, g)
    BY <2>1, <2>3, InsertShows
  <2> HIDE DEF f, g
  <2>10. Stands(f, InsertAt(s, n + 1, e)) /\ Stands(g, InsertAt(s, n + 1, e))
    BY <2>2, <2>8, <2>9, FullStands DEF IsFull
  <2> QED BY <2>10 DEF f, g
<1>2. CASE IsEmptied(v, s)
  <2>1. IsHollow(v) /\ v.size = 0 /\ s = <<>> /\ n = 0
    BY <1>2 DEF IsEmptied
  <2> DEFINE m == _vector_move_right(v, n)
             d == [m EXCEPT ![n] = e]
  <2>2. vector_insert(v, n, e, ok) = With(v, v.size + 1, d)
    <3>1. Grown(v, ok) = v /\ v.live = TRUE
      BY <2>1, HollowGrows, HollowLives
    <3> QED BY <3>1 DEF vector_insert
  <2>3. v.size + 1 = 1 /\ d \in [{} -> Cell]
    <3>1. v.data \in [{} -> Cell]
      BY <2>1, HollowHas
    <3>2. m \in [{} -> Cell]
      BY <3>1 DEF _vector_move_right
    <3> HIDE DEF m
    <3>3. d \in [{} -> Cell]
      BY <3>2, NoCell
    <3> QED BY <2>1, <3>3
  <2>4. Len(InsertAt(s, n + 1, e)) = 1
    <3>1. InsertAt(s, n + 1, e) = SubSeq(s, 1, 0) \o <<e>> \o SubSeq(s, 1, Len(s))
      BY <2>1 DEF InsertAt
    <3>2. SubSeq(s, 1, 0) = <<>> /\ SubSeq(s, 1, Len(s)) = <<>>
      BY <2>1, SubSeqEmpty
    <3> QED BY <3>1, <3>2
  <2> HIDE DEF d
  <2> QED BY <2>1, <2>2, <2>3, <2>4, HollowWith
<1> QED BY <1>1, <1>2, GrowCases

LEMMA AssignStands ==
    ASSUME NEW v, NEW s \in Seq(Item), Stands(v, s), CanGrow(v),
           NEW e \in Element, NEW n \in 0 .. v.size - 1
    PROVE  Stands(vector_assign(v, n, e), [s EXCEPT ![n + 1] = e])
<1>1. CASE IsFull(v, s)
  <2> DEFINE r == vector_assign(v, n, e)
  <2>1. /\ IsVector(v) /\ v.size \in Nat /\ Len(s) = v.size
        /\ Contents(v) \in Seq(Cell) /\ Agrees(s, Contents(v))
    BY <1>1, FullHas
  <2>2. IsVector(r) /\ Contents(r) = [Contents(v) EXCEPT ![n + 1] = e]
    BY <2>1, AssignReplaces
  <2>3. n + 1 \in 1 .. Len(s)
    BY <2>1
  <2>4. Agrees([s EXCEPT ![n + 1] = e], [Contents(v) EXCEPT ![n + 1] = e])
    BY <2>1, <2>3, AgreesExcept
  <2> HIDE DEF r
  <2>5. Stands(r, [s EXCEPT ![n + 1] = e])
    BY <2>2, <2>4 DEF Stands
  <2> QED BY <2>5 DEF r
<1>2. CASE IsEmptied(v, s)
  BY <1>2 DEF IsEmptied
<1> QED BY <1>1, <1>2, GrowCases

LEMMA PopStands ==
    ASSUME NEW v, NEW s \in Seq(Item), Stands(v, s), CanGrow(v),
           v.size > 0, NEW ok \in BOOLEAN
    PROVE  Stands(vector_pop_back(v, ok), Front(s))
<1> DEFINE g == vector_pop_back(v, TRUE)
           f == vector_pop_back(v, FALSE)
<1>1. CASE IsFull(v, s)
  <2>1. /\ IsVector(v) /\ v.size \in Nat /\ Len(s) = v.size
        /\ Contents(v) \in Seq(Cell) /\ Agrees(s, Contents(v))
    BY <1>1, FullHas
  <2>2. IsVector(g) /\ Contents(g) = SubSeq(Contents(v), 1, v.size - 1)
    BY <2>1, PopBackDropsLast
  <2>3. 1 \in 1 .. Len(s) + 1 /\ v.size - 1 \in 0 .. Len(s)
    BY <2>1
  <2>4. Agrees(Front(s), Contents(g))
    BY <2>1, <2>2, <2>3, AgreesSub DEF Front
  <2>5. Shows(f, g)
    BY <2>1, PopShows
  <2> HIDE DEF f, g
  <2>6. Stands(f, Front(s)) /\ Stands(g, Front(s))
    BY <2>2, <2>4, <2>5, FullStands DEF IsFull
  <2> QED BY <2>6 DEF f, g
<1>2. CASE IsEmptied(v, s)
  BY <1>2 DEF IsEmptied
<1> QED BY <1>1, <1>2, GrowCases

LEMMA EraseStands ==
    ASSUME NEW v, NEW s \in Seq(Item), Stands(v, s), CanGrow(v),
           NEW n \in 0 .. v.size - 1, NEW ok \in BOOLEAN
    PROVE  Stands(vector_erase(v, n, ok), RemoveAt(s, n + 1))
<1> DEFINE g == vector_erase(v, n, TRUE)
           f == vector_erase(v, n, FALSE)
<1>1. CASE IsFull(v, s)
  <2> DEFINE c == Contents(v)
             a == SubSeq(s, 1, n)
             b == SubSeq(s, n + 2, Len(s))
             x == SubSeq(c, 1, n)
             y == SubSeq(c, n + 2, v.size)
  <2>1. /\ IsVector(v) /\ v.size \in Nat /\ Len(s) = v.size
        /\ c \in Seq(Cell) /\ Len(c) = v.size /\ Agrees(s, c)
    BY <1>1, FullHas
  <2>2. IsVector(g) /\ Contents(g) = x \o y
    BY <2>1, EraseDropsOne
  <2>3. n \in Nat /\ n < v.size /\ 1 \in 1 .. Len(s) + 1 /\ n + 2 \in 1 .. Len(s) + 1
        /\ n \in 0 .. Len(s) /\ Len(s) \in 0 .. Len(s)
    BY <2>1
  <2>4. a \in Seq(Item) /\ x \in Seq(Cell) /\ Agrees(a, x)
    BY <2>1, <2>3, AgreesSub
  <2>5. b \in Seq(Item) /\ y \in Seq(Cell) /\ Agrees(b, y)
    BY <2>1, <2>3, AgreesSub
  <2>6. RemoveAt(s, n + 1) = a \o b
    BY <2>1, <2>3, RemoveAtIs
  <2> HIDE DEF a, b, x, y
  <2>7. Agrees(RemoveAt(s, n + 1), Contents(g))
    BY <2>2, <2>4, <2>5, <2>6, AgreesConcat
  <2>8. Shows(f, g)
    BY <2>1, <2>3, EraseShows
  <2> HIDE DEF f, g
  <2>9. Stands(f, RemoveAt(s, n + 1)) /\ Stands(g, RemoveAt(s, n + 1))
    BY <2>2, <2>7, <2>8, FullStands DEF IsFull
  <2> QED BY <2>9 DEF f, g
<1>2. CASE IsEmptied(v, s)
  BY <1>2 DEF IsEmptied
<1> QED BY <1>1, <1>2, GrowCases

\* Memory for a vector that had none.
LEMMA HollowMoves ==
    ASSUME NEW v, IsHollow(v), v.size = 0, NEW c \in Nat, 2 <= c
    PROVE  IsVector(Moved(v, c)) /\ Moved(v, c).size = 0 /\ Moved(v, c).capacity = c
<1> DEFINE m == Moved(v, c)
           d == [i \in 0 .. c - 1 |-> IF i < v.size THEN v.data[i] ELSE Junk]
<1>1. d \in [0 .. c - 1 -> Element \cup {Junk}]
  <2>1. \A i \in 0 .. c - 1 : ~(i < v.size)
    OBVIOUS
  <2> QED BY <2>1
<1> HIDE DEF d
<1>2. m = [size |-> v.size, capacity |-> c, live |-> TRUE, data |-> d]
  BY DEF Moved, d
<1>3. m.size = 0 /\ m.capacity = c /\ m.data = d
  BY <1>2
<1>4. IsVector(m)
  BY <1>1, <1>2, Constants DEF IsVector
<1> QED BY <1>3, <1>4

LEMMA EmptyStands ==
    ASSUME NEW v, IsVector(v), v.size = 0
    PROVE  Contents(v) = <<>> /\ Stands(v, <<>>)
<1>1. Len(Contents(v)) = 0 /\ Contents(v) \in Seq(Element \cup {Junk})
  BY ContentsSeq
<1>2. Contents(v) = <<>>
  BY <1>1, EmptySeq
<1>3. Agrees(<<>>, Contents(v))
  BY <1>2 DEF Agrees
<1> QED BY <1>2, <1>3 DEF Stands

LEMMA SetupEmpty ==
    ASSUME NEW c \in Nat
    PROVE  IsVector(vector_setup(c, TRUE)) /\ Contents(vector_setup(c, TRUE)) = <<>>
<1> DEFINE cap == MAX(VECTOR_MINIMUM_CAPACITY, c)
           d == [i \in 0 .. cap - 1 |-> Junk]
           v == vector_setup(c, TRUE)
<1>1. cap \in Nat /\ 2 <= cap
  BY Constants DEF MAX
<1>2. v = [size |-> 0, capacity |-> cap, live |-> TRUE, data |-> d]
  BY DEF vector_setup
<1> HIDE DEF cap
<1>3. d \in [0 .. cap - 1 -> Element \cup {Junk}]
  OBVIOUS
<1> HIDE DEF d, v
<1>4. IsVector(v) /\ v.size = 0
  BY <1>1, <1>2, <1>3, Constants DEF IsVector
<1> QED BY <1>4, EmptyStands DEF v

LEMMA SetupStands ==
    ASSUME NEW c \in Nat, NEW ok \in BOOLEAN
    PROVE  Stands(vector_setup(c, ok), <<>>)
<1>1. CASE ok = TRUE
  <2>1. Agrees(<<>>, Contents(vector_setup(c, TRUE)))
    BY SetupEmpty DEF Agrees
  <2> QED BY <1>1, <2>1, SetupEmpty DEF Stands
<1>2. CASE ok = FALSE
  BY <1>2 DEF Stands, vector_setup
<1> QED BY <1>1, <1>2

LEMMA ReallocationStands ==
    ASSUME NEW v, IsHollow(v), v.size = 0, NEW c \in Nat, NEW ok \in BOOLEAN
    PROVE  Stands(_vector_reallocate(v, c, ok), <<>>)
<1>1. CASE c < 2
  <2>1. _vector_reallocate(v, c, ok) = v
    BY <1>1, HollowTiny, Constants DEF _vector_reallocate
  <2> QED BY <2>1 DEF Stands
<1>2. CASE ~(c < 2) /\ ok = TRUE
  <2>1. MAX(VECTOR_MINIMUM_CAPACITY, c) = c /\ 2 <= c
    BY <1>2, Constants DEF MAX
  <2>2. _vector_reallocate(v, c, ok) = Moved(v, c)
    BY <1>2, <2>1, Constants DEF _vector_reallocate
  <2> QED BY <2>1, <2>2, HollowMoves, EmptyStands
<1>3. CASE ~(c < 2) /\ ok = FALSE
  <2>1. _vector_reallocate(v, c, ok) = [v EXCEPT !.live = FALSE]
    BY <1>3, Constants DEF _vector_reallocate
  <2>2. [v EXCEPT !.live = FALSE].live = FALSE
    BY DEF IsHollow
  <2> QED BY <2>1, <2>2 DEF Stands
<1> QED BY <1>1, <1>2, <1>3

LEMMA ReserveStands ==
    ASSUME NEW v, NEW s \in Seq(Item), Stands(v, s), CanGrow(v),
           NEW c \in Nat, NEW ok \in BOOLEAN
    PROVE  Stands(vector_reserve(v, c, ok), s)
<1> DEFINE g == vector_reserve(v, c, TRUE)
           f == vector_reserve(v, c, FALSE)
<1>1. CASE IsFull(v, s)
  <2>1. IsVector(v) /\ Agrees(s, Contents(v))
    BY <1>1 DEF IsFull
  <2>2. IsVector(g) /\ Contents(g) = Contents(v)
    BY <2>1, RoomAloneChanges
  <2>3. Shows(f, g)
    BY <2>1, ReserveShows
  <2> HIDE DEF f, g
  <2>4. Stands(f, s) /\ Stands(g, s)
    BY <2>1, <2>2, <2>3, FullStands DEF IsFull
  <2> QED BY <2>4 DEF f, g
<1>2. CASE IsEmptied(v, s)
  BY <1>2, ReallocationStands DEF IsEmptied, vector_reserve, Stands
<1> QED BY <1>1, <1>2, GrowCases

LEMMA ShrinkToFitStands ==
    ASSUME NEW v, NEW s \in Seq(Item), Stands(v, s), CanGrow(v), NEW ok \in BOOLEAN
    PROVE  Stands(vector_shrink_to_fit(v, ok), s)
<1> DEFINE g == vector_shrink_to_fit(v, TRUE)
           f == vector_shrink_to_fit(v, FALSE)
<1>1. CASE IsFull(v, s)
  <2>1. IsVector(v) /\ Agrees(s, Contents(v))
    BY <1>1 DEF IsFull
  <2>2. IsVector(g) /\ Contents(g) = Contents(v)
    BY <2>1, RoomAloneChanges
  <2>3. Shows(f, g)
    BY <2>1, ShrinkToFitShows
  <2> HIDE DEF f, g
  <2>4. Stands(f, s) /\ Stands(g, s)
    BY <2>1, <2>2, <2>3, FullStands DEF IsFull
  <2> QED BY <2>4 DEF f, g
<1>2. CASE IsEmptied(v, s)
  BY <1>2, ReallocationStands DEF IsEmptied, vector_shrink_to_fit
<1> QED BY <1>1, <1>2, GrowCases

\* The sequence of a resized vector: cut off, or filled with cells not written.
Cut(s, n) == [p \in 1 .. n |-> IF p <= Len(s) THEN s[p] ELSE Unset]

LEMMA CutHas ==
    ASSUME NEW s \in Seq(Item), NEW n \in Nat
    PROVE  /\ Cut(s, n) \in Seq(Item) /\ Len(Cut(s, n)) = n
           /\ \A p \in 1 .. n : Cut(s, n)[p] = IF p <= Len(s) THEN s[p] ELSE Unset
<1>1. \A p \in 1 .. n : (IF p <= Len(s) THEN s[p] ELSE Unset) \in Item
  <2>1. \A p \in 1 .. n : p <= Len(s) => p \in 1 .. Len(s)
    BY LenProperties
  <2>2. \A p \in 1 .. Len(s) : s[p] \in Item
    BY ElementOfSeq
  <2> QED BY <2>1, <2>2 DEF Item
<1>2. Cut(s, n) \in [1 .. n -> Item]
  BY <1>1 DEF Cut
<1>3. Cut(s, n) \in Seq(Item)
  BY <1>2
<1> QED BY <1>2, <1>3, LenProperties DEF Cut

LEMMA CutAgrees ==
    ASSUME NEW s \in Seq(Item), NEW v, IsVector(v), Agrees(s, Contents(v)), Len(s) = v.size,
           NEW n \in Nat, NEW r, IsVector(r), r.size = n,
           \A i \in 1 .. n : i <= v.size => Contents(r)[i] = Contents(v)[i]
    PROVE  Agrees(Cut(s, n), Contents(r))
<1>1. Len(Contents(r)) = n
  BY ContentsSeq
<1>2. \A p \in 1 .. Len(s) : s[p] = Unset \/ s[p] = Contents(v)[p]
  BY DEF Agrees
<1>3. ASSUME NEW p \in 1 .. n
      PROVE  Cut(s, n)[p] = Unset \/ Cut(s, n)[p] = Contents(r)[p]
  <2>1. Cut(s, n)[p] = IF p <= Len(s) THEN s[p] ELSE Unset
    BY CutHas
  <2>2. CASE p <= Len(s)
    <3>1. p \in 1 .. Len(s) /\ Contents(r)[p] = Contents(v)[p]
      BY <2>2, LenProperties
    <3> QED BY <1>2, <2>1, <2>2, <3>1
  <2>3. CASE ~(p <= Len(s))
    BY <2>1, <2>3
  <2> QED BY <2>2, <2>3
<1> QED BY <1>1, <1>3, CutHas DEF Agrees

LEMMA EmptiedResizes ==
    ASSUME NEW v, IsHollow(v), v.size = 0, NEW n \in Nat, NEW ok \in BOOLEAN
    PROVE  Stands(vector_resize(v, n, ok), Cut(<<>>, n))
<1> DEFINE cut == n <= v.capacity * VECTOR_SHRINK_THRESHOLD
           old == IF cut THEN With(v, n, v.data) ELSE v
           r   == IF cut \/ n > v.capacity
                  THEN _vector_reallocate(old, n * VECTOR_GROWTH_FACTOR, ok) ELSE old
<1>1. vector_resize(v, n, ok) = IF r.live THEN With(r, n, r.data) ELSE r
  BY DEF vector_resize
<1>2. v.capacity = 0 /\ v.data \in [{} -> Cell]
  BY HollowHas
<1>3. cut <=> n = 0
  BY <1>2, Constants
<1>4. Len(Cut(<<>>, n)) = n /\ \A p \in 1 .. n : Cut(<<>>, n)[p] = Unset
  <2>1. <<>> \in Seq(Item) /\ Len(<<>>) = 0
    OBVIOUS
  <2>2. PICK s \in Seq(Item) : s = <<>> /\ Len(s) = 0
    BY <2>1
  <2>3. \A p \in 1 .. n : ~(p <= Len(s))
    BY <2>2
  <2> QED BY <2>2, <2>3, CutHas
<1>5. CASE n = 0
  <2>1. old = v
    BY <1>3, <1>5 DEF With, IsHollow
  <2>2. r = v
    <3>1. n * VECTOR_GROWTH_FACTOR = 0
      BY <1>5, Constants
    <3> HIDE DEF old
    <3>2. r = _vector_reallocate(v, 0, ok)
      BY <1>3, <1>5, <2>1, <3>1
    <3> QED BY <3>2, HollowTiny, Constants DEF _vector_reallocate
  <2> HIDE DEF r
  <2>3. vector_resize(v, n, ok) = With(v, n, v.data)
    BY <1>1, <2>2, HollowLives
  <2> QED BY <1>2, <1>4, <2>3, HollowWith
<1>6. CASE n > 0
  <2>1. old = v
    BY <1>3, <1>6
  <2>2. n * VECTOR_GROWTH_FACTOR = n * 2 /\ n * 2 \in Nat /\ ~(n * 2 < 2) /\ n <= n * 2
    BY <1>6, Constants
  <2>3. MAX(VECTOR_MINIMUM_CAPACITY, n * 2) = n * 2
    BY <2>2, Constants DEF MAX
  <2>4. r = IF ok THEN Moved(v, n * 2) ELSE [v EXCEPT !.live = FALSE]
    <3> HIDE DEF old
    <3>1. r = _vector_reallocate(v, n * 2, ok)
      BY <1>2, <1>6, <2>1, <2>2
    <3> QED BY <2>2, <2>3, <3>1, Constants DEF _vector_reallocate
  <2> HIDE DEF r
  <2>5. CASE ok = TRUE
    <3>1. IsVector(r) /\ r.capacity = n * 2 /\ r = Moved(v, n * 2)
      BY <2>2, <2>4, <2>5, HollowMoves
    <3>2. r.live = TRUE
      BY <3>1, MovedFields
    <3> DEFINE w == With(r, n, r.data)
    <3>3. vector_resize(v, n, ok) = w
      BY <1>1, <3>2
    <3>4. r.data \in [0 .. r.capacity - 1 -> Element \cup {Junk}]
      BY <3>1 DEF IsVector
    <3>5. IsVector(w) /\ w.size = n
      BY <2>2, <3>1, <3>4, WithVector
    <3> HIDE DEF w
    <3>6. Len(Contents(w)) = n
      BY <3>5, ContentsSeq
    <3>7. Agrees(Cut(<<>>, n), Contents(w))
      BY <1>4, <3>6 DEF Agrees
    <3> QED BY <3>3, <3>5, <3>7 DEF Stands
  <2>6. CASE ok = FALSE
    <3>1. r.live = FALSE
      BY <2>4, <2>6 DEF IsHollow
    <3> QED BY <1>1, <3>1 DEF Stands
  <2> QED BY <2>5, <2>6
<1> QED BY <1>5, <1>6

LEMMA ResizeStands ==
    ASSUME NEW v, NEW s \in Seq(Item), Stands(v, s), CanGrow(v),
           NEW n \in Nat, NEW ok \in BOOLEAN
    PROVE  Stands(vector_resize(v, n, ok), Cut(s, n))
<1> DEFINE g == vector_resize(v, n, TRUE)
           f == vector_resize(v, n, FALSE)
<1>1. CASE IsFull(v, s)
  <2>1. IsVector(v) /\ Agrees(s, Contents(v)) /\ Len(s) = v.size
    BY <1>1, FullHas
  <2>2. /\ IsVector(g) /\ g.size = n
        /\ \A i \in 1 .. n : i <= v.size => Contents(g)[i] = Contents(v)[i]
    BY <2>1, ResizeKeepsPrefix
  <2>3. Shows(f, g)
    BY <2>1, ResizeShows
  <2> HIDE DEF f, g
  <2>4. Agrees(Cut(s, n), Contents(g))
    BY <2>1, <2>2, CutAgrees
  <2>5. Stands(f, Cut(s, n)) /\ Stands(g, Cut(s, n))
    BY <2>2, <2>3, <2>4, FullStands DEF IsFull
  <2> QED BY <2>5 DEF f, g
<1>2. CASE IsEmptied(v, s)
  BY <1>2, EmptiedResizes DEF IsEmptied
<1> QED BY <1>1, <1>2, GrowCases

LEMMA HollowCopy ==
    ASSUME NEW v, v.size = 0
    PROVE  IsHollow(vector_copy(v, TRUE)) /\ vector_copy(v, TRUE).size = 0
<1> DEFINE d == [i \in 0 .. v.size * 2 - 1 |-> IF i < v.size THEN v.data[i] ELSE Junk]
           c == vector_copy(v, TRUE)
<1>1. v.size * 2 = 0 /\ 0 .. v.size * 2 - 1 = {}
  OBVIOUS
<1>2. d \in [{} -> Cell]
  BY <1>1
<1> DEFINE m == Moved(v, v.size * 2)
<1> HIDE DEF d, m
<1>3. c = [size |-> v.size, capacity |-> v.size * 2, live |-> TRUE, data |-> d]
  <2>1. m = [size |-> v.size, capacity |-> v.size * 2, live |-> TRUE, data |-> d]
    BY DEF Moved, d, m
  <2>2. c = [m EXCEPT !.live = TRUE]
    BY DEF vector_copy, m
  <2> HIDE DEF c
  <2> QED BY <2>1, <2>2
<1> HIDE DEF c
<1>4. IsHollow(c) /\ c.size = 0
  BY <1>1, <1>2, <1>3 DEF IsHollow
<1> QED BY <1>4 DEF c

LEMMA CopyStands ==
    ASSUME NEW v, NEW s \in Seq(Item), Stands(v, s), CanGrow(v), NEW ok \in BOOLEAN
    PROVE  Stands(vector_copy(v, ok), s)
<1> DEFINE g == vector_copy(v, TRUE)
           f == vector_copy(v, FALSE)
<1>1. Stands(g, s)
  <2>1. CASE IsFull(v, s)
    <3>1. /\ IsVector(v) /\ v.size \in Nat /\ Len(s) = v.size
          /\ Agrees(s, Contents(v))
      BY <2>1, FullHas
    <3>2. CASE v.size > 0
      <4>1. IsVector(g) /\ Contents(g) = Contents(v)
        BY <3>1, <3>2, CopyHasElements
      <4> HIDE DEF g
      <4> QED BY <3>1, <4>1 DEF Stands
    <3>3. CASE v.size = 0
      BY <3>1, <3>3, HollowCopy DEF Stands
    <3>4. v.size > 0 \/ v.size = 0
      BY <3>1
    <3> QED BY <3>2, <3>3, <3>4
  <2>2. CASE IsEmptied(v, s)
    <3>1. v.size = 0 /\ Len(s) = 0
      BY <2>2 DEF IsEmptied
    <3> QED BY <3>1, HollowCopy DEF Stands
  <2> QED BY <2>1, <2>2, GrowCases
<1>2. Shows(f, g)
  BY CopyShows
<1> HIDE DEF f, g
<1>3. Stands(f, s)
  BY <1>1, <1>2, ShowsStands
<1> QED BY <1>1, <1>3 DEF f, g

\* A vector that loses its memory.
LEMMA LostStands ==
    ASSUME NEW v, NEW s, Stands(v, s), v.live, NEW t
    PROVE  Stands(vector_destroy(v), t) /\ Stands(vector_moved_from(v), t)
<1>1. CASE IsVector(v)
  BY <1>1 DEF IsVector, Stands, vector_destroy, vector_moved_from
<1>2. CASE IsHollow(v)
  BY <1>2 DEF IsHollow, Stands, vector_destroy, vector_moved_from
<1> QED BY <1>1, <1>2 DEF Stands

-----------------------------------------------------------------------------
(***************************************************************************)
(* The steps of the vectors.  Each gives a vector the value and the        *)
(* sequence of one operation.                                              *)
(***************************************************************************)
LEMMA SetKeeps ==
    ASSUME VectorInv, NEW i \in Vec, NEW v, NEW s \in Seq(Item), Stands(v, s), Set(i, v, s)
    PROVE  VectorInv'
<1>1. /\ DOMAIN vec = Vec /\ seq \in [Vec -> Seq(Item)]
      /\ \A j \in Vec : Stands(vec[j], seq[j])
  BY DEF VectorInv, Item
<1>2. vec' = [vec EXCEPT ![i] = v] /\ seq' = [seq EXCEPT ![i] = s]
  BY DEF Set
<1>3. DOMAIN vec' = Vec /\ seq' \in [Vec -> Seq(Item)]
  BY <1>1, <1>2
<1>4. ASSUME NEW j \in Vec PROVE Stands(vec'[j], seq'[j])
  <2>1. CASE j = i
    <3>1. vec'[j] = v /\ seq'[j] = s
      BY <1>1, <1>2, <2>1
    <3> QED BY <3>1
  <2>2. CASE j # i
    <3>1. vec'[j] = vec[j] /\ seq'[j] = seq[j]
      BY <1>1, <1>2, <2>2
    <3> QED BY <1>1, <3>1
  <2> QED BY <2>1, <2>2
<1> QED BY <1>3, <1>4 DEF VectorInv, Item

LEMMA VectorHas ==
    ASSUME VectorInv, NEW i \in Vec
    PROVE  seq[i] \in Seq(Item) /\ Stands(vec[i], seq[i])
BY DEF VectorInv, Item

LEMMA UsableGrows ==
    ASSUME NEW i, Usable(i)
    PROVE  CanGrow(vec[i])
BY DEF Usable, CanGrow

LEMMA Outcomes == \A ok \in Alloc : ok \in BOOLEAN
BY AllocAssumption

LEMMA SetupKeeps ==
    ASSUME VectorInv, NEW i \in Vec, Setup(i)
    PROVE  VectorInv'
<1>1. PICK c \in 0 .. MaxCapacity, ok \in Alloc : Set(i, vector_setup(c, ok), <<>>)
  BY DEF Setup
<1>2. c \in Nat /\ ok \in BOOLEAN /\ <<>> \in Seq(Item)
  BY BoundsAssumption, Outcomes
<1>3. Stands(vector_setup(c, ok), <<>>)
  BY <1>2, SetupStands
<1> QED BY <1>1, <1>2, <1>3, SetKeeps

LEMMA PushKeeps ==
    ASSUME VectorInv, NEW i \in Vec, Push(i)
    PROVE  VectorInv'
<1>1. PICK e \in Element, ok \in Alloc :
        /\ Usable(i)
        /\ Set(i, vector_push_back(vec[i], e, ok), Append(seq[i], e))
  BY DEF Push
<1>2. seq[i] \in Seq(Item) /\ Stands(vec[i], seq[i]) /\ CanGrow(vec[i]) /\ ok \in BOOLEAN
  BY <1>1, VectorHas, UsableGrows, Outcomes
<1>3. Append(seq[i], e) \in Seq(Item)
  <2>1. e \in Item
    BY DEF Item
  <2> QED BY <1>2, <2>1, AppendProperties
<1>4. Stands(vector_push_back(vec[i], e, ok), Append(seq[i], e))
  BY <1>2, PushStands
<1> QED BY <1>1, <1>3, <1>4, SetKeeps

LEMMA AssignedSeq ==
    ASSUME NEW s \in Seq(Item), NEW i \in 1 .. Len(s), NEW e \in Item
    PROVE  [s EXCEPT ![i] = e] \in Seq(Item)
<1>1. Len(s) \in Nat /\ s \in [1 .. Len(s) -> Item]
  BY LenProperties
<1>2. [s EXCEPT ![i] = e] \in [1 .. Len(s) -> Item]
  BY <1>1
<1> QED BY <1>1, <1>2

LEMMA FrontSeq ==
    ASSUME NEW s \in Seq(Item)
    PROVE  Front(s) \in Seq(Item)
<1>1. Len(s) \in Nat
  BY LenProperties
<1>2. \A p \in 1 .. Len(s) - 1 : s[p] \in Item
  BY <1>1, ElementOfSeq
<1>3. SubSeq(s, 1, Len(s) - 1) \in Seq(Item)
  BY <1>1, <1>2, SubSeqProperties
<1> QED BY <1>3, Zenon DEF Front

LEMMA RemoveAtSeq ==
    ASSUME NEW s \in Seq(Item), NEW n \in 0 .. Len(s) - 1
    PROVE  RemoveAt(s, n + 1) \in Seq(Item)
<1> DEFINE a == SubSeq(s, 1, n)
           b == SubSeq(s, n + 2, Len(s))
<1>1. n \in Nat /\ Len(s) \in Nat /\ n < Len(s)
  BY LenProperties
<1>2. \A p \in 1 .. n : s[p] \in Item
  BY <1>1, ElementOfSeq
<1>3. \A p \in n + 2 .. Len(s) : s[p] \in Item
  BY <1>1, ElementOfSeq
<1>4. a \in Seq(Item) /\ b \in Seq(Item)
  BY <1>1, <1>2, <1>3, SubSeqProperties
<1>5. RemoveAt(s, n + 1) = a \o b
  BY <1>1, RemoveAtIs
<1> HIDE DEF a, b
<1>6. a \o b \in Seq(Item)
  BY <1>4, ConcatProperties
<1> QED BY <1>5, <1>6

LEMMA SizeInSequence ==
    ASSUME NEW v, NEW s \in Seq(Item), Stands(v, s), CanGrow(v)
    PROVE  v.size \in Nat /\ Len(s) = v.size
<1>1. CASE IsFull(v, s)
  BY <1>1, FullHas
<1>2. CASE IsEmptied(v, s)
  BY <1>2 DEF IsEmptied
<1> QED BY <1>1, <1>2, GrowCases

LEMMA InsertAtSeq ==
    ASSUME NEW s \in Seq(Item), NEW n \in 0 .. Len(s), NEW e \in Element
    PROVE  InsertAt(s, n + 1, e) \in Seq(Item)
<1> DEFINE a == Append(SubSeq(s, 1, n), e)
           b == SubSeq(s, n + 1, Len(s))
<1>1. n \in Nat /\ Len(s) \in Nat /\ e \in Item
  BY LenProperties DEF Item
<1>2. \A p \in 1 .. n : s[p] \in Item
  BY <1>1, ElementOfSeq
<1>3. SubSeq(s, 1, n) \in Seq(Item)
  BY <1>1, <1>2, SubSeqProperties
<1>4. \A p \in n + 1 .. Len(s) : s[p] \in Item
  BY <1>1, ElementOfSeq
<1>5. b \in Seq(Item)
  BY <1>1, <1>4, SubSeqProperties
<1>6. a \in Seq(Item)
  BY <1>1, <1>3, AppendProperties
<1>7. InsertAt(s, n + 1, e) = a \o b
  BY InsertAtIs
<1> HIDE DEF a, b
<1>8. a \o b \in Seq(Item)
  BY <1>5, <1>6, ConcatProperties
<1> QED BY <1>7, <1>8

LEMMA InsertKeeps ==
    ASSUME VectorInv, NEW i \in Vec, Insert(i)
    PROVE  VectorInv'
<1>1. PICK e \in Element, ok \in Alloc, n \in 0 .. vec[i].size :
        /\ Usable(i)
        /\ Set(i, IF n = 0 THEN vector_push_front(vec[i], e, ok) ELSE vector_insert(vec[i], n, e, ok),
               InsertAt(seq[i], n + 1, e))
  BY DEF Insert
<1>2. Set(i, vector_insert(vec[i], n, e, ok), InsertAt(seq[i], n + 1, e))
  BY <1>1 DEF vector_push_front
<1>3. seq[i] \in Seq(Item) /\ Stands(vec[i], seq[i]) /\ CanGrow(vec[i]) /\ ok \in BOOLEAN
  BY <1>1, VectorHas, UsableGrows, Outcomes
<1>4. n \in 0 .. Len(seq[i])
  BY <1>3, SizeInSequence
<1>5. InsertAt(seq[i], n + 1, e) \in Seq(Item)
  BY <1>3, <1>4, InsertAtSeq
<1>6. Stands(vector_insert(vec[i], n, e, ok), InsertAt(seq[i], n + 1, e))
  BY <1>3, InsertStands
<1> QED BY <1>2, <1>5, <1>6, SetKeeps

LEMMA AssignKeeps ==
    ASSUME VectorInv, NEW i \in Vec, Assign(i)
    PROVE  VectorInv'
<1>1. PICK e \in Element, n \in 0 .. vec[i].size - 1 :
        /\ Usable(i)
        /\ Set(i, vector_assign(vec[i], n, e), [seq[i] EXCEPT ![n + 1] = e])
  BY DEF Assign
<1>2. seq[i] \in Seq(Item) /\ Stands(vec[i], seq[i]) /\ CanGrow(vec[i])
  BY <1>1, VectorHas, UsableGrows
<1>3. n + 1 \in 1 .. Len(seq[i]) /\ e \in Item
  BY <1>2, SizeInSequence DEF Item
<1>4. [seq[i] EXCEPT ![n + 1] = e] \in Seq(Item)
  BY <1>2, <1>3, AssignedSeq
<1>5. Stands(vector_assign(vec[i], n, e), [seq[i] EXCEPT ![n + 1] = e])
  BY <1>2, AssignStands
<1> QED BY <1>1, <1>4, <1>5, SetKeeps

LEMMA PopBackKeeps ==
    ASSUME VectorInv, NEW i \in Vec, PopBack(i)
    PROVE  VectorInv'
<1>1. PICK ok \in Alloc :
        /\ Usable(i) /\ vec[i].size > 0
        /\ Set(i, vector_pop_back(vec[i], ok), Front(seq[i]))
  BY DEF PopBack
<1>2. seq[i] \in Seq(Item) /\ Stands(vec[i], seq[i]) /\ CanGrow(vec[i]) /\ ok \in BOOLEAN
  BY <1>1, VectorHas, UsableGrows, Outcomes
<1>3. Front(seq[i]) \in Seq(Item)
  BY <1>2, FrontSeq
<1>4. Stands(vector_pop_back(vec[i], ok), Front(seq[i]))
  BY <1>1, <1>2, PopStands
<1> QED BY <1>1, <1>3, <1>4, SetKeeps

LEMMA EraseKeeps ==
    ASSUME VectorInv, NEW i \in Vec, Erase(i)
    PROVE  VectorInv'
<1>1. PICK ok \in Alloc, n \in 0 .. vec[i].size - 1 :
        /\ Usable(i)
        /\ Set(i, IF n = 0 THEN vector_pop_front(vec[i], ok) ELSE vector_erase(vec[i], n, ok),
               RemoveAt(seq[i], n + 1))
  BY DEF Erase
<1>2. Set(i, vector_erase(vec[i], n, ok), RemoveAt(seq[i], n + 1))
  BY <1>1 DEF vector_pop_front
<1>3. seq[i] \in Seq(Item) /\ Stands(vec[i], seq[i]) /\ CanGrow(vec[i]) /\ ok \in BOOLEAN
  BY <1>1, VectorHas, UsableGrows, Outcomes
<1>4. n \in 0 .. Len(seq[i]) - 1
  BY <1>3, SizeInSequence
<1>5. RemoveAt(seq[i], n + 1) \in Seq(Item)
  BY <1>3, <1>4, RemoveAtSeq
<1>6. Stands(vector_erase(vec[i], n, ok), RemoveAt(seq[i], n + 1))
  BY <1>3, EraseStands
<1> QED BY <1>2, <1>5, <1>6, SetKeeps

LEMMA ResizeKeeps ==
    ASSUME VectorInv, NEW i \in Vec, Resize(i)
    PROVE  VectorInv'
<1>1. PICK ok \in Alloc, n \in 0 .. Limit :
        /\ Usable(i)
        /\ Set(i, IF n = 0 THEN vector_clear(vec[i], ok) ELSE vector_resize(vec[i], n, ok),
               [p \in 1 .. n |-> IF p <= Len(seq[i]) THEN seq[i][p] ELSE Unset])
  BY DEF Resize
<1>2. Set(i, vector_resize(vec[i], n, ok), Cut(seq[i], n))
  BY <1>1 DEF vector_clear, Cut
<1>3. seq[i] \in Seq(Item) /\ Stands(vec[i], seq[i]) /\ CanGrow(vec[i]) /\ ok \in BOOLEAN
  BY <1>1, VectorHas, UsableGrows, Outcomes
<1>4. n \in Nat
  BY BoundsAssumption DEF Limit
<1>5. Cut(seq[i], n) \in Seq(Item)
  BY <1>3, <1>4, CutHas
<1>6. Stands(vector_resize(vec[i], n, ok), Cut(seq[i], n))
  BY <1>3, <1>4, ResizeStands
<1> QED BY <1>2, <1>5, <1>6, SetKeeps

LEMMA ReserveKeeps ==
    ASSUME VectorInv, NEW i \in Vec, Reserve(i)
    PROVE  VectorInv'
<1>1. PICK ok \in Alloc :
        /\ Usable(i)
        /\ \/ \E c \in 0 .. MaxCapacity : Set(i, vector_reserve(vec[i], c, ok), seq[i])
           \/ Set(i, vector_shrink_to_fit(vec[i], ok), seq[i])
  BY DEF Reserve
<1>2. seq[i] \in Seq(Item) /\ Stands(vec[i], seq[i]) /\ CanGrow(vec[i]) /\ ok \in BOOLEAN
  BY <1>1, VectorHas, UsableGrows, Outcomes
<1>3. CASE \E c \in 0 .. MaxCapacity : Set(i, vector_reserve(vec[i], c, ok), seq[i])
  <2>1. PICK c \in 0 .. MaxCapacity : Set(i, vector_reserve(vec[i], c, ok), seq[i])
    BY <1>3
  <2>2. c \in Nat
    BY BoundsAssumption
  <2>3. Stands(vector_reserve(vec[i], c, ok), seq[i])
    BY <1>2, <2>2, ReserveStands
  <2> QED BY <1>2, <2>1, <2>3, SetKeeps
<1>4. CASE Set(i, vector_shrink_to_fit(vec[i], ok), seq[i])
  <2>1. Stands(vector_shrink_to_fit(vec[i], ok), seq[i])
    BY <1>2, ShrinkToFitStands
  <2> QED BY <1>2, <1>4, <2>1, SetKeeps
<1> QED BY <1>1, <1>3, <1>4

LEMMA DestroyKeeps ==
    ASSUME VectorInv, NEW i \in Vec, Destroy(i)
    PROVE  VectorInv'
<1>1. vec[i].live /\ Set(i, vector_destroy(vec[i]), <<>>)
  BY DEF Destroy
<1>2. Stands(vector_destroy(vec[i]), <<>>) /\ <<>> \in Seq(Item)
  BY <1>1, VectorHas, LostStands
<1> QED BY <1>1, <1>2, SetKeeps

LEMMA CopyKeeps ==
    ASSUME VectorInv, NEW d \in Vec, NEW s \in Vec, Copy(d, s)
    PROVE  VectorInv'
<1>1. PICK ok \in Alloc : Usable(s) /\ Set(d, vector_copy(vec[s], ok), seq[s])
  BY DEF Copy
<1>2. seq[s] \in Seq(Item) /\ Stands(vec[s], seq[s]) /\ CanGrow(vec[s]) /\ ok \in BOOLEAN
  BY <1>1, VectorHas, UsableGrows, Outcomes
<1>3. Stands(vector_copy(vec[s], ok), seq[s])
  BY <1>2, CopyStands
<1> QED BY <1>1, <1>2, <1>3, SetKeeps

\* Two vectors at once.
LEMMA BothKeep ==
    ASSUME VectorInv, NEW d \in Vec, NEW s \in Vec, d # s,
           NEW v, NEW x \in Seq(Item), Stands(v, x),
           NEW w, NEW y \in Seq(Item), Stands(w, y),
           vec' = [vec EXCEPT ![d] = v, ![s] = w],
           seq' = [seq EXCEPT ![d] = x, ![s] = y]
    PROVE  VectorInv'
<1>1. DOMAIN vec = Vec /\ seq \in [Vec -> Seq(Item)]
  BY DEF VectorInv, Item
<1>2. DOMAIN vec' = Vec /\ seq' \in [Vec -> Seq(Item)]
  BY <1>1
<1>3. vec'[d] = v /\ vec'[s] = w /\ seq'[d] = x /\ seq'[s] = y
  BY <1>1
<1>4. \A j \in Vec : j = d \/ j = s
  BY DEF Vec
<1>5. \A j \in Vec : Stands(vec'[j], seq'[j])
  BY <1>3, <1>4
<1> QED BY <1>2, <1>5 DEF VectorInv, Item

LEMMA MoveKeeps ==
    ASSUME VectorInv, NEW d \in Vec, NEW s \in Vec, Move(d, s)
    PROVE  VectorInv'
<1>1. /\ d # s /\ Usable(s)
      /\ vec' = [vec EXCEPT ![d] = vec[s], ![s] = vector_moved_from(vec[s])]
      /\ seq' = [seq EXCEPT ![d] = seq[s], ![s] = <<>>]
  BY DEF Move
<1>2. seq[s] \in Seq(Item) /\ Stands(vec[s], seq[s]) /\ vec[s].live
  BY <1>1, VectorHas DEF Usable
<1>3. Stands(vector_moved_from(vec[s]), <<>>) /\ <<>> \in Seq(Item)
  BY <1>2, LostStands
<1> QED BY <1>1, <1>2, <1>3, BothKeep

LEMMA SwapKeeps ==
    ASSUME VectorInv, Swap
    PROVE  VectorInv'
<1>1. /\ vec' = [vec EXCEPT ![1] = vec[2], ![2] = vec[1]]
      /\ seq' = [seq EXCEPT ![1] = seq[2], ![2] = seq[1]]
  BY DEF Swap
<1>2. 1 \in Vec /\ 2 \in Vec /\ 1 # 2
  BY DEF Vec
<1>3. /\ seq[1] \in Seq(Item) /\ Stands(vec[1], seq[1])
      /\ seq[2] \in Seq(Item) /\ Stands(vec[2], seq[2])
  BY <1>2, VectorHas
<1> QED BY <1>1, <1>2, <1>3, BothKeep

LEMMA VectorStepKeeps ==
    ASSUME VectorInv, VectorStep
    PROVE  VectorInv'
<1>1. \A i \in Vectors : i \in Vec
  BY DEF Vectors, Vec
<1>2. ASSUME NEW i \in Vectors,
             \/ Setup(i) \/ Push(i) \/ Insert(i) \/ Assign(i) \/ PopBack(i) \/ Erase(i)
             \/ Resize(i) \/ Reserve(i) \/ Destroy(i)
      PROVE  VectorInv'
  BY <1>1, <1>2, SetupKeeps, PushKeeps, InsertKeeps, AssignKeeps, PopBackKeeps,
     EraseKeeps,
     ResizeKeeps, ReserveKeeps, DestroyKeeps
<1>3. ASSUME NEW d \in Vectors, NEW s \in Vectors, Copy(d, s) \/ Move(d, s)
      PROVE  VectorInv'
  BY <1>1, <1>3, CopyKeeps, MoveKeeps
<1> QED BY <1>2, <1>3, SwapKeeps DEF VectorStep

-----------------------------------------------------------------------------
(***************************************************************************)
(* The steps of the table and of the set.                                  *)
(***************************************************************************)
LEMMA HashHas == _ht_hash \in [Key -> Nat] /\ _ss_hash \in [String -> Nat]
<1>1. \A k \in Key : (69 * k + 99) % 123 \in Nat
  BY KeyAssumption
<1> QED BY <1>1, HashAssumption DEF _ht_hash, _ss_hash

LEMMA TableInvHas ==
    ASSUME TableInv
    PROVE  /\ DOMAIN dict \subseteq Key /\ IsFiniteSet(DOMAIN dict)
           /\ table.size = Cardinality(DOMAIN dict)
           /\ Stores(_ht_hash, table, Pairs(dict))
BY DEF TableInv

LEMMA PutKeeps ==
    ASSUME TableInv, NEW k \in Key, NEW v \in Value, Put(k, v)
    PROVE  TableInv'
<1>1. /\ table' = ht_insert(_ht_hash, table, k, v)
      /\ dict' = Paired(dict, k, v)
  BY DEF Put, Paired
<1>2. _ht_hash \in [Key -> Nat]
  BY HashHas
<1>3. /\ IsTable(_ht_hash, table', Pairs(dict'))
      /\ IsFiniteSet(DOMAIN dict') /\ table'.size = Cardinality(DOMAIN dict')
  BY <1>1, <1>2, TableInvHas, InsertPuts
<1>4. dict' \in [DOMAIN dict' -> Value] /\ DOMAIN dict' \subseteq Key
  BY <1>1 DEF TableInv, Paired
<1> QED BY <1>3, <1>4 DEF TableInv, Stores

LEMMA DeleteKeeps ==
    ASSUME TableInv, NEW k \in Key, Delete(k)
    PROVE  TableInv'
<1> DEFINE m == [x \in DOMAIN dict \ {k} |-> dict[x]]
<1>1. table' = ht_remove(_ht_hash, table, k) /\ dict' = m
  BY DEF Delete
<1>2. Stores(_ht_hash, table', Pairs(m)) /\ IsFiniteSet(DOMAIN m) /\ table'.size = Cardinality(DOMAIN m)
  BY <1>1, HashHas, TableInvHas, RemoveDeletes
<1>3. m \in [DOMAIN m -> Value] /\ DOMAIN m \subseteq Key
  BY DEF TableInv
<1> HIDE DEF m
<1> QED BY <1>1, <1>2, <1>3 DEF TableInv

LEMMA NoMapHas ==
    /\ DOMAIN NoMap = {} /\ NoMap \in [DOMAIN NoMap -> Value] /\ Pairs(NoMap) = {}
    /\ IsFiniteSet(DOMAIN NoMap) /\ Cardinality(DOMAIN NoMap) = 0
<1>1. DOMAIN NoMap = {} /\ NoMap \in [DOMAIN NoMap -> Value]
  BY DEF NoMap
<1>2. Pairs(NoMap) = {}
  BY <1>1 DEF Pairs
<1> QED BY <1>1, <1>2, FS_EmptySet

LEMMA ClearTableKeeps ==
    ASSUME TableInv, ClearTable
    PROVE  TableInv'
<1>1. table' = ht_clear(table) /\ dict' = NoMap
  BY DEF ClearTable
<1>2. Stores(_ht_hash, table', {}) /\ table'.size = 0
  BY <1>1, TableInvHas, ClearEmpties
<1> QED BY <1>1, <1>2, NoMapHas DEF TableInv

LEMMA TableStepKeeps ==
    ASSUME TableInv, TableStep
    PROVE  TableInv'
BY PutKeeps, DeleteKeeps, ClearTableKeeps DEF TableStep

LEMMA SetInvHas ==
    ASSUME SetInv
    PROVE  /\ names \in SUBSET String /\ IsFiniteSet(names)
           /\ set.size = Cardinality(names) /\ Stores(_ss_hash, set, StringNodes(names))
BY DEF SetInv

LEMMA AddStringKeeps ==
    ASSUME SetInv, NEW s \in String, AddString(s)
    PROVE  SetInv'
<1>1. set' = ss_insert(_ss_hash, set, s) /\ names' = names \cup {s}
  BY DEF AddString
<1>2. /\ IsTable(_ss_hash, set', StringNodes(names'))
      /\ IsFiniteSet(names') /\ set'.size = Cardinality(names')
  BY <1>1, HashHas, SetInvHas, InsertAddsString
<1>3. names' \subseteq String
  BY <1>1, SetInvHas
<1> QED BY <1>2, <1>3 DEF SetInv, Stores

LEMMA ClearStringsKeeps ==
    ASSUME SetInv, ClearStrings
    PROVE  SetInv'
<1>1. set' = ss_clear(set) /\ names' = {}
  BY DEF ClearStrings
<1>2. ss_clear(set) = ht_clear(set)
  BY DEF ss_clear, ht_clear, _ss_allocate
<1>3. Stores(_ss_hash, set', {}) /\ set'.size = 0
  BY <1>1, <1>2, SetInvHas, ClearEmpties
<1>4. StringNodes({}) = {}
  BY DEF StringNodes
<1> QED BY <1>1, <1>3, <1>4, FS_EmptySet DEF SetInv

LEMMA SetStepKeeps ==
    ASSUME SetInv, SetStep
    PROVE  SetInv'
<1>1. ASSUME NEW s \in String, RemoveString(s) PROVE SetInv'
  BY <1>1 DEF RemoveString, ss_remove, SetInv
<1> QED BY <1>1, AddStringKeeps, ClearStringsKeeps DEF SetStep

-----------------------------------------------------------------------------
(***************************************************************************)
(* The steps of the free list.                                             *)
(***************************************************************************)
LEMMA ListHas ==
    ASSUME ListInv
    PROVE  /\ keys \in Seq(Element) /\ IsVector(list) /\ Contents(list) = keys
           /\ list.size \in Nat /\ Len(keys) = list.size
BY ContentsSeq DEF ListInv

LEMMA FreeListPushKeeps ==
    ASSUME ListInv, NEW key \in Element, free_list_push(key)
    PROVE  ListInv'
<1>1. list' = vector_push_back(list, key, TRUE) /\ keys' = Append(keys, key) /\ popped' = <<Junk, Junk, 0>>
  BY DEF free_list_push
<1>2. IsVector(list') /\ Contents(list') = keys'
  BY <1>1, ListHas, PushBackAppends
<1>3. keys' \in Seq(Element)
  BY <1>1, ListHas, AppendProperties
<1>4. popped' \in Cell \X Cell \X Nat /\ popped'[1] = popped'[2]
  BY <1>1 DEF Cell
<1> QED BY <1>2, <1>3, <1>4 DEF ListInv

\* A pop gives memory back only when it takes the last element of a vector that
\* has more than the least room.
LEMMA PopKeepsRoom ==
    ASSUME NEW v, IsVector(v), v.size > 0,
           NEW p, p = vector_pop_back(v, TRUE), p.capacity # v.capacity
    PROVE  p.size = 0 /\ v.capacity > VECTOR_MINIMUM_CAPACITY
<1> DEFINE w == With(v, v.size - 1, v.data)
<1>1. /\ v.size \in Nat /\ v.capacity \in Nat /\ v.size <= v.capacity
      /\ v.data \in [0 .. v.capacity - 1 -> Element \cup {Junk}]
  BY DEF IsVector
<1>2. v.size - 1 \in Nat /\ v.size - 1 <= v.capacity
  BY <1>1
<1>3. IsVector(w) /\ w.size = v.size - 1 /\ w.capacity = v.capacity
  BY <1>1, <1>2, WithVector
<1>4. p = IF _vector_should_shrink(w) THEN _vector_adjust_capacity(w, TRUE) ELSE w
  BY DEF vector_pop_back
<1> HIDE DEF w
<1>5. _vector_should_shrink(w)
  BY <1>3, <1>4
<1>6. w.size = 0
  BY <1>1, <1>3, <1>5, Constants DEF _vector_should_shrink
<1>7. p.size = w.size
  BY <1>3, <1>4, <1>5, AdjustKeeps
<1>8. p = _vector_reallocate(w, 1, TRUE)
  <2>1. MAX(1, w.size * VECTOR_GROWTH_FACTOR) = 1
    BY <1>6, Constants DEF MAX
  <2>2. _vector_adjust_capacity(w, TRUE) = _vector_reallocate(w, 1, TRUE)
    BY <2>1, Zenon DEF _vector_adjust_capacity
  <2> QED BY <1>4, <1>5, <2>2
<1>9. ASSUME ~(v.capacity > VECTOR_MINIMUM_CAPACITY)
      PROVE  FALSE
  <2>1. 1 < VECTOR_MINIMUM_CAPACITY /\ w.capacity <= VECTOR_MINIMUM_CAPACITY
    BY <1>1, <1>3, <1>9, Constants
  <2>2. _vector_reallocate(w, 1, TRUE) = w
    BY <2>1, Zenon DEF _vector_reallocate
  <2> QED BY <1>3, <1>8, <2>2
<1> QED BY <1>6, <1>7, <1>9

LEMMA FreeListPopKeeps ==
    ASSUME ListInv, free_list_pop
    PROVE  ListInv'
<1>1. PICK key \in {vector_back(list)} \cup (IF list'.capacity # list.capacity THEN {Junk} ELSE {}) :
        popped' = <<key, Last(keys), list.capacity>>
  BY DEF free_list_pop
<1>2. list.size > 0 /\ list' = vector_pop_back(list, TRUE) /\ keys' = Front(keys)
  BY DEF free_list_pop
<1>3. IsVector(list') /\ Contents(list') = SubSeq(keys, 1, list.size - 1)
  BY <1>2, ListHas, PopBackDropsLast
<1>4. keys' = SubSeq(keys, 1, list.size - 1)
  BY <1>2, ListHas DEF Front
<1>5. keys' \in Seq(Element)
  <2>1. \A p \in 1 .. list.size - 1 : keys[p] \in Element
    BY ListHas, ElementOfSeq
  <2> QED BY <1>4, <2>1, ListHas, SubSeqProperties
<1>6. Last(keys) = keys[list.size] /\ keys[list.size] \in Element /\ list.capacity \in Nat
  BY <1>2, ListHas, ElementOfSeq DEF Last, IsVector
<1>7. vector_back(list) = keys[list.size]
  <2>1. list.size \in 1 .. list.size
    BY <1>2, ListHas
  <2>2. Contents(list)[list.size] = list.data[list.size - 1]
    BY <2>1, ListHas, ContentsSeq
  <2> QED BY <2>2, ListHas DEF vector_back, vector_get
<1>8. CASE key = vector_back(list)
  <2>1. popped' \in Cell \X Cell \X Nat /\ popped'[1] = popped'[2]
    BY <1>1, <1>6, <1>7, <1>8 DEF Cell
  <2> QED BY <1>3, <1>4, <1>5, <2>1 DEF ListInv
<1>9. CASE key = Junk /\ list'.capacity # list.capacity
  <2>1. list'.size = 0 /\ list.capacity > VECTOR_MINIMUM_CAPACITY
    BY <1>2, <1>9, ListHas, PopKeepsRoom
  <2>2. popped' \in Cell \X Cell \X Nat /\ popped'[1] = Junk /\ popped'[3] = list.capacity
    BY <1>1, <1>6, <1>9 DEF Cell
  <2> QED BY <1>3, <1>4, <1>5, <2>1, <2>2 DEF ListInv
<1> QED BY <1>1, <1>8, <1>9

-----------------------------------------------------------------------------
(***************************************************************************)
(* The invariant, and what it says of each container.                      *)
(***************************************************************************)
LEMMA InitInv ==
    ASSUME Init
    PROVE  IInv
<1>1. VectorInv
  <2>1. \A i \in Vec : Stands(VECTOR_INITIALIZER, <<>>)
    BY DEF Stands, VECTOR_INITIALIZER
  <2>2. <<>> \in Seq(Item)
    OBVIOUS
  <2> QED BY <2>1, <2>2 DEF Init, VectorInv, Item
<1>2. HT_INITIALIZER.size = 0
  BY DEF HT_INITIALIZER, Table
<1>3. TableInv
  BY <1>2, NoMapHas DEF Init, TableInv, Stores
<1>4. SetInv
  <2>1. StringNodes({}) = {}
    BY DEF StringNodes
  <2> QED BY <1>2, <2>1, FS_EmptySet DEF Init, SetInv, SS_INITIALIZER, Stores
<1>5. ListInv
  <2>1. IsVector(list) /\ Contents(list) = keys
    BY SetupEmpty DEF Init
  <2>2. popped \in Cell \X Cell \X Nat /\ popped[1] = popped[2]
    BY DEF Init, Cell
  <2>3. keys \in Seq(Element)
    BY DEF Init
  <2> QED BY <2>1, <2>2, <2>3 DEF ListInv
<1> QED BY <1>1, <1>3, <1>4, <1>5 DEF Init, IInv

LEMMA StepInv ==
    ASSUME IInv, [Next]_vars
    PROVE  IInv'
<1>1. ASSUME VectorStep PROVE IInv'
  <2>1. VectorInv'
    BY <1>1, VectorStepKeeps DEF IInv
  <2>2. UNCHANGED <<kind, table, dict, set, names, list, keys, popped>>
    BY <1>1 DEF VectorStep, OtherThanVectors
  <2> QED BY <2>1, <2>2 DEF IInv, TableInv, SetInv, ListInv
<1>2. ASSUME TableStep PROVE IInv'
  <2>1. TableInv'
    BY <1>2, TableStepKeeps DEF IInv
  <2>2. UNCHANGED <<kind, vec, seq, set, names, list, keys, popped>>
    BY <1>2 DEF TableStep
  <2> QED BY <2>1, <2>2 DEF IInv, VectorInv, SetInv, ListInv
<1>3. ASSUME SetStep PROVE IInv'
  <2>1. SetInv'
    BY <1>3, SetStepKeeps DEF IInv
  <2>2. UNCHANGED <<kind, vec, seq, table, dict, list, keys, popped>>
    BY <1>3 DEF SetStep
  <2> QED BY <2>1, <2>2 DEF IInv, VectorInv, TableInv, ListInv
<1>4. ASSUME ListStep PROVE IInv'
  <2>1. ListInv'
    BY <1>4, FreeListPushKeeps, FreeListPopKeeps DEF ListStep, IInv
  <2>2. UNCHANGED <<kind, vec, seq, table, dict, set, names>>
    BY <1>4 DEF ListStep
  <2> QED BY <2>1, <2>2 DEF IInv, VectorInv, TableInv, SetInv
<1>5. ASSUME UNCHANGED vars PROVE IInv'
  BY <1>5 DEF vars, IInv, VectorInv, TableInv, SetInv, ListInv
<1> QED BY <1>1, <1>2, <1>3, <1>4, <1>5 DEF Next

\* Every container stands for what was put into it, through every sequence of
\* legal calls and failed allocations: the inductive invariant.
THEOREM ContainersInvariant == Spec => []IInv
BY InitInv, StepInv, PTL DEF Spec

LEMMA StandsHas ==
    ASSUME NEW v, NEW s, Stands(v, s), v.live
    PROVE  /\ DOMAIN v.data = 0 .. v.capacity - 1
           /\ v.size <= v.capacity \/ v.capacity = 0
           /\ v.capacity > 0 => IsVector(v) /\ Agrees(s, Contents(v))
<1>1. CASE IsVector(v) /\ Agrees(s, Contents(v))
  BY <1>1 DEF IsVector
<1>2. CASE IsHollow(v)
  <2>1. v.capacity = 0 /\ v.data \in [{} -> Cell]
    BY <1>2, HollowHas
  <2> QED BY <2>1
<1> QED BY <1>1, <1>2 DEF Stands

LEMMA StoresHas ==
    ASSUME NEW hash, NEW nodes, NEW t, Stores(hash, t, nodes)
    PROVE  /\ t.live => DOMAIN t.nodes = 0 .. t.capacity - 1 /\ t.capacity >= MinCapacity
           /\ t.size <= t.threshold
<1>1. CASE t = HT_INITIALIZER
  BY <1>1 DEF HT_INITIALIZER, Table
<1>2. CASE IsTable(hash, t, nodes)
  <2>1. t.nodes = Spread(hash, nodes, t.capacity)
    BY <1>2, TableLives
  <2>2. t.capacity \in Nat /\ MinCapacity <= t.capacity /\ t.size <= t.threshold
    BY <1>2, TableHas
  <2>3. t.capacity >= MinCapacity
    BY <2>2, MinCapacityAssumption
  <2> QED BY <2>1, <2>2, <2>3 DEF Spread
<1> QED BY <1>1, <1>2 DEF Stores

LEMMA ShapeFollows == IInv => TypeOK /\ VectorFits /\ LoadIsBounded
<1> SUFFICES ASSUME IInv PROVE TypeOK /\ VectorFits /\ LoadIsBounded
  OBVIOUS
<1>1. \A i \in Vec : Stands(vec[i], seq[i])
  BY DEF IInv, VectorInv
<1>2. Stores(_ht_hash, table, Pairs(dict)) /\ Stores(_ss_hash, set, StringNodes(names))
  BY DEF IInv, TableInv, SetInv
<1>3. VectorFits
  BY <1>1, StandsHas DEF VectorFits
<1>4. LoadIsBounded
  BY <1>2, StoresHas DEF LoadIsBounded
<1>5. TypeOK
  <2>1. \A i \in Vec : vec[i].live => DOMAIN vec[i].data = 0 .. vec[i].capacity - 1
    BY <1>1, StandsHas
  <2>2. \A t \in {table, set} :
          t.live => DOMAIN t.nodes = 0 .. t.capacity - 1 /\ t.capacity >= MinCapacity
    BY <1>2, StoresHas
  <2> QED BY <2>1, <2>2 DEF TypeOK, IInv, ListInv, Cell
<1> QED BY <1>3, <1>4, <1>5

LEMMA SequenceFollows == IInv => VectorIsSequence
<1> SUFFICES ASSUME IInv, NEW i \in Vec, vec[i].live, vec[i].capacity > 0
             PROVE  /\ vec[i].size = Len(seq[i])
                    /\ \A p \in DOMAIN seq[i] : seq[i][p] \in {Unset, Contents(vec[i])[p]}
  BY DEF VectorIsSequence
<1>1. seq[i] \in Seq(Item) /\ Stands(vec[i], seq[i])
  BY VectorHas DEF IInv
<1>2. IsVector(vec[i]) /\ Agrees(seq[i], Contents(vec[i]))
  BY <1>1, StandsHas
<1>3. Len(Contents(vec[i])) = vec[i].size
  BY <1>2, ContentsSeq
<1>4. DOMAIN seq[i] = 1 .. Len(seq[i])
  BY <1>1
<1> QED BY <1>2, <1>3, <1>4 DEF Agrees

LEMMA MapFollows == IInv => TableIsMap
<1> SUFFICES ASSUME TableInv PROVE TableIsMap
  BY DEF IInv
<1>1. /\ DOMAIN dict \subseteq Key /\ IsFiniteSet(DOMAIN dict)
      /\ table.size = Cardinality(DOMAIN dict)
      /\ Stores(_ht_hash, table, Pairs(dict))
      /\ _ht_hash \in [Key -> Nat]
  BY TableInvHas, HashHas
<1>2. table.live => Cardinality(Nodes(table)) = Cardinality(DOMAIN dict)
  BY <1>1, CountsItsKeys
<1>3. \A k \in Key : ht_contains(_ht_hash, table, k) <=> k \in DOMAIN dict
  BY <1>1, FindsItsKeys
<1>4. \A k \in Key : k \in DOMAIN dict => ht_get(_ht_hash, table, k) = dict[k]
  BY <1>1, GetsTheirValues
<1>5. table.live => table.size = Cardinality(DOMAIN dict) /\ Cardinality(Nodes(table)) = table.size
  BY <1>1, <1>2
<1> QED BY <1>3, <1>4, <1>5 DEF TableIsMap

LEMMA SetFollows == IInv => SetKeepsStrings
<1> SUFFICES ASSUME SetInv PROVE SetKeepsStrings
  BY DEF IInv
<1>1. /\ \A k \in String : ss_contains(_ss_hash, set, k) <=> k \in names
      /\ set.live => Strings(set) = names
  BY SetInvHas, HashHas, StoredIsSet
<1> QED BY <1>1, SetInvHas DEF SetKeepsStrings

\* The shape holds: no vector with room is fuller than its allocation, no table
\* fuller than its load factor allows.
THEOREM ContainersKeepShape == Spec => [](TypeOK /\ VectorFits /\ LoadIsBounded)
BY ContainersInvariant, ShapeFollows, PTL

\* A vector with memory holds the sequence the calls made, through growth,
\* shifts, copies, moves, swaps and failed allocations.
THEOREM VectorsAreSequences == Spec => []VectorIsSequence
BY ContainersInvariant, SequenceFollows, PTL

\* The hash table answers as the map it stands for, through every resize.
THEOREM TablesAreMaps == Spec => []TableIsMap
BY ContainersInvariant, MapFollows, PTL

\* The string set has exactly the strings put into it: removal removes none.
THEOREM SetsKeepStrings == Spec => []SetKeepsStrings
BY ContainersInvariant, SetFollows, PTL

\* The free list gives out the key freed last, or, when taking the key emptied a
\* list that had grown past the least capacity, perhaps what is in memory given back.
THEOREM ListPopsLastFreed == Spec => []PopsLastFreed
<1>1. IInv => PopsLastFreed
  BY DEF IInv, ListInv, PopsLastFreed
<1> QED BY <1>1, ContainersInvariant, PTL

=============================================================================
