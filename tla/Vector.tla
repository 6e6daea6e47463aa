------------------------------- MODULE Vector -------------------------------
(***************************************************************************)
(* The growable array of vector.h: what each of its functions does to the  *)
(* structure.  The free list of session keys, the partition of a poll and  *)
(* the interest list of an epoll instance are kept in one.                 *)
(*                                                                         *)
(* A vector is a record.  "data" is the allocation, a function on the      *)
(* offsets 0 .. capacity - 1; "live" is the test data # NULL.  An          *)
(* operation that may allocate takes "ok", the outcome of the allocation.  *)
(* The elements in use are the first "size" of the allocation.             *)
(***************************************************************************)
EXTENDS Integers, Sequences

CONSTANTS Element,   \* what a vector stores
          Junk       \* the content of memory nobody wrote

VECTOR_MINIMUM_CAPACITY == 2
VECTOR_GROWTH_FACTOR == 2
\* (1 / 4), an integer division
VECTOR_SHRINK_THRESHOLD == 0

MAX(a, b) == IF a > b THEN a ELSE b

VECTOR_INITIALIZER == [size |-> 0, capacity |-> 0, live |-> FALSE, data |-> <<>>]

vector_is_initialized(v) == v.live

(***************************************************************************)
(* The sequence a vector stands for.                                       *)
(***************************************************************************)
Contents(v) == [i \in 1 .. v.size |-> v.data[i - 1]]

\* What a well-formed vector is: room for its elements, memory for its capacity.
IsVector(v) ==
    /\ v = [size |-> v.size, capacity |-> v.capacity, live |-> v.live, data |-> v.data]
    /\ v.size \in Nat /\ v.capacity \in Nat /\ v.live = TRUE
    /\ v.size <= v.capacity
    /\ VECTOR_MINIMUM_CAPACITY <= v.capacity
    /\ v.data \in [0 .. v.capacity - 1 -> Element \cup {Junk}]

\* The vector with another size and other cells in the same allocation.
With(v, size, data) ==
    [size |-> size, capacity |-> v.capacity, live |-> v.live, data |-> data]

-----------------------------------------------------------------------------
(***************************************************************************)
(* Memory.  A reallocation that fails loses the elements: the pointer is   *)
(* overwritten with NULL before the old block is looked at again.          *)
(***************************************************************************)

vector_setup(capacity, ok) ==
    LET cap == MAX(VECTOR_MINIMUM_CAPACITY, capacity)
    IN  [size |-> 0, capacity |-> cap, live |-> ok, data |-> [i \in 0 .. cap - 1 |-> Junk]]

Moved(v, capacity) ==
    [size |-> v.size, capacity |-> capacity, live |-> TRUE,
     data |-> [i \in 0 .. capacity - 1 |-> IF i < v.size THEN v.data[i] ELSE Junk]]

_vector_reallocate(v, wanted, ok) ==
    IF wanted < VECTOR_MINIMUM_CAPACITY /\ v.capacity <= VECTOR_MINIMUM_CAPACITY THEN v
    ELSE IF ok THEN Moved(v, MAX(VECTOR_MINIMUM_CAPACITY, wanted))
    ELSE [v EXCEPT !.live = FALSE]

_vector_adjust_capacity(v, ok) ==
    _vector_reallocate(v, MAX(1, v.size * VECTOR_GROWTH_FACTOR), ok)

_vector_should_grow(v) == v.size = v.capacity

(* mutant: the threshold is a quarter, as it is written *)
ShrinkAtQuarter(v) == v.size * 4 = v.capacity

_vector_should_shrink(v) == v.size = v.capacity * VECTOR_SHRINK_THRESHOLD

\* The growth a push or an insertion starts with.
Grown(v, ok) == IF _vector_should_grow(v) THEN _vector_adjust_capacity(v, ok) ELSE v

-----------------------------------------------------------------------------
(***************************************************************************)
(* Insertion and deletion.  The growth has to succeed; the shrinking does  *)
(* not, and nobody looks at its result.  A write past the end of the       *)
(* allocation changes no element.                                          *)
(***************************************************************************)

vector_push_back(v, e, ok) ==
    LET g == Grown(v, ok)
    IN  IF g.live THEN With(g, g.size + 1, [g.data EXCEPT ![g.size] = e]) ELSE g

_vector_move_right(v, index) ==
    [i \in DOMAIN v.data |-> IF index < i /\ i <= v.size THEN v.data[i - 1] ELSE v.data[i]]

vector_insert(v, index, e, ok) ==
    LET g == Grown(v, ok)
    IN  IF g.live THEN With(g, g.size + 1, [_vector_move_right(g, index) EXCEPT ![index] = e])
        ELSE g

vector_push_front(v, e, ok) == vector_insert(v, 0, e, ok)

vector_assign(v, index, e) == With(v, v.size, [v.data EXCEPT ![index] = e])

_vector_move_left(v, index) ==
    [i \in DOMAIN v.data |-> IF index <= i /\ i < v.size - 1 THEN v.data[i + 1] ELSE v.data[i]]

vector_pop_back(v, ok) ==
    LET p == With(v, v.size - 1, v.data)
    IN  IF _vector_should_shrink(p) THEN _vector_adjust_capacity(p, ok) ELSE p

(* mutant: one element too few is moved *)
EraseShort(v, index, ok) ==
    LET p == With(v, v.size - 1, _vector_move_left(With(v, v.size - 1, v.data), index))
    IN  IF p.size = p.capacity \div 4 THEN _vector_adjust_capacity(p, ok) ELSE p

vector_erase(v, index, ok) ==
    LET p == With(v, v.size - 1, _vector_move_left(v, index))
    IN  IF p.size = p.capacity \div 4 THEN _vector_adjust_capacity(p, ok) ELSE p

vector_pop_front(v, ok) == vector_erase(v, 0, ok)

-----------------------------------------------------------------------------
(***************************************************************************)
(* Lookup.                                                                 *)
(***************************************************************************)

vector_get(v, index) == v.data[index]

vector_front(v) == vector_get(v, 0)

vector_back(v) == vector_get(v, v.size - 1)

-----------------------------------------------------------------------------
(***************************************************************************)
(* Resizing: only a new size of zero gives memory back, the threshold      *)
(* being zero.                                                             *)
(***************************************************************************)

vector_resize(v, new_size, ok) ==
    LET cut  == new_size <= v.capacity * VECTOR_SHRINK_THRESHOLD
        old  == IF cut THEN With(v, new_size, v.data) ELSE v
        r    == IF cut \/ new_size > v.capacity
                THEN _vector_reallocate(old, new_size * VECTOR_GROWTH_FACTOR, ok)
                ELSE old
    IN  IF r.live THEN With(r, new_size, r.data) ELSE r

vector_clear(v, ok) == vector_resize(v, 0, ok)

vector_reserve(v, minimum_capacity, ok) ==
    IF minimum_capacity > v.capacity THEN _vector_reallocate(v, minimum_capacity, ok) ELSE v

vector_shrink_to_fit(v, ok) == _vector_reallocate(v, v.size, ok)

-----------------------------------------------------------------------------
(***************************************************************************)
(* Whole vectors.  A copy has twice the room its elements need, which is   *)
(* none for an empty one; a vector moved from or destroyed keeps its size. *)
(***************************************************************************)

vector_copy(source, ok) == [Moved(source, source.size * 2) EXCEPT !.live = ok]

vector_moved_from(source) == [source EXCEPT !.live = FALSE]

vector_destroy(v) == [v EXCEPT !.live = FALSE]

=============================================================================
