---------------------------- MODULE VectorProofs ----------------------------
(***************************************************************************)
(* What the functions of vector.h do to the sequence a vector stands for,  *)
(* for every element type, size and capacity: when allocations succeed,    *)
(* and at the end what is left when one fails.                             *)
(***************************************************************************)
EXTENDS Vector, SequenceTheorems, TLAPS

LEMMA Constants ==
    /\ VECTOR_MINIMUM_CAPACITY = 2 /\ VECTOR_GROWTH_FACTOR = 2 /\ VECTOR_SHRINK_THRESHOLD = 0
BY DEF VECTOR_MINIMUM_CAPACITY, VECTOR_GROWTH_FACTOR, VECTOR_SHRINK_THRESHOLD

LEMMA MovedFields ==
    ASSUME NEW v, NEW c
    PROVE  /\ Moved(v, c).size = v.size
           /\ Moved(v, c).capacity = c
           /\ Moved(v, c).live = TRUE
           /\ Moved(v, c).data = [i \in 0 .. c - 1 |-> IF i < v.size THEN v.data[i] ELSE Junk]
           /\ Moved(v, c) = [size |-> Moved(v, c).size, capacity |-> Moved(v, c).capacity,
                             live |-> Moved(v, c).live, data |-> Moved(v, c).data]
BY DEF Moved

(***************************************************************************)
(* Moving the elements to an allocation they fit in keeps the sequence.    *)
(***************************************************************************)
LEMMA MovedKeeps ==
    ASSUME NEW v, IsVector(v), NEW c \in Nat, v.size <= c, 2 <= c
    PROVE  IsVector(Moved(v, c)) /\ Contents(Moved(v, c)) = Contents(v)
<1> DEFINE m == Moved(v, c)
           d == [i \in 0 .. c - 1 |-> IF i < v.size THEN v.data[i] ELSE Junk]
<1>1. /\ v.size \in Nat /\ v.size <= v.capacity /\ v.capacity \in Nat
      /\ v.data \in [0 .. v.capacity - 1 -> Element \cup {Junk}]
  BY DEF IsVector
<1>2. /\ m.size = v.size /\ m.capacity = c /\ m.live = TRUE /\ m.data = d
      /\ m = [size |-> m.size, capacity |-> m.capacity, live |-> m.live, data |-> m.data]
  BY MovedFields
<1>3. d \in [0 .. c - 1 -> Element \cup {Junk}]
  <2>1. \A i \in 0 .. c - 1 : (IF i < v.size THEN v.data[i] ELSE Junk) \in Element \cup {Junk}
    BY <1>1
  <2> QED BY <2>1
<1>4. \A i \in 1 .. v.size : d[i - 1] = v.data[i - 1]
  BY <1>1
<1> HIDE DEF m, d
<1>5. IsVector(m)
  BY <1>1, <1>2, <1>3, Constants DEF IsVector
<1>6. Contents(m) = Contents(v)
  BY <1>1, <1>2, <1>4 DEF Contents
<1> QED BY <1>5, <1>6 DEF m

(***************************************************************************)
(* A reallocation to at least the size, whatever the direction, keeps the  *)
(* sequence, and gives the room that was asked for or the old room.        *)
(***************************************************************************)
THEOREM ReallocateKeeps ==
    ASSUME NEW v, IsVector(v), NEW wanted \in Nat, v.size <= wanted
    PROVE  LET r == _vector_reallocate(v, wanted, TRUE)
           IN  /\ IsVector(r) /\ Contents(r) = Contents(v) /\ r.size = v.size
               /\ wanted <= r.capacity
<1> DEFINE c == MAX(VECTOR_MINIMUM_CAPACITY, wanted)
<1>1. c \in Nat /\ v.size <= c /\ 2 <= c /\ wanted <= c
  BY Constants DEF MAX, IsVector
<1>2. CASE wanted < VECTOR_MINIMUM_CAPACITY /\ v.capacity <= VECTOR_MINIMUM_CAPACITY
  <2>1. _vector_reallocate(v, wanted, TRUE) = v
    BY <1>2 DEF _vector_reallocate
  <2>2. wanted <= v.capacity
    BY <1>2, Constants DEF IsVector
  <2> QED BY <2>1, <2>2
<1>3. CASE ~(wanted < VECTOR_MINIMUM_CAPACITY /\ v.capacity <= VECTOR_MINIMUM_CAPACITY)
  <2>1. _vector_reallocate(v, wanted, TRUE) = Moved(v, c)
    BY <1>3 DEF _vector_reallocate
  <2>2. Moved(v, c).size = v.size /\ Moved(v, c).capacity = c
    BY MovedFields
  <2> QED BY <1>1, <2>1, <2>2, MovedKeeps
<1> QED BY <1>2, <1>3

LEMMA AdjustKeeps ==
    ASSUME NEW v, IsVector(v)
    PROVE  LET r == _vector_adjust_capacity(v, TRUE)
           IN  /\ IsVector(r) /\ Contents(r) = Contents(v) /\ r.size = v.size
               /\ v.size > 0 => v.size < r.capacity
<1> DEFINE w == MAX(1, v.size * VECTOR_GROWTH_FACTOR)
<1>1. v.size \in Nat
  BY DEF IsVector
<1>2. w \in Nat /\ v.size <= w /\ (v.size > 0 => v.size < w)
  BY <1>1, Constants DEF MAX
<1> DEFINE r == _vector_reallocate(v, w, TRUE)
<1>3. _vector_adjust_capacity(v, TRUE) = r
  BY DEF _vector_adjust_capacity
<1>4. IsVector(r) /\ Contents(r) = Contents(v) /\ r.size = v.size /\ w <= r.capacity
  BY <1>2, ReallocateKeeps
<1>5. r.capacity \in Nat
  BY <1>4 DEF IsVector
<1> HIDE DEF w, r
<1>6. v.size > 0 => v.size < r.capacity
  BY <1>1, <1>2, <1>4, <1>5
<1> QED BY <1>3, <1>4, <1>6

(***************************************************************************)
(* A push or an insertion starts from a vector with the same elements and  *)
(* room for one more.                                                      *)
(***************************************************************************)
LEMMA GrownHasRoom ==
    ASSUME NEW v, IsVector(v)
    PROVE  LET g == Grown(v, TRUE)
           IN  IsVector(g) /\ Contents(g) = Contents(v) /\ g.size = v.size /\ g.size < g.capacity
<1>1. CASE _vector_should_grow(v)
  <2>1. v.size > 0
    BY <1>1, Constants DEF _vector_should_grow, IsVector
  <2>2. Grown(v, TRUE) = _vector_adjust_capacity(v, TRUE)
    BY <1>1 DEF Grown
  <2> QED BY <2>1, <2>2, AdjustKeeps
<1>2. CASE ~_vector_should_grow(v)
  <2>1. Grown(v, TRUE) = v
    BY <1>2 DEF Grown
  <2>2. v.size < v.capacity
    BY <1>2 DEF _vector_should_grow, IsVector
  <2> QED BY <2>1, <2>2
<1> QED BY <1>1, <1>2

(***************************************************************************)
(* With other cells and a size that fits, a vector stays one.              *)
(***************************************************************************)
LEMMA WithVector ==
    ASSUME NEW g, IsVector(g), NEW n \in Nat, n <= g.capacity,
           NEW d \in [0 .. g.capacity - 1 -> Element \cup {Junk}]
    PROVE  /\ IsVector(With(g, n, d))
           /\ With(g, n, d).size = n /\ With(g, n, d).data = d
           /\ With(g, n, d).capacity = g.capacity
<1>1. /\ With(g, n, d).size = n /\ With(g, n, d).data = d
      /\ With(g, n, d).capacity = g.capacity /\ With(g, n, d).live = g.live
  BY DEF With
<1>2. IsVector(With(g, n, d))
  BY Constants DEF IsVector, With
<1> QED BY <1>1, <1>2

(***************************************************************************)
(* The contents of a vector are a sequence of its size, and the only one   *)
(* with its elements in their places.                                      *)
(***************************************************************************)
LEMMA ContentsSeq ==
    ASSUME NEW v, IsVector(v)
    PROVE  /\ v.size \in Nat
           /\ Contents(v) \in Seq(Element \cup {Junk}) /\ Len(Contents(v)) = v.size
           /\ \A i \in 1 .. v.size : Contents(v)[i] = v.data[i - 1]
<1>1. v.size \in Nat /\ v.capacity \in Nat /\ v.size <= v.capacity
      /\ v.data \in [0 .. v.capacity - 1 -> Element \cup {Junk}]
  BY DEF IsVector
<1>2. Contents(v) \in [1 .. v.size -> Element \cup {Junk}]
  BY <1>1 DEF Contents
<1>3. \A i \in 1 .. v.size : Contents(v)[i] = v.data[i - 1]
  BY DEF Contents
<1> DEFINE c == Contents(v)
           n == v.size
<1> HIDE DEF c, n
<1>4. n \in Nat /\ c \in [1 .. n -> Element \cup {Junk}]
  BY <1>1, <1>2 DEF c, n
<1>5. c \in Seq(Element \cup {Junk})
  BY <1>4, SeqDef
<1>6. Len(c) = n
  BY <1>4, <1>5, LenProperties
<1> QED BY <1>3, <1>4, <1>5, <1>6 DEF c, n

LEMMA ContentsAre ==
    ASSUME NEW v, IsVector(v), NEW s \in Seq(Element \cup {Junk}), Len(s) = v.size,
           \A i \in 1 .. v.size : s[i] = v.data[i - 1]
    PROVE  Contents(v) = s
<1> DEFINE c == Contents(v)
<1>1. /\ c \in Seq(Element \cup {Junk}) /\ Len(c) = Len(s)
      /\ \A i \in 1 .. Len(c) : c[i] = s[i]
  BY ContentsSeq
<1> HIDE DEF c
<1>2. c = s
  BY <1>1, SeqEqual
<1> QED BY <1>2 DEF c

(***************************************************************************)
(* vector_push_back appends.                                               *)
(***************************************************************************)
THEOREM PushBackAppends ==
    ASSUME NEW v, IsVector(v), NEW e \in Element
    PROVE  LET p == vector_push_back(v, e, TRUE)
           IN  IsVector(p) /\ Contents(p) = Append(Contents(v), e)
<1> DEFINE g == Grown(v, TRUE)
           d == [g.data EXCEPT ![g.size] = e]
           n == g.size + 1
           p == With(g, n, d)
           s == Append(Contents(g), e)
<1>1. IsVector(g) /\ Contents(g) = Contents(v) /\ g.size = v.size /\ g.size < g.capacity
  BY GrownHasRoom
<1>2. /\ g.size \in Nat /\ g.capacity \in Nat /\ g.live = TRUE
      /\ g.data \in [0 .. g.capacity - 1 -> Element \cup {Junk}]
  BY <1>1 DEF IsVector
<1>3. vector_push_back(v, e, TRUE) = p
  BY <1>2 DEF vector_push_back
<1> HIDE DEF g
<1>4. /\ n \in Nat /\ n <= g.capacity
      /\ d \in [0 .. g.capacity - 1 -> Element \cup {Junk}]
  BY <1>1, <1>2
<1>5. d[g.size] = e /\ \A i \in 1 .. g.size : d[i - 1] = g.data[i - 1]
  BY <1>1, <1>2
<1>6. /\ s \in Seq(Element \cup {Junk}) /\ Len(s) = n
      /\ s[n] = e /\ \A i \in 1 .. g.size : s[i] = g.data[i - 1]
  BY <1>1, ContentsSeq, AppendProperties
<1>7. \A i \in 1 .. n : s[i] = d[i - 1]
  BY <1>2, <1>5, <1>6
<1> HIDE DEF d, n, s
<1>8. IsVector(p) /\ p.size = n /\ p.data = d
  BY <1>1, <1>4, WithVector
<1> HIDE DEF p
<1>9. Contents(p) = s
  BY <1>6, <1>7, <1>8, ContentsAre
<1> QED BY <1>1, <1>3, <1>8, <1>9 DEF s

(***************************************************************************)
(* The shrinking at the end of a deletion keeps what is left.              *)
(***************************************************************************)
LEMMA ShrunkKeeps ==
    ASSUME NEW v, IsVector(v), NEW shrinks \in BOOLEAN
    PROVE  LET p == IF shrinks THEN _vector_adjust_capacity(v, TRUE) ELSE v
           IN  IsVector(p) /\ Contents(p) = Contents(v)
BY AdjustKeeps

(***************************************************************************)
(* vector_pop_back drops the last element.                                 *)
(***************************************************************************)
THEOREM PopBackDropsLast ==
    ASSUME NEW v, IsVector(v), v.size > 0
    PROVE  LET p == vector_pop_back(v, TRUE)
           IN  IsVector(p) /\ Contents(p) = SubSeq(Contents(v), 1, v.size - 1)
<1> DEFINE n == v.size - 1
           w == With(v, n, v.data)
           s == SubSeq(Contents(v), 1, n)
<1>1. /\ v.size \in Nat /\ v.capacity \in Nat /\ v.size <= v.capacity
      /\ v.data \in [0 .. v.capacity - 1 -> Element \cup {Junk}]
  BY DEF IsVector
<1>2. n \in Nat /\ n <= v.capacity /\ n < v.size
  BY <1>1
<1>3. vector_pop_back(v, TRUE)
        = IF _vector_should_shrink(w) THEN _vector_adjust_capacity(w, TRUE) ELSE w
  BY DEF vector_pop_back
<1>4. IsVector(w) /\ w.size = n /\ w.data = v.data
  BY <1>1, <1>2, WithVector
<1>5. \A i \in 1 .. n : Contents(v)[i] = v.data[i - 1] /\ Contents(v)[i] \in Element \cup {Junk}
  BY <1>2, ContentsSeq, ElementOfSeq
<1>6. /\ s \in Seq(Element \cup {Junk}) /\ Len(s) = n
      /\ \A i \in 1 .. n : s[i] = v.data[i - 1]
  BY <1>2, <1>5, SubSeqProperties
<1>7. _vector_should_shrink(w) \in BOOLEAN
  BY DEF _vector_should_shrink
<1> HIDE DEF w, n, s
<1>8. Contents(w) = s
  BY <1>4, <1>6, ContentsAre
<1> QED BY <1>3, <1>4, <1>7, <1>8, ShrunkKeeps DEF n, s

(***************************************************************************)
(* vector_erase drops the element at the index, and only it.               *)
(***************************************************************************)
THEOREM EraseDropsOne ==
    ASSUME NEW v, IsVector(v), NEW index \in 0 .. v.size - 1
    PROVE  LET p == vector_erase(v, index, TRUE)
               c == Contents(v)
           IN  /\ IsVector(p)
               /\ Contents(p) = SubSeq(c, 1, index) \o SubSeq(c, index + 2, v.size)
<1> DEFINE n == v.size - 1
           d == _vector_move_left(v, index)
           w == With(v, n, d)
           c == Contents(v)
           l == SubSeq(c, 1, index)
           r == SubSeq(c, index + 2, v.size)
           E == Element \cup {Junk}
<1>1. /\ v.size \in Nat /\ v.capacity \in Nat /\ v.size <= v.capacity
      /\ v.data \in [0 .. v.capacity - 1 -> E] /\ index \in Nat /\ index < v.size
  BY DEF IsVector
<1>2. n \in Nat /\ n <= v.capacity /\ n < v.size /\ n = v.size - 1
  BY <1>1
<1>3. d = [i \in 0 .. v.capacity - 1 |->
             IF index <= i /\ i < v.size - 1 THEN v.data[i + 1] ELSE v.data[i]]
  BY <1>1 DEF _vector_move_left
<1>4. d \in [0 .. v.capacity - 1 -> E]
  <2>1. \A i \in 0 .. v.capacity - 1 :
          (IF index <= i /\ i < v.size - 1 THEN v.data[i + 1] ELSE v.data[i]) \in E
    BY <1>1
  <2> QED BY <1>3, <2>1
<1>5. IsVector(w) /\ w.size = n /\ w.data = d
  BY <1>1, <1>2, <1>4, WithVector
<1>6. /\ c \in Seq(E) /\ Len(c) = v.size
      /\ \A i \in 1 .. v.size : c[i] = v.data[i - 1] /\ c[i] \in E
  BY ContentsSeq, ElementOfSeq
<1> HIDE DEF c, d, w, n, E
<1>7. l \in Seq(E) /\ Len(l) = index /\ \A i \in 1 .. index : l[i] = c[i]
  BY <1>1, <1>6, SubSeqProperties
<1>8. /\ r \in Seq(E) /\ Len(r) = n - index
      /\ \A i \in 1 .. n - index : r[i] = c[index + 1 + i]
  BY <1>1, <1>2, <1>6, SubSeqProperties
<1> HIDE DEF l, r
<1>9. /\ l \o r \in Seq(E) /\ Len(l \o r) = n
      /\ \A i \in 1 .. n : (l \o r)[i] = IF i <= index THEN l[i] ELSE r[i - index]
  <2>1. /\ l \o r \in Seq(E) /\ Len(l \o r) = Len(l) + Len(r)
        /\ \A i \in 1 .. Len(l) + Len(r) :
              (l \o r)[i] = IF i <= Len(l) THEN l[i] ELSE r[i - Len(l)]
    BY <1>7, <1>8, ConcatProperties
  <2>2. Len(l) + Len(r) = n
    BY <1>1, <1>2, <1>7, <1>8
  <2> QED BY <1>7, <2>1, <2>2
<1>10. \A i \in 1 .. n : (l \o r)[i] = d[i - 1]
  <2> SUFFICES ASSUME NEW i \in 1 .. n
               PROVE  (l \o r)[i] = d[i - 1]
    OBVIOUS
  <2>1. CASE i <= index
    <3>1. (l \o r)[i] = c[i] /\ c[i] = v.data[i - 1]
      BY <1>1, <1>2, <1>6, <1>7, <1>9, <2>1
    <3>2. d[i - 1] = v.data[i - 1]
      BY <1>1, <1>2, <1>3, <2>1
    <3> QED BY <3>1, <3>2
  <2>2. CASE i > index
    <3>1. i - index \in 1 .. n - index /\ (l \o r)[i] = r[i - index]
      BY <1>1, <1>2, <1>9, <2>2
    <3>2. r[i - index] = c[i + 1] /\ c[i + 1] = v.data[i]
      BY <1>1, <1>2, <1>6, <1>8, <2>2, <3>1
    <3>3. d[i - 1] = v.data[i]
      BY <1>1, <1>2, <1>3, <2>2
    <3> QED BY <3>1, <3>2, <3>3
  <2>3. i <= index \/ i > index
    BY <1>1, <1>2
  <2> QED BY <2>1, <2>2, <2>3
<1>11. Contents(w) = l \o r
  BY <1>5, <1>9, <1>10, ContentsAre DEF E
<1>12. vector_erase(v, index, TRUE)
         = IF w.size = w.capacity \div 4 THEN _vector_adjust_capacity(w, TRUE) ELSE w
  BY DEF vector_erase, w, d, n
<1>13. (w.size = w.capacity \div 4) \in BOOLEAN
  OBVIOUS
<1> QED BY <1>5, <1>11, <1>12, <1>13, ShrunkKeeps DEF l, r, c

(***************************************************************************)
(* vector_insert puts the element at the index and keeps the others in     *)
(* their order.                                                            *)
(***************************************************************************)
THEOREM InsertInserts ==
    ASSUME NEW v, IsVector(v), NEW e \in Element, NEW index \in 0 .. v.size
    PROVE  LET p == vector_insert(v, index, e, TRUE)
               c == Contents(v)
           IN  /\ IsVector(p)
               /\ Contents(p) = Append(SubSeq(c, 1, index), e) \o SubSeq(c, index + 1, v.size)
<1> DEFINE g == Grown(v, TRUE)
           n == g.size + 1
           f == _vector_move_right(g, index)
           d == [f EXCEPT ![index] = e]
           p == With(g, n, d)
           c == Contents(v)
           l == Append(SubSeq(c, 1, index), e)
           r == SubSeq(c, index + 1, v.size)
           E == Element \cup {Junk}
<1>1. IsVector(g) /\ Contents(g) = c /\ g.size = v.size /\ g.size < g.capacity
  BY GrownHasRoom
<1>2. /\ g.size \in Nat /\ g.capacity \in Nat /\ g.live = TRUE
      /\ g.data \in [0 .. g.capacity - 1 -> E] /\ index \in Nat /\ index <= g.size
  <2>1. /\ g.size \in Nat /\ g.capacity \in Nat /\ g.live = TRUE
        /\ g.data \in [0 .. g.capacity - 1 -> E]
    BY <1>1 DEF IsVector
  <2> HIDE DEF g
  <2>2. index \in Nat /\ index <= g.size
    BY <1>1, <2>1
  <2> QED BY <2>1, <2>2
<1>3. vector_insert(v, index, e, TRUE) = p
  BY <1>2 DEF vector_insert
<1>4. c \in Seq(E) /\ Len(c) = g.size /\ \A i \in 1 .. g.size : c[i] = g.data[i - 1] /\ c[i] \in E
  BY <1>1, ContentsSeq, ElementOfSeq
<1> HIDE DEF g, c
<1>5. n \in Nat /\ n <= g.capacity /\ n = g.size + 1
  BY <1>1, <1>2
<1>6. f = [i \in 0 .. g.capacity - 1 |->
             IF index < i /\ i <= g.size THEN g.data[i - 1] ELSE g.data[i]]
  BY <1>2 DEF _vector_move_right
<1>7. e \in E
  OBVIOUS
<1> HIDE DEF E, f
<1>8. \A i \in 0 .. g.capacity - 1 :
        (IF index < i /\ i <= g.size THEN g.data[i - 1] ELSE g.data[i]) \in E
  BY <1>2
<1>9. f \in [0 .. g.capacity - 1 -> E]
  BY <1>6, <1>8
<1>10. d \in [0 .. g.capacity - 1 -> E]
  BY <1>7, <1>9
<1>11. \A i \in 1 .. n : d[i - 1] = IF i - 1 = index THEN e
                                     ELSE IF index < i - 1 THEN g.data[i - 2] ELSE g.data[i - 1]
  BY <1>1, <1>2, <1>5, <1>6, <1>9
<1> HIDE DEF d, n
<1>12. IsVector(p) /\ p.size = n /\ p.data = d
  BY <1>1, <1>5, <1>10, WithVector DEF E
<1>13. /\ l \in Seq(E) /\ Len(l) = index + 1 /\ l[index + 1] = e
       /\ \A i \in 1 .. index : l[i] = c[i]
  <2> DEFINE q == SubSeq(c, 1, index)
  <2>1. q \in Seq(E) /\ Len(q) = index /\ \A i \in 1 .. index : q[i] = c[i]
    BY <1>2, <1>4, SubSeqProperties
  <2> HIDE DEF q
  <2>2. /\ Append(q, e) \in Seq(E) /\ Len(Append(q, e)) = index + 1
        /\ Append(q, e)[index + 1] = e
        /\ \A i \in 1 .. index : Append(q, e)[i] = q[i]
    BY <1>7, <2>1, AppendProperties
  <2> QED BY <2>1, <2>2 DEF q
<1>14. /\ r \in Seq(E) /\ Len(r) = g.size - index
       /\ \A i \in 1 .. g.size - index : r[i] = c[index + i]
  BY <1>1, <1>2, <1>4, SubSeqProperties
<1> HIDE DEF l, r, p
<1>15. /\ l \o r \in Seq(E) /\ Len(l \o r) = n
       /\ \A i \in 1 .. n : (l \o r)[i] = IF i <= index + 1 THEN l[i] ELSE r[i - (index + 1)]
  <2>1. /\ l \o r \in Seq(E) /\ Len(l \o r) = Len(l) + Len(r)
        /\ \A i \in 1 .. Len(l) + Len(r) :
              (l \o r)[i] = IF i <= Len(l) THEN l[i] ELSE r[i - Len(l)]
    BY <1>13, <1>14, ConcatProperties
  <2>2. Len(l) + Len(r) = n
    BY <1>2, <1>5, <1>13, <1>14
  <2> QED BY <1>13, <2>1, <2>2
<1>16. \A i \in 1 .. n : (l \o r)[i] = d[i - 1]
  <2> SUFFICES ASSUME NEW i \in 1 .. n
               PROVE  (l \o r)[i] = d[i - 1]
    OBVIOUS
  <2>1. CASE i <= index
    <3>1. (l \o r)[i] = c[i] /\ c[i] = g.data[i - 1]
      BY <1>2, <1>4, <1>5, <1>13, <1>15, <2>1
    <3>2. d[i - 1] = g.data[i - 1]
      BY <1>2, <1>5, <1>11, <2>1
    <3> QED BY <3>1, <3>2
  <2>2. CASE i = index + 1
    <3>1. (l \o r)[i] = e
      BY <1>2, <1>5, <1>13, <1>15, <2>2
    <3>2. d[i - 1] = e
      BY <1>2, <1>5, <1>11, <2>2
    <3> QED BY <3>1, <3>2
  <2>3. CASE i > index + 1
    <3>1. i - (index + 1) \in 1 .. g.size - index /\ (l \o r)[i] = r[i - (index + 1)]
      BY <1>2, <1>5, <1>15, <2>3
    <3>2. r[i - (index + 1)] = c[i - 1] /\ c[i - 1] = g.data[i - 2]
      BY <1>2, <1>4, <1>5, <1>14, <2>3, <3>1
    <3>3. d[i - 1] = g.data[i - 2]
      BY <1>2, <1>5, <1>11, <2>3
    <3> QED BY <3>1, <3>2, <3>3
  <2>4. i <= index \/ i = index + 1 \/ i > index + 1
    BY <1>2, <1>5
  <2> QED BY <2>1, <2>2, <2>3, <2>4
<1>17. Contents(p) = l \o r
  BY <1>12, <1>15, <1>16, ContentsAre DEF E
<1> QED BY <1>3, <1>12, <1>17 DEF l, r, c

(***************************************************************************)
(* vector_assign replaces the element at the index.                        *)
(***************************************************************************)
THEOREM AssignReplaces ==
    ASSUME NEW v, IsVector(v), NEW e \in Element, NEW index \in 0 .. v.size - 1
    PROVE  LET p == vector_assign(v, index, e)
           IN  IsVector(p) /\ Contents(p) = [Contents(v) EXCEPT ![index + 1] = e]
<1> DEFINE d == [v.data EXCEPT ![index] = e]
           p == With(v, v.size, d)
           s == [Contents(v) EXCEPT ![index + 1] = e]
<1>1. /\ v.size \in Nat /\ v.capacity \in Nat /\ v.size <= v.capacity
      /\ v.data \in [0 .. v.capacity - 1 -> Element \cup {Junk}]
      /\ index \in Nat /\ index < v.size
  BY DEF IsVector
<1>2. d \in [0 .. v.capacity - 1 -> Element \cup {Junk}]
  BY <1>1
<1>3. IsVector(p) /\ p.size = v.size /\ p.data = d
  BY <1>1, <1>2, WithVector
<1>4. Contents(p) = [i \in 1 .. v.size |-> d[i - 1]]
  BY <1>3 DEF Contents
<1>5. s = [i \in 1 .. v.size |-> IF i = index + 1 THEN e ELSE v.data[i - 1]]
  BY <1>1 DEF Contents
<1>6. \A i \in 1 .. v.size : d[i - 1] = IF i = index + 1 THEN e ELSE v.data[i - 1]
  BY <1>1
<1>7. vector_assign(v, index, e) = p
  BY DEF vector_assign
<1> HIDE DEF d, p, s
<1>8. Contents(p) = s
  BY <1>4, <1>5, <1>6
<1> QED BY <1>3, <1>7, <1>8 DEF s

(***************************************************************************)
(* vector_reserve and vector_shrink_to_fit change the room alone.          *)
(***************************************************************************)
THEOREM RoomAloneChanges ==
    ASSUME NEW v, IsVector(v), NEW wanted \in Nat
    PROVE  LET r == vector_reserve(v, wanted, TRUE)
               f == vector_shrink_to_fit(v, TRUE)
           IN  /\ IsVector(r) /\ Contents(r) = Contents(v) /\ wanted <= r.capacity
               /\ IsVector(f) /\ Contents(f) = Contents(v) /\ f.size = v.size
<1>1. v.size \in Nat /\ v.capacity \in Nat /\ v.size <= v.capacity
  BY DEF IsVector
<1>2. LET r == vector_reserve(v, wanted, TRUE)
      IN  IsVector(r) /\ Contents(r) = Contents(v) /\ wanted <= r.capacity
  <2>1. CASE wanted > v.capacity
    <3>1. vector_reserve(v, wanted, TRUE) = _vector_reallocate(v, wanted, TRUE)
      BY <2>1 DEF vector_reserve
    <3>2. v.size <= wanted
      BY <1>1, <2>1
    <3> QED BY <3>1, <3>2, ReallocateKeeps
  <2>2. CASE ~(wanted > v.capacity)
    <3>1. vector_reserve(v, wanted, TRUE) = v
      BY <2>2 DEF vector_reserve
    <3>2. wanted <= v.capacity
      BY <1>1, <2>2
    <3> QED BY <3>1, <3>2
  <2> QED BY <2>1, <2>2
<1>3. LET f == vector_shrink_to_fit(v, TRUE)
      IN  IsVector(f) /\ Contents(f) = Contents(v) /\ f.size = v.size
  <2>1. vector_shrink_to_fit(v, TRUE) = _vector_reallocate(v, v.size, TRUE)
    BY DEF vector_shrink_to_fit
  <2>2. v.size <= v.size
    BY <1>1
  <2> QED BY <1>1, <2>1, <2>2, ReallocateKeeps
<1> QED BY <1>2, <1>3

(***************************************************************************)
(* vector_resize and vector_clear keep the elements below the new size;    *)
(* those above the old one are whatever the memory holds.                  *)
(***************************************************************************)
THEOREM ResizeKeepsPrefix ==
    ASSUME NEW v, IsVector(v), NEW n \in Nat
    PROVE  LET r == vector_resize(v, n, TRUE)
           IN  /\ IsVector(r) /\ r.size = n
               /\ \A i \in 1 .. n : i <= v.size => Contents(r)[i] = Contents(v)[i]
<1> DEFINE cut == n <= v.capacity * VECTOR_SHRINK_THRESHOLD
           old == IF cut THEN With(v, n, v.data) ELSE v
           r   == IF cut \/ n > v.capacity
                  THEN _vector_reallocate(old, n * VECTOR_GROWTH_FACTOR, TRUE) ELSE old
           p   == With(r, n, r.data)
<1>1. /\ v.size \in Nat /\ v.capacity \in Nat /\ v.size <= v.capacity /\ v.live = TRUE
      /\ v.data \in [0 .. v.capacity - 1 -> Element \cup {Junk}]
  BY DEF IsVector
<1>2. (cut <=> n = 0) /\ n * VECTOR_GROWTH_FACTOR = n + n /\ n + n \in Nat
  BY <1>1, Constants
<1>3. IsVector(old) /\ (cut => old.size = 0) /\ (~cut => old = v)
  <2>1. CASE cut
    <3>1. n = 0 /\ n <= v.capacity
      BY <1>1, <1>2, <2>1
    <3>2. IsVector(With(v, n, v.data)) /\ With(v, n, v.data).size = n
      BY <1>1, <3>1, WithVector
    <3> QED BY <2>1, <3>1, <3>2
  <2>2. CASE ~cut
    BY <2>2
  <2> QED BY <2>1, <2>2
<1>a. vector_resize(v, n, TRUE) = IF r.live THEN p ELSE r
  BY DEF vector_resize
<1> HIDE DEF cut, old
<1>4. IsVector(r) /\ n <= r.capacity /\ (~cut => Contents(r) = Contents(v) /\ r.size = v.size)
  <2>1. CASE cut \/ n > v.capacity
    <3>1. old.size <= n + n
      BY <1>1, <1>2, <1>3, <2>1
    <3>2. LET q == _vector_reallocate(old, n + n, TRUE)
          IN  IsVector(q) /\ Contents(q) = Contents(old) /\ q.size = old.size /\ n + n <= q.capacity
      BY <1>2, <1>3, <3>1, ReallocateKeeps
    <3>3. r = _vector_reallocate(old, n + n, TRUE)
      BY <1>2, <2>1
    <3>4. IsVector(r) /\ Contents(r) = Contents(old) /\ r.size = old.size /\ n + n <= r.capacity
      BY <3>2, <3>3
    <3>5. r.capacity \in Nat
      BY <3>4 DEF IsVector
    <3> HIDE DEF r
    <3> QED BY <1>3, <3>4, <3>5
  <2>2. CASE ~(cut \/ n > v.capacity)
    BY <1>1, <1>3, <2>2
  <2> QED BY <2>1, <2>2
<1> HIDE DEF r
<1>5. /\ r.live = TRUE /\ r.size \in Nat /\ r.capacity \in Nat
      /\ r.data \in [0 .. r.capacity - 1 -> Element \cup {Junk}]
  BY <1>4 DEF IsVector
<1>6. IsVector(p) /\ p.size = n /\ p.data = r.data
  BY <1>4, <1>5, WithVector
<1> HIDE DEF p
<1>7. ASSUME NEW i \in 1 .. n, i <= v.size PROVE Contents(p)[i] = Contents(v)[i]
  <2>1. ~cut
    BY <1>2, <1>7
  <2>2. i \in 1 .. v.size /\ Contents(r) = Contents(v) /\ r.size = v.size
    BY <1>1, <1>4, <1>7, <2>1
  <2>3. Contents(p)[i] = p.data[i - 1]
    BY <1>6, <1>7 DEF Contents
  <2>4. Contents(r)[i] = r.data[i - 1]
    BY <2>2 DEF Contents
  <2> QED BY <1>6, <2>2, <2>3, <2>4
<1> QED BY <1>5, <1>6, <1>7, <1>a

(***************************************************************************)
(* A copy of a vector that has elements is one with the same elements and  *)
(* room for as many again.  An empty vector's copy has no room.            *)
(***************************************************************************)
THEOREM CopyHasElements ==
    ASSUME NEW v, IsVector(v)
    PROVE  LET c == vector_copy(v, TRUE)
           IN  /\ Contents(c) = Contents(v) /\ c.capacity = v.size + v.size
               /\ v.size > 0 => IsVector(c)
<1> DEFINE m == Moved(v, v.size * 2)
<1>1. v.size \in Nat /\ v.size * 2 = v.size + v.size /\ v.size * 2 \in Nat
  BY DEF IsVector
<1>2. vector_copy(v, TRUE) = m
  <2>1. vector_copy(v, TRUE) = [m EXCEPT !.live = TRUE]
    BY DEF vector_copy
  <2>2. m.live = TRUE /\ m = [size |-> m.size, capacity |-> m.capacity, live |-> m.live, data |-> m.data]
    BY MovedFields
  <2> HIDE DEF m
  <2>3. [m EXCEPT !.live = m.live] = m
    BY <2>2
  <2> QED BY <2>1, <2>2, <2>3
<1>3. m.size = v.size /\ m.capacity = v.size * 2
  BY MovedFields
<1>4. CASE v.size > 0
  <2>1. v.size <= v.size * 2 /\ 2 <= v.size * 2
    BY <1>1, <1>4
  <2> QED BY <1>1, <1>2, <1>3, <2>1, MovedKeeps
<1>5. CASE v.size = 0
  <2>1. Contents(m) = Contents(v)
    BY <1>3, <1>5 DEF Contents
  <2> HIDE DEF m
  <2>2. /\ Contents(vector_copy(v, TRUE)) = Contents(v)
        /\ vector_copy(v, TRUE).capacity = v.size + v.size
    BY <1>1, <1>2, <1>3, <2>1
  <2>3. ~(v.size > 0)
    BY <1>5
  <2> QED BY <2>2, <2>3
<1>6. v.size > 0 \/ v.size = 0
  BY <1>1
<1> QED BY <1>4, <1>5, <1>6

(***************************************************************************)
(* An operation with a failed allocation, against the same operation with  *)
(* the allocation: the lemmas for FailureShows, below.                     *)
(***************************************************************************)
Shows(failed, succeeded) == failed = succeeded \/ failed.live = FALSE

LEMMA ReallocationShows ==
    ASSUME NEW v, IsVector(v), NEW wanted
    PROVE  Shows(_vector_reallocate(v, wanted, FALSE), _vector_reallocate(v, wanted, TRUE))
<1>1. [v EXCEPT !.live = FALSE].live = FALSE
  BY DEF IsVector
<1> QED BY <1>1 DEF Shows, _vector_reallocate

LEMMA GrowthShows ==
    ASSUME NEW v, IsVector(v)
    PROVE  Shows(Grown(v, FALSE), Grown(v, TRUE))
BY ReallocationShows DEF Grown, _vector_adjust_capacity, Shows

LEMMA AdjustShows ==
    ASSUME NEW v, IsVector(v)
    PROVE  Shows(_vector_adjust_capacity(v, FALSE), _vector_adjust_capacity(v, TRUE))
BY ReallocationShows DEF _vector_adjust_capacity

LEMMA PushShows ==
    ASSUME NEW v, IsVector(v), NEW e
    PROVE  Shows(vector_push_back(v, e, FALSE), vector_push_back(v, e, TRUE))
<1> DEFINE Filled(g) == IF g.live THEN With(g, g.size + 1, [g.data EXCEPT ![g.size] = e]) ELSE g
           f == Grown(v, FALSE)
           s == Grown(v, TRUE)
<1>1. vector_push_back(v, e, FALSE) = Filled(f) /\ vector_push_back(v, e, TRUE) = Filled(s)
  BY DEF vector_push_back
<1>2. f = s \/ f.live = FALSE
  BY GrowthShows DEF Shows
<1> HIDE DEF f, s
<1>3. CASE f = s
  <2> HIDE DEF Filled
  <2> QED BY <1>1, <1>3 DEF Shows
<1>4. CASE f.live = FALSE
  <2>1. Filled(f) = f
    BY <1>4
  <2> QED BY <1>1, <1>4, <2>1 DEF Shows
<1> QED BY <1>2, <1>3, <1>4

LEMMA InsertShows ==
    ASSUME NEW v, IsVector(v), NEW e, NEW n
    PROVE  Shows(vector_insert(v, n, e, FALSE), vector_insert(v, n, e, TRUE))
<1> DEFINE Filled(g) == IF g.live THEN With(g, g.size + 1, [_vector_move_right(g, n) EXCEPT ![n] = e]) ELSE g
           f == Grown(v, FALSE)
           s == Grown(v, TRUE)
<1>1. vector_insert(v, n, e, FALSE) = Filled(f) /\ vector_insert(v, n, e, TRUE) = Filled(s)
  BY DEF vector_insert
<1>2. f = s \/ f.live = FALSE
  BY GrowthShows DEF Shows
<1> HIDE DEF f, s
<1>3. CASE f = s
  <2> HIDE DEF Filled
  <2> QED BY <1>1, <1>3 DEF Shows
<1>4. CASE f.live = FALSE
  <2>1. Filled(f) = f
    BY <1>4
  <2> QED BY <1>1, <1>4, <2>1 DEF Shows
<1> QED BY <1>2, <1>3, <1>4

LEMMA PopShows ==
    ASSUME NEW v, IsVector(v), v.size > 0
    PROVE  Shows(vector_pop_back(v, FALSE), vector_pop_back(v, TRUE))
<1>1. /\ v.size \in Nat /\ v.capacity \in Nat /\ v.size <= v.capacity
      /\ v.data \in [0 .. v.capacity - 1 -> Element \cup {Junk}]
  BY DEF IsVector
<1>2. v.size - 1 \in Nat /\ v.size - 1 <= v.capacity
  BY <1>1
<1>3. IsVector(With(v, v.size - 1, v.data))
  BY <1>1, <1>2, WithVector
<1> QED BY <1>3, AdjustShows DEF vector_pop_back, Shows

LEMMA EraseShows ==
    ASSUME NEW v, IsVector(v), NEW n \in 0 .. v.size - 1
    PROVE  Shows(vector_erase(v, n, FALSE), vector_erase(v, n, TRUE))
<1>1. /\ v.size \in Nat /\ v.capacity \in Nat /\ v.size <= v.capacity
      /\ v.data \in [0 .. v.capacity - 1 -> Element \cup {Junk}]
      /\ n \in Nat /\ n < v.size
  BY DEF IsVector
<1> DEFINE d == _vector_move_left(v, n)
<1>2. d = [i \in 0 .. v.capacity - 1 |->
             IF n <= i /\ i < v.size - 1 THEN v.data[i + 1] ELSE v.data[i]]
  BY <1>1 DEF _vector_move_left
<1>3. \A i \in 0 .. v.capacity - 1 :
        (IF n <= i /\ i < v.size - 1 THEN v.data[i + 1] ELSE v.data[i]) \in Element \cup {Junk}
  BY <1>1
<1>4. d \in [0 .. v.capacity - 1 -> Element \cup {Junk}]
  BY <1>2, <1>3
<1> HIDE DEF d
<1>5. IsVector(With(v, v.size - 1, d))
  BY <1>1, <1>4, WithVector
<1> QED BY <1>5, AdjustShows DEF vector_erase, Shows, d

LEMMA ReserveShows ==
    ASSUME NEW v, IsVector(v), NEW n
    PROVE  Shows(vector_reserve(v, n, FALSE), vector_reserve(v, n, TRUE))
BY ReallocationShows DEF vector_reserve, Shows

LEMMA ShrinkToFitShows ==
    ASSUME NEW v, IsVector(v)
    PROVE  Shows(vector_shrink_to_fit(v, FALSE), vector_shrink_to_fit(v, TRUE))
BY ReallocationShows DEF vector_shrink_to_fit

LEMMA ResizeShows ==
    ASSUME NEW v, IsVector(v), NEW n \in Nat
    PROVE  Shows(vector_resize(v, n, FALSE), vector_resize(v, n, TRUE))
<1>1. /\ v.size \in Nat /\ v.capacity \in Nat /\ v.size <= v.capacity
      /\ v.data \in [0 .. v.capacity - 1 -> Element \cup {Junk}]
  BY DEF IsVector
<1> DEFINE Sized(w) == IF w.live THEN With(w, n, w.data) ELSE w
           cut == n <= v.capacity * VECTOR_SHRINK_THRESHOLD
           old == IF cut THEN With(v, n, v.data) ELSE v
           f == IF cut \/ n > v.capacity
                THEN _vector_reallocate(old, n * VECTOR_GROWTH_FACTOR, FALSE) ELSE old
           s == IF cut \/ n > v.capacity
                THEN _vector_reallocate(old, n * VECTOR_GROWTH_FACTOR, TRUE) ELSE old
<1>2. IsVector(old)
  <2>1. cut => n <= v.capacity
    BY <1>1, Constants
  <2> QED BY <1>1, <2>1, WithVector
<1>3. vector_resize(v, n, FALSE) = Sized(f)
  BY DEF vector_resize
<1>4. vector_resize(v, n, TRUE) = Sized(s)
  BY DEF vector_resize
<1> HIDE DEF old
<1>5. Shows(f, s)
  BY <1>2, ReallocationShows DEF Shows
<1> HIDE DEF f, s
<1>6. CASE f = s
  <2>1. vector_resize(v, n, FALSE) = vector_resize(v, n, TRUE)
    <3> HIDE DEF Sized
    <3> QED BY <1>3, <1>4, <1>6
  <2> QED BY <2>1 DEF Shows
<1>7. CASE f.live = FALSE
  <2>1. vector_resize(v, n, FALSE) = f
    BY <1>3, <1>7
  <2> QED BY <1>7, <2>1 DEF Shows
<1> QED BY <1>5, <1>6, <1>7 DEF Shows

LEMMA CopyShows ==
    ASSUME NEW v
    PROVE  Shows(vector_copy(v, FALSE), vector_copy(v, TRUE))
BY DEF vector_copy, Moved, Shows

(***************************************************************************)
(* A failing allocation shows: an operation whose allocation fails has the *)
(* same result as if it had not needed one, or leaves no memory, whatever  *)
(* the vector was.                                                         *)
(***************************************************************************)
THEOREM FailureShows ==
    ASSUME NEW v, IsVector(v), NEW e \in Element, NEW n \in Nat
    PROVE  /\ Shows(vector_push_back(v, e, FALSE), vector_push_back(v, e, TRUE))
           /\ Shows(vector_insert(v, n, e, FALSE), vector_insert(v, n, e, TRUE))
           /\ v.size > 0 => Shows(vector_pop_back(v, FALSE), vector_pop_back(v, TRUE))
           /\ n < v.size => Shows(vector_erase(v, n, FALSE), vector_erase(v, n, TRUE))
           /\ Shows(vector_reserve(v, n, FALSE), vector_reserve(v, n, TRUE))
           /\ Shows(vector_shrink_to_fit(v, FALSE), vector_shrink_to_fit(v, TRUE))
           /\ Shows(vector_resize(v, n, FALSE), vector_resize(v, n, TRUE))
           /\ Shows(vector_copy(v, FALSE), vector_copy(v, TRUE))
<1>1. n < v.size => n \in 0 .. v.size - 1
  BY DEF IsVector
<1> QED
  BY <1>1, PushShows, InsertShows, PopShows, EraseShows, ReserveShows,
     ShrinkToFitShows,
     ResizeShows, CopyShows

=============================================================================
