---------------------------- MODULE EpollProofs ----------------------------
(***************************************************************************)
(* Proofs about Epoll, for any finite set of descriptors, any interests    *)
(* and any way the descriptors are divided between TSSX and the kernel.    *)
(*                                                                         *)
(* The instance is a field and a vector; the first half of the module      *)
(* says what each operation on the two does to the list they make up, with *)
(* the theorems of VectorProofs, and only then looks at the steps.         *)
(***************************************************************************)
EXTENDS EpollInv, VectorProofs, FiniteSetTheorems, FunctionTheorems,
        WellFoundedInduction

-----------------------------------------------------------------------------
(***************************************************************************)
(* The list of an instance with n entries, the first in f, the others in v *)
(***************************************************************************)
ListOf(n, f, v) == IF n = 0 THEN <<>>
                   ELSE IF n = 1 THEN <<f>>
                   ELSE <<f>> \o Contents(v)

\* The field and the vector are in order for n entries.
Shape(n, f, v) ==
    /\ n \in Nat
    /\ n > 0 => f \in Entry
    /\ n > 1 => v.live
    /\ v.live \in BOOLEAN
    /\ v.live => /\ IsVector(v)
                 /\ v.size = IF n = 0 THEN 0 ELSE n - 1
                 /\ \A k \in 0 .. v.size - 1 : v.data[k] \in Entry

(* What a list in order looks like.                                        *)
LEMMA ListAt ==
    ASSUME NEW n, NEW f, NEW v, Shape(n, f, v)
    PROVE  LET s == ListOf(n, f, v)
           IN  /\ s \in Seq(Entry) /\ Len(s) = n /\ DOMAIN s = 1 .. n
               /\ n > 0 => s[1] = f
               /\ \A k \in 0 .. n - 2 : s[k + 2] = v.data[k]
<1> DEFINE s == ListOf(n, f, v)
<1>1. n \in Nat
  BY DEF Shape
<1>2. CASE n = 0
  BY <1>2 DEF ListOf
<1>3. CASE n = 1
  BY <1>3 DEF ListOf, Shape
<1>4. CASE n > 1
  <2> DEFINE c == Contents(v)
  <2>1. /\ IsVector(v) /\ v.size = n - 1 /\ f \in Entry
        /\ \A k \in 0 .. v.size - 1 : v.data[k] \in Entry
    BY <1>1, <1>4 DEF Shape
  <2>2. /\ c \in Seq(Element \cup {Junk}) /\ Len(c) = n - 1
        /\ \A i \in 1 .. n - 1 : c[i] = v.data[i - 1]
    BY <2>1, ContentsSeq
  <2>3. s = <<f>> \o c
    BY <1>1, <1>4 DEF ListOf
  <2> HIDE DEF c, s
  <2>4. \A i \in 1 .. n - 1 : c[i] \in Entry
    <3> TAKE i \in 1 .. n - 1
    <3>1. i - 1 \in 0 .. v.size - 1
      BY <1>1, <2>1
    <3> QED BY <2>1, <2>2, <3>1
  <2>5. c \in Seq(Entry)
    BY <2>2, <2>4
  <2>6. /\ s \in Seq(Entry) /\ Len(s) = n
        /\ s[1] = f /\ \A i \in 2 .. n : s[i] = c[i - 1]
    BY <1>1, <1>4, <2>1, <2>2, <2>3, <2>5
  <2>7. \A k \in 0 .. n - 2 : s[k + 2] = v.data[k]
    <3> TAKE k \in 0 .. n - 2
    <3>1. k + 2 \in 2 .. n /\ k + 1 \in 1 .. n - 1
      BY <1>1
    <3> QED BY <3>1, <2>2, <2>6
  <2> QED BY <2>6, <2>7 DEF s
<1> QED BY <1>1, <1>2, <1>3, <1>4

(* Two lists with the same elements are equal.                             *)
LEMMA ListIs ==
    ASSUME NEW n, NEW f, NEW v, Shape(n, f, v), NEW t \in Seq(Entry), Len(t) = n,
           n > 0 => t[1] = f,
           \A k \in 0 .. n - 2 : t[k + 2] = v.data[k]
    PROVE  ListOf(n, f, v) = t
<1> DEFINE s == ListOf(n, f, v)
<1>1. /\ s \in Seq(Entry) /\ Len(s) = n
      /\ n > 0 => s[1] = f
      /\ \A k \in 0 .. n - 2 : s[k + 2] = v.data[k]
  BY ListAt
<1>2. n \in Nat
  BY DEF Shape
<1> HIDE DEF s
<1>3. \A i \in 1 .. n : s[i] = t[i]
  <2> SUFFICES ASSUME NEW i \in 1 .. n PROVE s[i] = t[i]
    OBVIOUS
  <2>1. CASE i = 1
    BY <1>1, <2>1
  <2>2. CASE i > 1
    <3>1. i - 2 \in 0 .. n - 2 /\ i = (i - 2) + 2
      BY <1>2, <2>2
    <3> QED BY <1>1, <3>1
  <2> QED BY <2>1, <2>2
<1>4. s = t
  BY <1>1, <1>3, SeqEqual
<1> QED BY <1>4 DEF s

(* A vector that was just set up is empty and well formed.                 *)
LEMMA SetupIsVector ==
    ASSUME NEW c \in Nat
    PROVE  IsVector(vector_setup(c, TRUE)) /\ vector_setup(c, TRUE).size = 0
<1> DEFINE m == MAX(VECTOR_MINIMUM_CAPACITY, c)
           d == [i \in 0 .. m - 1 |-> Junk]
           v == vector_setup(c, TRUE)
<1>1. m \in Nat /\ 2 <= m
  BY Constants DEF MAX
<1>2. /\ v.size = 0 /\ v.capacity = m /\ v.live = TRUE /\ v.data = d
      /\ v = [size |-> v.size, capacity |-> v.capacity, live |-> v.live, data |-> v.data]
  BY DEF vector_setup
<1>3. d \in [0 .. m - 1 -> Element \cup {Junk}]
  OBVIOUS
<1> HIDE DEF m, d, v
<1>4. IsVector(v)
  BY <1>1, <1>2, <1>3, Constants DEF IsVector
<1> QED BY <1>2, <1>4 DEF v

(* The cells of a vector whose contents are known                          *)
LEMMA CellsOf ==
    ASSUME NEW p, IsVector(p), NEW s, Contents(p) = s
    PROVE  /\ p.size = Len(s) /\ p.live = TRUE
           /\ \A k \in 0 .. p.size - 1 : p.data[k] = s[k + 1]
<1>1. /\ p.size \in Nat /\ Len(Contents(p)) = p.size
      /\ \A i \in 1 .. p.size : Contents(p)[i] = p.data[i - 1]
  BY ContentsSeq
<1>2. \A k \in 0 .. p.size - 1 : p.data[k] = s[k + 1]
  <2> TAKE k \in 0 .. p.size - 1
  <2>1. k + 1 \in 1 .. p.size /\ (k + 1) - 1 = k
    BY <1>1
  <2> QED BY <1>1, <2>1
<1> QED BY <1>1, <1>2 DEF IsVector

(***************************************************************************)
(* _epoll_add_to_instance appends the entry.                               *)
(***************************************************************************)
LEMMA AddFirst ==
    ASSUME NEW f, NEW v, Shape(0, f, v), NEW e \in Entry
    PROVE  Shape(1, e, v) /\ ListOf(1, e, v) = <<e>>
BY DEF Shape, ListOf

\* The vector gets the entry, and is set up for the second one.
Base(n, v) == IF n = 1 THEN vector_setup(INITIAL_INSTANCE_CAPACITY, TRUE) ELSE v

Pushed(n, v, e) == vector_push_back(Base(n, v), e, TRUE)

LEMMA AddMore ==
    ASSUME NEW n, NEW f, NEW v, Shape(n, f, v), n > 0, NEW e \in Entry
    PROVE  /\ Shape(n + 1, f, Pushed(n, v, e))
           /\ ListOf(n + 1, f, Pushed(n, v, e)) = Append(ListOf(n, f, v), e)
<1> DEFINE b == Base(n, v)
           p == vector_push_back(b, e, TRUE)
           s == ListOf(n, f, v)
           t == Append(s, e)
<1>1. n \in Nat /\ f \in Entry /\ e \in Element
  BY EntryAssumption DEF Shape
<1>2. /\ IsVector(b) /\ b.size = n - 1
      /\ \A k \in 0 .. b.size - 1 : b.data[k] \in Entry
  <2>1. CASE n = 1
    <3>1. b = vector_setup(INITIAL_INSTANCE_CAPACITY, TRUE)
      BY <2>1 DEF Base
    <3>2. IsVector(b) /\ b.size = 0
      BY <3>1, SetupIsVector, CapacityAssumption, Zenon
    <3> HIDE DEF b
    <3> QED BY <2>1, <3>2
  <2>2. CASE n # 1
    BY <1>1, <2>2 DEF Shape, Base
  <2> QED BY <2>1, <2>2
<1>a. n # 1 => b = v
  BY DEF Base
<1>3. IsVector(p) /\ Contents(p) = Append(Contents(b), e)
  BY <1>1, <1>2, PushBackAppends
<1>4. /\ s \in Seq(Entry) /\ Len(s) = n /\ s[1] = f
      /\ \A k \in 0 .. n - 2 : s[k + 2] = v.data[k]
  BY ListAt
<1> HIDE DEF p, s, b
<1>5. /\ p.size = n
      /\ \A k \in 0 .. n - 2 : p.data[k] = b.data[k]
      /\ p.data[n - 1] = e
  <2> DEFINE c == Contents(b)
  <2>1. /\ c \in Seq(Element \cup {Junk}) /\ Len(c) = n - 1
        /\ \A k \in 0 .. n - 2 : b.data[k] = c[k + 1]
    <3>1. c \in Seq(Element \cup {Junk}) /\ Len(c) = n - 1
      BY <1>2, ContentsSeq
    <3>2. \A k \in 0 .. b.size - 1 : b.data[k] = c[k + 1]
      BY <1>2, CellsOf
    <3> QED BY <1>1, <1>2, <3>1, <3>2
  <2>2. /\ p.size = Len(Append(c, e))
        /\ \A k \in 0 .. p.size - 1 : p.data[k] = Append(c, e)[k + 1]
    BY <1>3, CellsOf
  <2> HIDE DEF c
  <2>3. p.size = n
    BY <1>1, <2>1, <2>2
  <2>4. \A k \in 0 .. n - 2 : p.data[k] = b.data[k]
    <3> TAKE k \in 0 .. n - 2
    <3>1. k + 1 \in 1 .. n - 1 /\ k \in 0 .. p.size - 1
      BY <1>1, <2>3
    <3>2. Append(c, e)[k + 1] = c[k + 1]
      BY <1>1, <2>1, <3>1
    <3> QED BY <2>1, <2>2, <3>1, <3>2
  <2>5. p.data[n - 1] = e
    <3>1. Append(c, e)[n] = e /\ n - 1 \in 0 .. p.size - 1 /\ (n - 1) + 1 = n
      BY <1>1, <2>1, <2>3
    <3> QED BY <2>2, <3>1
  <2> QED BY <2>3, <2>4, <2>5
<1>6. p.live = TRUE
  BY <1>3 DEF IsVector
<1>7. Shape(n + 1, f, p)
  <2>1. \A k \in 0 .. p.size - 1 : p.data[k] \in Entry
    BY <1>1, <1>2, <1>5
  <2>2. p.live \in BOOLEAN /\ p.live
    BY <1>6, Zenon
  <2>3. n + 1 \in Nat /\ n + 1 > 1 /\ p.size = (n + 1) - 1 /\ n + 1 # 0
    BY <1>1, <1>5
  <2> QED BY <1>1, <1>3, <2>1, <2>2, <2>3 DEF Shape
<1>8. t \in Seq(Entry) /\ Len(t) = n + 1 /\ t[1] = f /\ t[n + 1] = e
  BY <1>1, <1>4
<1>9. \A k \in 0 .. n - 1 : t[k + 2] = p.data[k]
  <2> TAKE k \in 0 .. n - 1
  <2>1. CASE k = n - 1
    BY <1>1, <1>5, <1>8, <2>1
  <2>2. CASE k # n - 1
    <3>1. k \in 0 .. n - 2 /\ n # 1
      BY <1>1, <2>2
    <3>2. t[k + 2] = s[k + 2]
      BY <1>1, <1>4, <3>1
    <3> QED BY <1>4, <1>5, <1>a, <3>1, <3>2
  <2> QED BY <2>1, <2>2
<1>10. (n + 1) - 2 = n - 1
  BY <1>1
<1> HIDE DEF t
<1>11. ListOf(n + 1, f, p) = t
  BY <1>7, <1>8, <1>9, <1>10, ListIs
<1> QED BY <1>7, <1>11 DEF b, p, s, t, Pushed

(***************************************************************************)
(* _epoll_update_instance replaces one entry.                              *)
(***************************************************************************)
LEMMA UpdateFirst ==
    ASSUME NEW n, NEW f, NEW v, Shape(n, f, v), n > 0, NEW e \in Entry
    PROVE  /\ Shape(n, e, v)
           /\ ListOf(n, e, v) = [ListOf(n, f, v) EXCEPT ![1] = e]
<1> DEFINE s == ListOf(n, f, v)
           t == [s EXCEPT ![1] = e]
<1>1. Shape(n, e, v) /\ n \in Nat
  BY DEF Shape
<1>2. /\ s \in Seq(Entry) /\ Len(s) = n
      /\ \A k \in 0 .. n - 2 : s[k + 2] = v.data[k]
  BY ListAt
<1> HIDE DEF s
<1>3. /\ t \in Seq(Entry) /\ Len(t) = n /\ t[1] = e
      /\ \A i \in 2 .. n : t[i] = s[i]
  BY <1>1, <1>2
<1>4. \A k \in 0 .. n - 2 : t[k + 2] = v.data[k]
  <2> TAKE k \in 0 .. n - 2
  <2>1. k + 2 \in 2 .. n
    BY <1>1
  <2> QED BY <1>2, <1>3, <2>1
<1> HIDE DEF t
<1>5. ListOf(n, e, v) = t
  BY <1>1, <1>3, <1>4, ListIs
<1> QED BY <1>1, <1>5 DEF s, t

LEMMA UpdateOther ==
    ASSUME NEW n, NEW f, NEW v, Shape(n, f, v), NEW j \in 0 .. n - 2, NEW e \in Entry
    PROVE  /\ Shape(n, f, vector_assign(v, j, e))
           /\ ListOf(n, f, vector_assign(v, j, e)) = [ListOf(n, f, v) EXCEPT ![j + 2] = e]
<1> DEFINE s == ListOf(n, f, v)
           t == [s EXCEPT ![j + 2] = e]
           d == [v.data EXCEPT ![j] = e]
           p == vector_assign(v, j, e)
<1>1. /\ n \in Nat /\ n > 1 /\ f \in Entry /\ e \in Element
      /\ v.size = n - 1 /\ IsVector(v)
      /\ \A k \in 0 .. v.size - 1 : v.data[k] \in Entry
  BY EntryAssumption DEF Shape
<1>2. /\ v.capacity \in Nat /\ v.size <= v.capacity
      /\ v.data \in [0 .. v.capacity - 1 -> Element \cup {Junk}]
  BY <1>1 DEF IsVector
<1>3. /\ d \in [0 .. v.capacity - 1 -> Element \cup {Junk}]
      /\ d[j] = e /\ \A k \in 0 .. n - 2 : k # j => d[k] = v.data[k]
  BY <1>1, <1>2
<1>4. /\ s \in Seq(Entry) /\ Len(s) = n /\ s[1] = f
      /\ \A k \in 0 .. n - 2 : s[k + 2] = v.data[k]
  BY <1>1, ListAt
<1> HIDE DEF s, d
<1>5. p = With(v, n - 1, d)
  BY <1>1 DEF vector_assign, d
<1>6. IsVector(p) /\ p.size = n - 1 /\ p.data = d
  BY <1>1, <1>2, <1>3, <1>5, WithVector
<1> HIDE DEF p
<1>7. Shape(n, f, p)
  <2>1. p.live \in BOOLEAN /\ p.live
    BY <1>6, Zenon DEF IsVector
  <2>2. \A k \in 0 .. p.size - 1 : p.data[k] \in Entry
    BY <1>1, <1>3, <1>6
  <2> QED BY <1>1, <1>6, <2>1, <2>2 DEF Shape
<1>8. /\ t \in Seq(Entry) /\ Len(t) = n /\ t[1] = f /\ t[j + 2] = e
      /\ \A i \in 2 .. n : i # j + 2 => t[i] = s[i]
  BY <1>1, <1>4
<1>9. \A k \in 0 .. n - 2 : t[k + 2] = p.data[k]
  <2> TAKE k \in 0 .. n - 2
  <2>1. k + 2 \in 2 .. n /\ (k + 2 = j + 2 <=> k = j)
    BY <1>1
  <2> QED BY <1>3, <1>4, <1>6, <1>8, <2>1
<1> HIDE DEF t
<1>10. ListOf(n, f, p) = t
  BY <1>7, <1>8, <1>9, ListIs
<1> QED BY <1>7, <1>10 DEF p, s, t

(***************************************************************************)
(* _epoll_erase_from_instance: the last entry takes the place of the       *)
(* first, the others move up.                                              *)
(***************************************************************************)
LEMMA RemoveOnly ==
    ASSUME NEW f, NEW v, Shape(1, f, v)
    PROVE  Shape(0, f, v) /\ ListOf(0, f, v) = <<>>
BY DEF Shape, ListOf

Popped(v) == vector_pop_back(v, TRUE)

Erased(v, j) == vector_erase(v, j, TRUE)

LEMMA RemoveFirst ==
    ASSUME NEW n, NEW f, NEW v, Shape(n, f, v), n > 1
    PROVE  LET s == ListOf(n, f, v)
           IN  /\ Shape(n - 1, vector_back(v), Popped(v))
               /\ ListOf(n - 1, vector_back(v), Popped(v))
                    = [i \in 1 .. n - 1 |-> IF i = 1 THEN s[n] ELSE s[i]]
<1> DEFINE s == ListOf(n, f, v)
           p == vector_pop_back(v, TRUE)
           c == Contents(v)
           e == vector_back(v)
           t == [i \in 1 .. n - 1 |-> IF i = 1 THEN s[n] ELSE s[i]]
<1>1. /\ n \in Nat /\ v.size = n - 1 /\ v.size > 0 /\ IsVector(v)
      /\ \A k \in 0 .. n - 2 : v.data[k] \in Entry
  BY DEF Shape
<1>2. /\ s \in Seq(Entry) /\ Len(s) = n
      /\ \A k \in 0 .. n - 2 : s[k + 2] = v.data[k]
  BY ListAt
<1>3. IsVector(p) /\ Contents(p) = SubSeq(c, 1, n - 2)
  <2>1. IsVector(p) /\ Contents(p) = SubSeq(c, 1, v.size - 1)
    BY <1>1, PopBackDropsLast
  <2>2. v.size - 1 = n - 2
    BY <1>1
  <2> QED BY <2>1, <2>2
<1>4. /\ c \in Seq(Element \cup {Junk}) /\ Len(c) = n - 1
      /\ \A k \in 0 .. n - 2 : v.data[k] = c[k + 1]
  <2>1. c \in Seq(Element \cup {Junk}) /\ Len(c) = n - 1
    BY <1>1, ContentsSeq
  <2>2. \A k \in 0 .. v.size - 1 : v.data[k] = c[k + 1]
    BY <1>1, CellsOf
  <2> QED BY <1>1, <2>1, <2>2
<1>5. /\ p.size = Len(SubSeq(c, 1, n - 2)) /\ p.live = TRUE
      /\ \A k \in 0 .. p.size - 1 : p.data[k] = SubSeq(c, 1, n - 2)[k + 1]
  BY <1>3, CellsOf
<1>6. e = v.data[n - 2]
  BY <1>1 DEF vector_back, vector_get
<1> HIDE DEF s, p, c, e
<1>7. p.size = n - 2 /\ \A k \in 0 .. n - 3 : p.data[k] = v.data[k]
  <2>1. p.size = n - 2
    BY <1>1, <1>4, <1>5
  <2>2. ASSUME NEW k \in 0 .. n - 3 PROVE p.data[k] = v.data[k]
    <3>1. k + 1 \in 1 .. n - 2 /\ k \in 0 .. n - 2 /\ k \in 0 .. p.size - 1
      BY <1>1, <2>1
    <3>2. SubSeq(c, 1, n - 2)[k + 1] = c[k + 1]
      BY <1>1, <1>4, <3>1
    <3> QED BY <1>4, <1>5, <3>1, <3>2
  <2> QED BY <2>1, <2>2
<1>8. Shape(n - 1, e, p)
  <2>1. p.live \in BOOLEAN /\ p.live
    BY <1>5, Zenon
  <2>2. \A k \in 0 .. p.size - 1 : p.data[k] \in Entry
    BY <1>1, <1>7
  <2>3. e \in Entry
    BY <1>1, <1>6
  <2>4. n - 1 \in Nat /\ n - 1 # 0 /\ p.size = (n - 1) - 1
    BY <1>1, <1>7
  <2> QED BY <1>3, <2>1, <2>2, <2>3, <2>4 DEF Shape
<1>9. /\ \A i \in 1 .. n : s[i] \in Entry
      /\ s[n] = e
  <2>1. n - 2 \in 0 .. n - 2 /\ (n - 2) + 2 = n
    BY <1>1
  <2> QED BY <1>1, <1>2, <1>6, <2>1
<1>10. /\ t \in Seq(Entry) /\ Len(t) = n - 1 /\ t[1] = e
       /\ \A i \in 2 .. n - 1 : t[i] = s[i]
  BY <1>1, <1>9
<1>11. \A k \in 0 .. (n - 1) - 2 : t[k + 2] = p.data[k]
  <2> TAKE k \in 0 .. (n - 1) - 2
  <2>1. k + 2 \in 2 .. n - 1 /\ k \in 0 .. n - 3 /\ k \in 0 .. n - 2
    BY <1>1
  <2> QED BY <1>2, <1>7, <1>10, <2>1
<1> HIDE DEF t
<1>12. ListOf(n - 1, e, p) = t
  BY <1>8, <1>10, <1>11, ListIs
<1> QED BY <1>8, <1>12 DEF s, p, e, t, Popped

LEMMA RemoveOther ==
    ASSUME NEW n, NEW f, NEW v, Shape(n, f, v), NEW j \in 0 .. n - 2
    PROVE  LET s == ListOf(n, f, v)
           IN  /\ Shape(n - 1, f, Erased(v, j))
               /\ ListOf(n - 1, f, Erased(v, j))
                    = [i \in 1 .. n - 1 |-> IF i < j + 2 THEN s[i] ELSE s[i + 1]]
<1> DEFINE s == ListOf(n, f, v)
           p == vector_erase(v, j, TRUE)
           c == Contents(v)
           l == SubSeq(c, 1, j)
           r == SubSeq(c, j + 2, n - 1)
           t == [i \in 1 .. n - 1 |-> IF i < j + 2 THEN s[i] ELSE s[i + 1]]
<1>1. /\ n \in Nat /\ n > 1 /\ f \in Entry /\ v.size = n - 1 /\ IsVector(v)
      /\ \A k \in 0 .. n - 2 : v.data[k] \in Entry
      /\ j \in 0 .. v.size - 1
  BY DEF Shape
<1>2. /\ s \in Seq(Entry) /\ Len(s) = n /\ s[1] = f
      /\ \A k \in 0 .. n - 2 : s[k + 2] = v.data[k]
  BY <1>1, ListAt
<1>3. IsVector(p) /\ Contents(p) = l \o r
  BY <1>1, EraseDropsOne
<1>4. /\ c \in Seq(Element \cup {Junk}) /\ Len(c) = n - 1
      /\ \A k \in 0 .. n - 2 : v.data[k] = c[k + 1]
  <2>1. c \in Seq(Element \cup {Junk}) /\ Len(c) = n - 1
    BY <1>1, ContentsSeq
  <2>2. \A k \in 0 .. v.size - 1 : v.data[k] = c[k + 1]
    BY <1>1, CellsOf
  <2> QED BY <1>1, <2>1, <2>2
<1>5. /\ p.size = Len(l \o r) /\ p.live = TRUE
      /\ \A k \in 0 .. p.size - 1 : p.data[k] = (l \o r)[k + 1]
  BY <1>3, CellsOf
<1> HIDE DEF s, p, c
<1>6. /\ l \in Seq(Element \cup {Junk}) /\ Len(l) = j
      /\ r \in Seq(Element \cup {Junk}) /\ Len(r) = n - 2 - j
      /\ \A i \in 1 .. j : l[i] = c[i]
      /\ \A i \in 1 .. n - 2 - j : r[i] = c[j + 1 + i]
  BY <1>1, <1>4
<1> HIDE DEF l, r
<1>7. /\ p.size = n - 2
      /\ \A k \in 0 .. n - 3 : p.data[k] = IF k < j THEN v.data[k] ELSE v.data[k + 1]
  <2>1. p.size = n - 2
    <3>1. Len(l \o r) = Len(l) + Len(r)
      <4>1. l \in Seq(Element \cup {Junk}) /\ r \in Seq(Element \cup {Junk})
        BY <1>6
      <4> QED BY <4>1, ConcatProperties
    <3> QED BY <1>1, <1>5, <1>6, <3>1
  <2>2. ASSUME NEW k \in 0 .. n - 3, k < j PROVE p.data[k] = v.data[k]
    <3>1. k + 1 \in 1 .. j /\ k \in 0 .. n - 2 /\ k \in 0 .. p.size - 1
      BY <1>1, <2>1, <2>2
    <3>2. (l \o r)[k + 1] = l[k + 1]
      BY <1>1, <1>6, <3>1
    <3> QED BY <1>4, <1>5, <1>6, <3>1, <3>2
  <2>3. ASSUME NEW k \in 0 .. n - 3, ~(k < j) PROVE p.data[k] = v.data[k + 1]
    <3>1. /\ k + 1 - j \in 1 .. n - 2 - j /\ k + 1 \in 0 .. n - 2
          /\ k \in 0 .. p.size - 1 /\ j + 1 + (k + 1 - j) = (k + 1) + 1
      BY <1>1, <2>1, <2>3
    <3>2. (l \o r)[k + 1] = r[k + 1 - j]
      BY <1>1, <1>6, <2>3
    <3> QED BY <1>4, <1>5, <1>6, <3>1, <3>2
  <2> QED BY <2>1, <2>2, <2>3
<1>8. Shape(n - 1, f, p)
  <2>1. p.live \in BOOLEAN /\ p.live
    BY <1>5, Zenon
  <2>2. \A k \in 0 .. p.size - 1 : p.data[k] \in Entry
    BY <1>1, <1>7
  <2>4. n - 1 \in Nat /\ n - 1 # 0 /\ p.size = (n - 1) - 1
    BY <1>1, <1>7
  <2> QED BY <1>1, <1>3, <2>1, <2>2, <2>4 DEF Shape
<1>9. /\ t \in Seq(Entry) /\ Len(t) = n - 1
      /\ \A i \in 1 .. n - 1 : t[i] = IF i < j + 2 THEN s[i] ELSE s[i + 1]
  BY <1>1, <1>2
<1>10. t[1] = f
  BY <1>1, <1>2, <1>9
<1> HIDE DEF t
<1>11. \A k \in 0 .. (n - 1) - 2 : t[k + 2] = p.data[k]
  <2> TAKE k \in 0 .. (n - 1) - 2
  <2>1. k + 2 \in 1 .. n - 1 /\ k \in 0 .. n - 3
    BY <1>1
  <2>2. k \in 0 .. n - 2 /\ k + 1 \in 0 .. n - 2 /\ (k + 1) + 2 = (k + 2) + 1
    BY <1>1
  <2>3. k + 2 < j + 2 <=> k < j
    BY <1>1
  <2> QED BY <1>2, <1>7, <1>9, <2>1, <2>2, <2>3
<1>12. ListOf(n - 1, f, p) = t
  BY <1>8, <1>9, <1>10, <1>11, ListIs
<1> QED BY <1>8, <1>12 DEF s, p, t, Erased

(***************************************************************************)
(* A scan writes the entries where they are.                               *)
(***************************************************************************)
LEMMA Rewritten ==
    ASSUME NEW n, NEW f, NEW v, Shape(n, f, v), n > 0,
           NEW g \in Seq(Entry), Len(g) = n
    PROVE  LET p == IF n = 1 THEN v
                    ELSE With(v, v.size, [k \in DOMAIN v.data |->
                             IF k < v.size THEN g[k + 2] ELSE v.data[k]])
           IN  Shape(n, g[1], p) /\ ListOf(n, g[1], p) = g
<1> DEFINE d == [k \in DOMAIN v.data |-> IF k < v.size THEN g[k + 2] ELSE v.data[k]]
           q == With(v, v.size, d)
           p == IF n = 1 THEN v ELSE q
<1>1. n \in Nat /\ g[1] \in Entry
  BY DEF Shape
<1>2. CASE n = 1
  <2>1. Shape(1, g[1], v)
    BY <1>1, <1>2 DEF Shape
  <2>2. ListOf(1, g[1], v) = <<g[1]>> /\ g = <<g[1]>>
    BY <1>2 DEF ListOf
  <2> QED BY <1>2, <2>1, <2>2
<1>3. CASE n > 1
  <2>1. v.size = n - 1 /\ IsVector(v)
    BY <1>1, <1>3 DEF Shape
  <2>2. /\ v.capacity \in Nat /\ v.size <= v.capacity
        /\ v.data \in [0 .. v.capacity - 1 -> Element \cup {Junk}]
    BY <2>1 DEF IsVector
  <2>3. \A k \in 0 .. n - 2 : g[k + 2] \in Entry
    BY <1>1
  <2>4. /\ d \in [0 .. v.capacity - 1 -> Element \cup {Junk}]
        /\ \A k \in 0 .. n - 2 : d[k] = g[k + 2]
    BY <1>1, <2>1, <2>2, <2>3, EntryAssumption
  <2> HIDE DEF d
  <2>5. IsVector(q) /\ q.size = n - 1 /\ q.data = d
    BY <1>1, <1>3, <2>1, <2>2, <2>4, WithVector
  <2> HIDE DEF q
  <2>6. q.live \in BOOLEAN /\ q.live
    BY <2>5, Zenon DEF IsVector
  <2>7. Shape(n, g[1], q)
    BY <1>1, <1>3, <2>3, <2>4, <2>5, <2>6 DEF Shape
  <2>8. ListOf(n, g[1], q) = g
    <3>1. \A k \in 0 .. n - 2 : g[k + 2] = q.data[k]
      BY <2>4, <2>5
    <3> DEFINE h == g[1]
    <3>2. Shape(n, h, q) /\ h = g[1]
      BY <2>7
    <3> HIDE DEF h
    <3>3. ListOf(n, h, q) = g
      BY <3>1, <3>2, ListIs
    <3> QED BY <3>2, <3>3
  <2> QED BY <1>3, <2>7, <2>8 DEF q, d
<1> QED BY <1>1, <1>2, <1>3

-----------------------------------------------------------------------------
(***************************************************************************)
(* The interest list a list of entries stands for: a function on the       *)
(* descriptors, when none of them has two entries.                         *)
(***************************************************************************)
AsFn(s) ==
    [fd \in {s[i].fd : i \in DOMAIN s} |->
        LET e == s[CHOOSE i \in DOMAIN s : s[i].fd = fd]
        IN  [events |-> e.events, enabled |-> e.enabled]]

Registration(e) == [events |-> e.events, enabled |-> e.enabled]

NoDup(s) == \A i, j \in DOMAIN s : s[i].fd = s[j].fd => i = j

(* Each entry gives the value at its descriptor.                           *)
LEMMA FnAt ==
    ASSUME NEW s, NoDup(s)
    PROVE  /\ DOMAIN AsFn(s) = {s[i].fd : i \in DOMAIN s}
           /\ \A i \in DOMAIN s : AsFn(s)[s[i].fd] = Registration(s[i])
<1>1. DOMAIN AsFn(s) = {s[i].fd : i \in DOMAIN s}
  BY DEF AsFn
<1>2. ASSUME NEW i \in DOMAIN s
      PROVE  AsFn(s)[s[i].fd] = Registration(s[i])
  <2> DEFINE c == CHOOSE j \in DOMAIN s : s[j].fd = s[i].fd
  <2>1. c \in DOMAIN s /\ s[c].fd = s[i].fd
    OBVIOUS
  <2>2. c = i
    BY <2>1 DEF NoDup
  <2>3. AsFn(s)[s[i].fd] = Registration(s[c])
    BY DEF AsFn, Registration
  <2> QED BY <2>2, <2>3
<1> QED BY <1>1, <1>2

(* A function that has these values is the one.                            *)
LEMMA FnIs ==
    ASSUME NEW s, NoDup(s), NEW g, g = [x \in DOMAIN g |-> g[x]],
           DOMAIN g = {s[i].fd : i \in DOMAIN s},
           \A i \in DOMAIN s : g[s[i].fd] = Registration(s[i])
    PROVE  AsFn(s) = g
<1>1. DOMAIN AsFn(s) = DOMAIN g
  BY DEF AsFn
<1>2. ASSUME NEW x \in DOMAIN g
      PROVE  AsFn(s)[x] = g[x]
  <2>1. PICK i \in DOMAIN s : x = s[i].fd
    OBVIOUS
  <2>2. AsFn(s)[s[i].fd] = Registration(s[i])
    BY FnAt
  <2> QED BY <2>1, <2>2
<1>3. AsFn(s) = [x \in DOMAIN AsFn(s) |-> AsFn(s)[x]]
  BY DEF AsFn
<1> QED BY <1>1, <1>2, <1>3

(* Appending an entry of a new descriptor adds it.                         *)
LEMMA AppendFn ==
    ASSUME NEW s \in Seq(Entry), NoDup(s), NEW e \in Entry,
           \A i \in DOMAIN s : s[i].fd # e.fd
    PROVE  LET t == Append(s, e)
           IN  /\ NoDup(t)
               /\ AsFn(t) = [f \in DOMAIN AsFn(s) \cup {e.fd} |->
                                IF f = e.fd THEN Registration(e) ELSE AsFn(s)[f]]
<1> DEFINE t == Append(s, e)
           n == Len(s)
           D == DOMAIN AsFn(s) \cup {e.fd}
           g == [f \in D |-> IF f = e.fd THEN Registration(e) ELSE AsFn(s)[f]]
<1>1. /\ n \in Nat /\ DOMAIN s = 1 .. n /\ DOMAIN t = 1 .. n + 1
      /\ t[n + 1] = e /\ \A i \in 1 .. n : t[i] = s[i]
  OBVIOUS
<1> HIDE DEF t, n
<1>a. \A i \in DOMAIN t :
         \/ i \in DOMAIN s /\ t[i] = s[i] /\ i # n + 1
         \/ i = n + 1 /\ t[i] = e
  <2> TAKE i \in DOMAIN t
  <2>1. CASE i = n + 1
    BY <1>1, <2>1
  <2>2. CASE i # n + 1
    <3>1. i \in 1 .. n
      BY <1>1, <2>2
    <3> QED BY <1>1, <2>2, <3>1
  <2> QED BY <2>1, <2>2
<1>2. NoDup(t)
  <2> SUFFICES ASSUME NEW i \in DOMAIN t, NEW k \in DOMAIN t, t[i].fd = t[k].fd
               PROVE  i = k
    BY DEF NoDup
  <2> QED BY <1>a DEF NoDup
<1>3. D = {t[i].fd : i \in DOMAIN t}
  <2>1. n + 1 \in DOMAIN t /\ t[n + 1] = e
    BY <1>1
  <2>2. \A i \in DOMAIN s : i \in DOMAIN t /\ t[i] = s[i]
    BY <1>1
  <2>3. DOMAIN AsFn(s) = {s[i].fd : i \in DOMAIN s}
    BY FnAt
  <2>4. ASSUME NEW x \in D
        PROVE  \E i \in DOMAIN t : x = t[i].fd
    <3>1. CASE x = e.fd
      BY <2>1, <3>1
    <3>2. CASE x # e.fd
      <4>1. PICK i \in DOMAIN s : x = s[i].fd
        BY <2>3, <3>2
      <4> QED BY <2>2, <4>1
    <3> QED BY <3>1, <3>2
  <2>5. ASSUME NEW i \in DOMAIN t
        PROVE  t[i].fd \in D
    BY <1>a, <2>3
  <2> HIDE DEF D
  <2> QED BY <2>4, <2>5
<1>4. \A i \in DOMAIN t : g[t[i].fd] = Registration(t[i])
  <2> TAKE i \in DOMAIN t
  <2>1. CASE i = n + 1
    BY <1>1, <1>3, <2>1
  <2>2. CASE i # n + 1
    <3>1. i \in DOMAIN s /\ t[i] = s[i]
      BY <1>1, <2>2
    <3>2. s[i].fd # e.fd /\ s[i].fd \in D /\ AsFn(s)[s[i].fd] = Registration(s[i])
      BY <3>1, FnAt
    <3> QED BY <3>1, <3>2
  <2> QED BY <2>1, <2>2
<1>5. AsFn(t) = g
  <2>1. g = [x \in DOMAIN g |-> g[x]] /\ DOMAIN g = D
    OBVIOUS
  <2> HIDE DEF g, D
  <2> QED BY <1>2, <1>3, <1>4, <2>1, FnIs
<1> QED BY <1>2, <1>5 DEF t

(* Replacing an entry by one of the same descriptor changes its value.     *)
Updated(l, fd, r) == [l EXCEPT ![fd] = r]

LEMMA UpdateFn ==
    ASSUME NEW s \in Seq(Entry), NoDup(s), NEW j \in DOMAIN s, NEW e \in Entry,
           e.fd = s[j].fd
    PROVE  /\ NoDup([s EXCEPT ![j] = e])
           /\ e.fd \in DOMAIN AsFn(s)
           /\ AsFn([s EXCEPT ![j] = e]) = Updated(AsFn(s), e.fd, Registration(e))
<1> DEFINE t == [s EXCEPT ![j] = e]
           g == [AsFn(s) EXCEPT ![e.fd] = Registration(e)]
<1>1. /\ DOMAIN t = DOMAIN s /\ t[j] = e
      /\ \A i \in DOMAIN s : i # j => t[i] = s[i]
      /\ \A i \in DOMAIN s : t[i].fd = s[i].fd
  OBVIOUS
<1>2. e.fd \in DOMAIN AsFn(s) /\ AsFn(s) = [x \in DOMAIN AsFn(s) |-> AsFn(s)[x]]
  BY DEF AsFn
<1>3. /\ DOMAIN g = DOMAIN AsFn(s) /\ g = [x \in DOMAIN g |-> g[x]]
      /\ g[e.fd] = Registration(e)
      /\ \A x \in DOMAIN AsFn(s) : x # e.fd => g[x] = AsFn(s)[x]
  BY <1>2
<1> HIDE DEF t, g
<1>4. NoDup(t)
  BY <1>1 DEF NoDup
<1>5. DOMAIN g = {t[i].fd : i \in DOMAIN t}
  <2>1. DOMAIN g = {s[i].fd : i \in DOMAIN s}
    BY <1>3, FnAt
  <2> QED BY <1>1, <2>1
<1>6. \A i \in DOMAIN t : g[t[i].fd] = Registration(t[i])
  <2> TAKE i \in DOMAIN t
  <2>1. CASE i = j
    BY <1>1, <1>3, <2>1
  <2>2. CASE i # j
    <3>1. i \in DOMAIN s /\ t[i] = s[i] /\ s[i].fd # e.fd
      BY <1>1, <2>2 DEF NoDup
    <3>2. s[i].fd \in DOMAIN AsFn(s) /\ AsFn(s)[s[i].fd] = Registration(s[i])
      BY <3>1, FnAt
    <3> QED BY <1>3, <3>1, <3>2
  <2> QED BY <2>1, <2>2
<1>7. AsFn(t) = g
  BY <1>3, <1>4, <1>5, <1>6, FnIs
<1> QED BY <1>2, <1>4, <1>7 DEF t, g, Updated

(* Removing an entry, whatever happens to the order of the others, removes *)
(* its descriptor.                                                         *)
Removes(s, j, t, pi) ==
    /\ pi \in [DOMAIN t -> DOMAIN s]
    /\ \A i \in DOMAIN t : pi[i] # j /\ t[i] = s[pi[i]]
    /\ \A i, k \in DOMAIN t : pi[i] = pi[k] => i = k
    /\ \A m \in DOMAIN s : m # j => \E i \in DOMAIN t : pi[i] = m

LEMMA DropFn ==
    ASSUME NEW s, NoDup(s), NEW j \in DOMAIN s, NEW t, NEW pi, Removes(s, j, t, pi)
    PROVE  /\ NoDup(t)
           /\ AsFn(t) = [f \in DOMAIN AsFn(s) \ {s[j].fd} |-> AsFn(s)[f]]
<1> DEFINE D == DOMAIN AsFn(s) \ {s[j].fd}
           g == [f \in D |-> AsFn(s)[f]]
<1> USE DEF Removes
<1>1. NoDup(t)
  BY DEF NoDup
<1>2. D = {t[i].fd : i \in DOMAIN t}
  <2>a. DOMAIN AsFn(s) = {s[i].fd : i \in DOMAIN s}
    BY FnAt
  <2>1. ASSUME NEW x \in D
        PROVE  \E i \in DOMAIN t : x = t[i].fd
    <3>1. PICK m \in DOMAIN s : x = s[m].fd
      BY <2>a
    <3>2. m # j
      BY <3>1
    <3> QED BY <3>1, <3>2
  <2>2. ASSUME NEW i \in DOMAIN t
        PROVE  t[i].fd \in D
    <3>1. pi[i] \in DOMAIN s /\ pi[i] # j /\ t[i] = s[pi[i]]
      OBVIOUS
    <3>2. s[pi[i]].fd # s[j].fd
      BY <3>1 DEF NoDup
    <3> QED BY <2>a, <3>1, <3>2
  <2> HIDE DEF D
  <2> QED BY <2>1, <2>2
<1>3. \A i \in DOMAIN t : g[t[i].fd] = Registration(t[i])
  <2> TAKE i \in DOMAIN t
  <2>1. pi[i] \in DOMAIN s /\ t[i] = s[pi[i]]
    OBVIOUS
  <2>a. \A m \in DOMAIN s : AsFn(s)[s[m].fd] = Registration(s[m])
    BY FnAt
  <2>2. AsFn(s)[s[pi[i]].fd] = Registration(s[pi[i]])
    BY <2>1, <2>a
  <2>3. t[i].fd \in D
    BY <1>2
  <2> QED BY <2>1, <2>2, <2>3
<1>4. g = [x \in DOMAIN g |-> g[x]] /\ DOMAIN g = D
  OBVIOUS
<1> HIDE DEF g, D
<1>5. AsFn(t) = g
  BY <1>1, <1>2, <1>3, <1>4, FnIs
<1> QED BY <1>1, <1>5 DEF g, D

LEMMA ExceptEnabled ==
    ASSUME NEW a, NEW b, NEW c
    PROVE  [[events |-> a, enabled |-> b] EXCEPT !.enabled = c]
             = [events |-> a, enabled |-> c]
OBVIOUS

(* Disabling some entries disables their descriptors.                      *)
\* The list after a scan: the entries at F are disabled.
Fires(s, F, t) ==
    /\ t \in Seq(Entry) /\ DOMAIN t = DOMAIN s
    /\ \A i \in DOMAIN s : t[i] = IF i \in F THEN [s[i] EXCEPT !.enabled = FALSE] ELSE s[i]

Silenced(l, fired) ==
    [fd \in DOMAIN l |-> IF fd \in fired THEN [l[fd] EXCEPT !.enabled = FALSE] ELSE l[fd]]

LEMMA FireFn ==
    ASSUME NEW s \in Seq(Entry), NoDup(s), NEW F \in SUBSET DOMAIN s, NEW t, Fires(s, F, t)
    PROVE  LET fired == {s[i].fd : i \in F}
           IN  /\ NoDup(t)
               /\ fired \in SUBSET DOMAIN AsFn(s)
               /\ AsFn(t) = Silenced(AsFn(s), fired)
<1> DEFINE l == AsFn(s)
           fired == {s[i].fd : i \in F}
           D == DOMAIN l
           g == [fd \in D |->
                   IF fd \in fired THEN [l[fd] EXCEPT !.enabled = FALSE] ELSE l[fd]]
<1> USE DEF Fires
<1>1. \A i \in DOMAIN s : s[i] \in Entry
  OBVIOUS
<1>2. \A i \in DOMAIN s : t[i].fd = s[i].fd /\ t[i].events = s[i].events
  BY <1>1 DEF Entry
<1>3. NoDup(t)
  BY <1>2 DEF NoDup
<1>4. fired \in SUBSET D /\ D = {t[i].fd : i \in DOMAIN t}
  <2>1. D = {s[i].fd : i \in DOMAIN s}
    BY FnAt
  <2> HIDE DEF D
  <2> QED BY <1>2, <2>1
<1>5. ASSUME NEW i \in DOMAIN t
      PROVE  g[t[i].fd] = Registration(t[i])
  <2>1. i \in F <=> s[i].fd \in fired
    BY DEF NoDup
  <2>2. l[s[i].fd] = Registration(s[i]) /\ s[i].fd \in D
    BY FnAt
  <2>3. CASE i \in F
    <3>1. t[i].enabled = FALSE
      BY <1>1, <2>3 DEF Entry
    <3>2. g[s[i].fd] = [Registration(s[i]) EXCEPT !.enabled = FALSE]
      BY <2>1, <2>2, <2>3
    <3>3. [Registration(s[i]) EXCEPT !.enabled = FALSE]
            = [events |-> s[i].events, enabled |-> FALSE]
      BY ExceptEnabled DEF Registration
    <3>4. g[t[i].fd] = g[s[i].fd]
      BY <1>2
    <3>5. Registration(t[i]) = [events |-> s[i].events, enabled |-> FALSE]
      BY <1>2, <3>1 DEF Registration
    <3> HIDE DEF g
    <3> QED BY <3>2, <3>3, <3>4, <3>5
  <2>4. CASE i \notin F
    BY <1>2, <2>1, <2>2, <2>4
  <2> QED BY <2>3, <2>4
<1>6. g = [x \in DOMAIN g |-> g[x]] /\ DOMAIN g = D
  OBVIOUS
<1> HIDE DEF g, D
<1>7. AsFn(t) = g
  BY <1>3, <1>4, <1>5, <1>6, FnIs
<1> QED BY <1>3, <1>4, <1>7 DEF g, D, Silenced

-----------------------------------------------------------------------------
(* A set of naturals that is not empty has a least one, and a set of       *)
(* positions a last one.                                                   *)
LEMMA LeastOf ==
    ASSUME NEW D \in SUBSET Nat, D # {}
    PROVE  \E k \in D : \A j \in D : k <= j
<1> DEFINE R == OpToRel(<, Nat)
<1>1. IsWellFoundedOn(R, Nat)
  BY NatLessThanWellFounded
<1>2. PICK k \in D : \A j \in D : ~(<<j, k>> \in R)
  <2> HIDE DEF R
  <2> QED BY <1>1, WFMin
<1>3. \A j \in D : k <= j
  <2> TAKE j \in D
  <2>1. j < k => <<j, k>> \in R
    BY DEF OpToRel
  <2> HIDE DEF R
  <2> QED BY <1>2, <2>1
<1> QED BY <1>3

LEMMA LastOf ==
    ASSUME NEW n \in Nat, NEW T \in SUBSET (1 .. n), T # {}
    PROVE  \E m \in T : \A i \in T : i <= m
<1> DEFINE D == {k \in Nat : n - k \in T}
<1>1. D # {} /\ D \subseteq Nat /\ \A i \in T : n - i \in D
  <2>1. ASSUME NEW i \in T PROVE n - i \in D
    <3>1. n - i \in Nat /\ n - (n - i) = i
      OBVIOUS
    <3> QED BY <3>1
  <2> QED BY <2>1
<1>2. \A k \in D : k \in Nat /\ n - k \in T
  OBVIOUS
<1> HIDE DEF D
<1>3. PICK k \in D : \A j \in D : k <= j
  BY <1>1, LeastOf
<1>4. \A i \in T : i <= n - k
  <2> TAKE i \in T
  <2>1. k <= n - i /\ k \in Nat /\ i \in Nat
    BY <1>1, <1>2, <1>3
  <2> QED BY <2>1
<1> QED BY <1>2, <1>3, <1>4

(* Of a finite set of positions, those with fewer than c before them are   *)
(* at most c.                                                              *)
LEMMA FirstOnes ==
  ASSUME NEW n \in Nat, NEW H \in SUBSET (1 .. n), NEW c \in Nat
  PROVE  LET T == {i \in H : Cardinality({j \in H : j < i}) < c}
         IN  IsFiniteSet(T) /\ Cardinality(T) <= c
<1> DEFINE Before(i) == {j \in H : j < i}
           T == {i \in H : Cardinality(Before(i)) < c}
<1>1. IsFiniteSet(1 .. n)
  BY FS_Interval
<1>2. \A S \in SUBSET (1 .. n) : IsFiniteSet(S) /\ Cardinality(S) \in Nat
  BY <1>1, FS_Subset, FS_CardinalityType
<1>3. T \in SUBSET (1 .. n)
  OBVIOUS
<1>4. CASE T = {}
  <2> HIDE DEF T
  <2>1. IsFiniteSet(T) /\ Cardinality(T) <= c
    BY <1>2, <1>3, <1>4, FS_EmptySet
  <2> QED BY <2>1 DEF T
<1>5. CASE T # {}
  <2>1. PICK m \in T : \A i \in T : i <= m
    <3> HIDE DEF T
    <3> QED BY <1>3, <1>5, LastOf
  <2>2. Cardinality(Before(m)) < c /\ Before(m) \in SUBSET (1 .. n)
    OBVIOUS
  <2>3. T \in SUBSET (Before(m) \cup {m})
    <3>1. \A i \in T : i \in H /\ i <= m
      BY <2>1
    <3>2. \A i \in H : i <= m => i < m \/ i = m
      OBVIOUS
    <3>3. \A i \in H : i < m => i \in Before(m)
      OBVIOUS
    <3> HIDE DEF T, Before
    <3> QED BY <3>1, <3>2, <3>3
  <2> HIDE DEF T, Before
  <2>4. IsFiniteSet(Before(m) \cup {m}) /\ Cardinality(Before(m) \cup {m}) <= c
    BY <1>2, <2>2, FS_AddElement
  <2>5. Cardinality(T) <= Cardinality(Before(m) \cup {m})
    BY <2>3, <2>4, FS_Subset
  <2>6. Cardinality(Before(m) \cup {m}) \in Nat /\ Cardinality(T) \in Nat
    BY <1>2, <1>3, <2>4, FS_CardinalityType
  <2>7. IsFiniteSet(T) /\ Cardinality(T) <= c
    BY <1>2, <1>3, <2>4, <2>5, <2>6
  <2> QED BY <2>7 DEF T, Before
<1> QED BY <1>4, <1>5

-----------------------------------------------------------------------------
(***************************************************************************)
(* The operations of the model, on the instance as it is.                  *)
(***************************************************************************)
Instance == Shape(tssx_count, first, entries)

\* The entries are of descriptors in a set.
Within(s, S) == \A i \in DOMAIN s : s[i].fd \in S

\* The disabled entries are one-shot ones, reported to one of w.
Disabled(s, w) ==
    \A i \in DOMAIN s : ~s[i].enabled => _is_oneshot(s[i]) /\ s[i].fd \in w

(* The names of the model and those of this module.                        *)
LEMMA Names ==
    /\ List = ListOf(tssx_count, first, entries)
    /\ AsFunction = AsFn(List)
    /\ NoDuplicates <=> NoDup(List)
<1>1. List = ListOf(tssx_count, first, entries)
  BY DEF List, ListOf
<1>2. AsFunction = AsFn(List)
  BY DEF AsFunction, AsFn
<1>3. NoDuplicates <=> NoDup(List)
  BY DEF NoDuplicates, NoDup
<1> QED BY <1>1, <1>2, <1>3

LEMMA ListIsSeq ==
    ASSUME Instance
    PROVE  /\ List \in Seq(Entry) /\ Len(List) = tssx_count
           /\ DOMAIN List = 1 .. tssx_count /\ tssx_count \in Nat
           /\ tssx_count > 0 => List[1] = first
           /\ \A k \in 0 .. tssx_count - 2 : List[k + 2] = entries.data[k]
<1>1. /\ ListOf(tssx_count, first, entries) \in Seq(Entry)
      /\ Len(ListOf(tssx_count, first, entries)) = tssx_count
      /\ DOMAIN ListOf(tssx_count, first, entries) = 1 .. tssx_count
      /\ tssx_count > 0 => ListOf(tssx_count, first, entries)[1] = first
      /\ \A k \in 0 .. tssx_count - 2 :
            ListOf(tssx_count, first, entries)[k + 2] = entries.data[k]
  BY ListAt DEF Instance
<1> QED BY <1>1, Names DEF Instance, Shape

(* A new entry is appended.                                                *)
LEMMA AddList ==
    ASSUME Instance, NEW e \in Entry, _epoll_add_to_instance(e)
    PROVE  Instance' /\ List' = Append(List, e)
<1> DEFINE l == ListOf(tssx_count, first, entries)
           m == ListOf(tssx_count', first', entries')
<1>1. List = l /\ List' = m
  BY Names DEF List, ListOf
<1>2. CASE tssx_count = 0
  <2>1. tssx_count' = 1 /\ first' = e /\ entries' = entries /\ l = <<>>
    BY <1>2 DEF _epoll_add_to_instance, ListOf
  <2>2. Shape(1, e, entries) /\ ListOf(1, e, entries) = <<e>>
    BY <1>2, AddFirst DEF Instance
  <2> HIDE DEF l
  <2>3. Append(l, e) = <<e>>
    BY <2>1
  <2> QED BY <1>1, <2>1, <2>2, <2>3 DEF Instance
<1>3. CASE tssx_count # 0
  <2>1. tssx_count > 0 /\ tssx_count \in Nat
    BY <1>3 DEF Instance, Shape
  <2> DEFINE p == Pushed(tssx_count, entries, e)
  <2>2. tssx_count' = tssx_count + 1 /\ first' = first /\ entries' = p
    BY <1>3 DEF _epoll_add_to_instance, Base, Pushed
  <2>3. /\ Shape(tssx_count + 1, first, p)
        /\ ListOf(tssx_count + 1, first, p) = Append(l, e)
    BY <2>1, AddMore DEF Instance
  <2> HIDE DEF p
  <2> QED BY <1>1, <2>2, <2>3 DEF Instance
<1> QED BY <1>2, <1>3

(* Where a known descriptor is.                                            *)
LEMMA Found ==
    ASSUME Instance, tssx_count > 0, NEW fd, ~Unknown(fd), fd # first.fd
    PROVE  /\ _find_epoll_entry(fd) \in 0 .. tssx_count - 2
           /\ List[_find_epoll_entry(fd) + 2].fd = fd
<1>1. Offsets(fd) # {} /\ Offsets(fd) \subseteq Nat
  BY DEF Unknown, Offsets
<1>2. \E k \in Offsets(fd) : \A j \in Offsets(fd) : k <= j
  BY <1>1, LeastOf
<1>3. _find_epoll_entry(fd) \in Offsets(fd)
  BY <1>2 DEF _find_epoll_entry
<1>4. /\ _find_epoll_entry(fd) \in 0 .. entries.size - 1
      /\ entries.live /\ entries.data[_find_epoll_entry(fd)].fd = fd
  BY <1>3 DEF Offsets, vector_get
<1>5. entries.size = tssx_count - 1 /\ tssx_count \in Nat
  BY <1>4 DEF Instance, Shape
<1> HIDE DEF _find_epoll_entry
<1>6. _find_epoll_entry(fd) \in 0 .. tssx_count - 2
  BY <1>4, <1>5
<1> QED BY <1>4, <1>6, ListIsSeq

(* The entry of a descriptor is replaced.                                  *)
LEMMA UpdateList ==
    ASSUME Instance, tssx_count > 0, NEW fd \in Fds, ~Unknown(fd),
           NEW i \in Interests, _epoll_update_instance(fd, i), tssx_count' = tssx_count
    PROVE  /\ Instance'
           /\ \E j \in DOMAIN List : /\ List[j].fd = fd
                                     /\ List' = [List EXCEPT ![j] = Armed(fd, i)]
<1> DEFINE l == ListOf(tssx_count, first, entries)
           m == ListOf(tssx_count', first', entries')
           e == Armed(fd, i)
<1>1. List = l /\ List' = m
  BY Names DEF List, ListOf
<1>2. e \in Entry
  BY DEF Armed, Entry
<1>3. tssx_count \in Nat /\ DOMAIN List = 1 .. tssx_count
  BY ListIsSeq
<1>4. CASE fd = first.fd
  <2>1. first' = e /\ entries' = entries
    BY <1>4 DEF _epoll_update_instance
  <2> HIDE DEF e
  <2>2. /\ Shape(tssx_count, e, entries)
        /\ ListOf(tssx_count, e, entries) = [l EXCEPT ![1] = e]
    BY <1>2, UpdateFirst DEF Instance
  <2>3. 1 \in DOMAIN List /\ List[1].fd = fd
    BY <1>3, <1>4, ListIsSeq
  <2>4. Instance' /\ m = [l EXCEPT ![1] = e]
    BY <2>1, <2>2 DEF Instance
  <2> HIDE DEF l, m
  <2>5. List' = [List EXCEPT ![1] = e]
    BY <1>1, <2>4
  <2> QED BY <2>3, <2>4, <2>5 DEF e
<1>5. CASE fd # first.fd
  <2> DEFINE k == _find_epoll_entry(fd)
  <2>1. first' = first /\ entries' = vector_assign(entries, k, e)
    BY <1>5 DEF _epoll_update_instance
  <2>2. k \in 0 .. tssx_count - 2 /\ List[k + 2].fd = fd
    BY <1>5, Found
  <2> HIDE DEF e, k
  <2>3. /\ Shape(tssx_count, first, vector_assign(entries, k, e))
        /\ ListOf(tssx_count, first, vector_assign(entries, k, e))
             = [l EXCEPT ![k + 2] = e]
    BY <1>2, <2>2, UpdateOther DEF Instance
  <2>4. Instance' /\ m = [l EXCEPT ![k + 2] = e]
    BY <2>1, <2>3 DEF Instance
  <2>5. k + 2 \in DOMAIN List
    BY <1>3, <2>2
  <2> HIDE DEF l, m
  <2>6. List' = [List EXCEPT ![k + 2] = e]
    BY <1>1, <2>4
  <2> QED BY <2>2, <2>4, <2>5, <2>6 DEF e
<1> QED BY <1>4, <1>5

(* The entry of a descriptor is removed, and another one may take its      *)
(* place in the list.                                                      *)
LEMMA EraseList ==
    ASSUME Instance, tssx_count > 0, NEW fd, ~Unknown(fd), _epoll_erase_from_instance(fd)
    PROVE  /\ Instance'
           /\ \E j \in DOMAIN List : /\ List[j].fd = fd
                                     /\ \E pi : Removes(List, j, List', pi)
<1> DEFINE n == tssx_count
           l == ListOf(tssx_count, first, entries)
           m == ListOf(tssx_count', first', entries')
<1>1. List = l /\ List' = m
  BY Names DEF List, ListOf
<1>2. n \in Nat /\ DOMAIN List = 1 .. n
  BY ListIsSeq
<1>3. CASE fd = first.fd /\ n = 1
  <2>1. n' = 0 /\ first' = first /\ entries' = entries
    BY <1>3 DEF _epoll_erase_from_instance, _epoll_erase_first_from_instance
  <2>2. Instance' /\ m = <<>>
    BY <1>3, <2>1, RemoveOnly DEF Instance
  <2>3. 1 \in DOMAIN List /\ List[1].fd = fd
    BY <1>2, <1>3, ListIsSeq
  <2> DEFINE pi == [i \in {} |-> 1]
  <2> HIDE DEF m
  <2>4. DOMAIN List' = {} /\ DOMAIN List = {1}
    BY <1>1, <1>2, <1>3, <2>2
  <2>5. Removes(List, 1, List', pi)
    BY <2>4 DEF Removes
  <2> HIDE DEF pi
  <2> QED BY <2>2, <2>3, <2>5
<1>4. CASE fd = first.fd /\ n > 1
  <2>1. n' = n - 1 /\ first' = vector_back(entries) /\ entries' = Popped(entries)
    BY <1>4 DEF _epoll_erase_from_instance, _epoll_erase_first_from_instance,
       Popped
  <2> DEFINE t == [i \in 1 .. n - 1 |-> IF i = 1 THEN l[n] ELSE l[i]]
             pi == [i \in 1 .. n - 1 |-> IF i = 1 THEN n ELSE i]
  <2>2. Instance' /\ m = t
    BY <1>4, <2>1, RemoveFirst DEF Instance
  <2>3. 1 \in DOMAIN List /\ List[1].fd = fd
    BY <1>2, <1>4, ListIsSeq
  <2> HIDE DEF m, l
  <2>4. /\ DOMAIN List' = 1 .. n - 1
        /\ \A i \in 1 .. n - 1 : List'[i] = IF i = 1 THEN List[n] ELSE List[i]
    BY <1>1, <2>2
  <2>5. pi \in [1 .. n - 1 -> 1 .. n] /\ \A i \in 1 .. n - 1 : pi[i] # 1
    BY <1>2, <1>4
  <2>6. \A i \in DOMAIN List' : List'[i] = List[pi[i]]
    BY <2>4
  <2>7. \A i, k \in 1 .. n - 1 : pi[i] = pi[k] => i = k
    BY <1>2, <1>4
  <2>8. ASSUME NEW k \in 1 .. n, k # 1 PROVE \E i \in 1 .. n - 1 : pi[i] = k
    <3>1. CASE k = n
      <4>1. 1 \in 1 .. n - 1 /\ pi[1] = n
        BY <1>2, <1>4
      <4> QED BY <3>1, <4>1
    <3>2. CASE k # n
      <4>1. k \in 1 .. n - 1 /\ pi[k] = k
        BY <1>2, <2>8, <3>2
      <4> QED BY <4>1
    <3> QED BY <3>1, <3>2
  <2> HIDE DEF pi, n
  <2>9. Removes(List, 1, List', pi)
    BY <1>2, <2>4, <2>5, <2>6, <2>7, <2>8 DEF Removes
  <2> QED BY <2>2, <2>3, <2>9
<1>5. CASE fd # first.fd
  <2> DEFINE k == _find_epoll_entry(fd)
  <2>1. n' = n - 1 /\ first' = first /\ entries' = Erased(entries, k)
    BY <1>5 DEF _epoll_erase_from_instance, Erased
  <2>2. k \in 0 .. n - 2 /\ List[k + 2].fd = fd
    BY <1>5, Found
  <2> HIDE DEF k
  <2> DEFINE t == [i \in 1 .. n - 1 |-> IF i < k + 2 THEN l[i] ELSE l[i + 1]]
             pi == [i \in 1 .. n - 1 |-> IF i < k + 2 THEN i ELSE i + 1]
  <2>3. Instance' /\ m = t
    BY <2>1, <2>2, RemoveOther DEF Instance
  <2> HIDE DEF m, l
  <2>4. /\ DOMAIN List' = 1 .. n - 1
        /\ \A i \in 1 .. n - 1 : List'[i] = IF i < k + 2 THEN List[i] ELSE List[i + 1]
    BY <1>1, <2>3
  <2>5. pi \in [1 .. n - 1 -> 1 .. n] /\ \A i \in 1 .. n - 1 : pi[i] # k + 2
    BY <1>2, <2>2
  <2>6. \A i \in DOMAIN List' : List'[i] = List[pi[i]]
    BY <2>4
  <2>7. \A i, h \in 1 .. n - 1 : pi[i] = pi[h] => i = h
    BY <1>2, <2>2
  <2>8. ASSUME NEW h \in 1 .. n, h # k + 2 PROVE \E i \in 1 .. n - 1 : pi[i] = h
    <3>1. CASE h < k + 2
      <4>1. h \in 1 .. n - 1 /\ pi[h] = h
        BY <1>2, <2>2, <3>1
      <4> QED BY <4>1
    <3>2. CASE h > k + 2
      <4>1. h - 1 \in 1 .. n - 1 /\ pi[h - 1] = h
        BY <1>2, <2>2, <3>2
      <4> QED BY <4>1
    <3> QED BY <1>2, <2>2, <2>8, <3>1, <3>2
  <2>9. k + 2 \in DOMAIN List
    BY <1>2, <2>2
  <2> HIDE DEF pi, n
  <2>10. Removes(List, k + 2, List', pi)
    BY <1>2, <2>4, <2>5, <2>6, <2>7, <2>8 DEF Removes
  <2> QED BY <2>2, <2>3, <2>9, <2>10
<1> QED BY <1>2, <1>3, <1>4, <1>5

(* What a scan leaves of an entry.                                         *)
LEMMA FiredIs ==
    ASSUME NEW e \in Entry, NEW r, NEW T, NEW i
    PROVE  LET gone == i \in T /\ _is_oneshot(e) /\ "HUP" \notin r
           IN  /\ Fired(e, r, i \in T) \in Entry
               /\ Fired(e, r, i \in T) = IF gone THEN [e EXCEPT !.enabled = FALSE] ELSE e
<1> DEFINE gone == i \in T /\ _is_oneshot(e) /\ "HUP" \notin r
           b == e.enabled /\ ~gone
<1>1. Fired(e, r, i \in T) = [e EXCEPT !.enabled = b]
  BY DEF Fired
<1>2. e = [fd |-> e.fd, events |-> e.events, enabled |-> e.enabled]
      /\ e.fd \in Fds /\ e.events \in Interests /\ e.enabled \in BOOLEAN
  BY DEF Entry
<1>3. b \in BOOLEAN /\ (gone => b = FALSE)
  BY Zenon
<1>4. ~gone => b = e.enabled
  BY <1>2, Zenon
<1> HIDE DEF gone, b
<1>5. [e EXCEPT !.enabled = b] \in Entry
  BY <1>3 DEF Entry
<1>6. CASE gone
  <2>1. [e EXCEPT !.enabled = b] = [e EXCEPT !.enabled = FALSE]
    BY <1>3, <1>6, Zenon
  <2> QED BY <1>1, <1>5, <1>6, <2>1, Zenon DEF gone
<1>7. CASE ~gone
  <2>1. [e EXCEPT !.enabled = e.enabled] = e
    BY <1>2
  <2>2. [e EXCEPT !.enabled = b] = [e EXCEPT !.enabled = e.enabled]
    BY <1>4, <1>7, Zenon
  <2> QED BY <1>1, <1>5, <1>7, <2>1, <2>2, Zenon DEF gone
<1> QED BY <1>6, <1>7

(* A scan reports no more descriptors than there is room for, and disables *)
(* only one-shot entries that were enabled and that it reports.            *)
LEMMA ScanList ==
    ASSUME Instance, tssx_count > 0, NEW found, Scan(found), call.size \in Nat
    PROVE  /\ Instance'
           /\ out' \subseteq Fds /\ IsFiniteSet(out') /\ Cardinality(out') <= call.size
           /\ \E F \in SUBSET DOMAIN List :
                 /\ Fires(List, F, List')
                 /\ \A i \in F : /\ List[i].enabled /\ _is_oneshot(List[i])
                                 /\ List[i].fd \in out'
<1> DEFINE n == tssx_count
           R(e) == found[e.fd]
           hits == {i \in DOMAIN List : _check_epoll_entry(List[i], R(List[i])) # {}}
           taken == Taken(hits)
           g == [i \in 1 .. n |-> Fired(List[i], R(List[i]), i \in taken)]
           F == {i \in taken : _is_oneshot(List[i]) /\ "HUP" \notin R(List[i])}
<1>1. /\ List \in Seq(Entry) /\ DOMAIN List = 1 .. n /\ n \in Nat /\ n > 0
      /\ \A i \in 1 .. n : List[i] \in Entry
  <2>1. List \in Seq(Entry) /\ DOMAIN List = 1 .. n /\ n \in Nat
    BY ListIsSeq
  <2> QED BY <2>1
<1>2. hits \in SUBSET (1 .. n) /\ taken \subseteq hits
  BY <1>1 DEF Taken
<1>3. \A i \in taken : List[i].enabled
  BY DEF Taken, _check_epoll_entry
<1>4. IsFiniteSet(taken) /\ Cardinality(taken) <= call.size /\ Cardinality(taken) \in Nat
  <2>1. IsFiniteSet(taken) /\ Cardinality(taken) <= call.size
    <3> HIDE DEF hits
    <3> QED BY <1>1, <1>2, FirstOnes DEF Taken
  <2> QED BY <2>1, FS_CardinalityType
<1>5. /\ out' = {List[i].fd : i \in taken}
      /\ first' = g[1] /\ n' = n
      /\ entries' = IF n = 1 THEN entries
                    ELSE With(entries, entries.size, [k \in DOMAIN entries.data |->
                             IF k < entries.size
                             THEN Fired(List[k + 2], R(List[k + 2]), (k + 2) \in taken)
                             ELSE entries.data[k]])
  BY <1>1 DEF Scan
<1>6. \A i \in 1 .. n : /\ g[i] \in Entry
                        /\ g[i] = IF i \in F THEN [List[i] EXCEPT !.enabled = FALSE] ELSE List[i]
  <2> TAKE i \in 1 .. n
  <2> HIDE DEF taken
  <2>1. g[i] = Fired(List[i], R(List[i]), i \in taken)
    OBVIOUS
  <2> HIDE DEF g
  <2>2. List[i] \in Entry
    BY <1>1
  <2>3. Fired(List[i], R(List[i]), i \in taken) \in Entry
    BY <2>2, FiredIs
  <2>4. Fired(List[i], R(List[i]), i \in taken)
          = IF i \in F THEN [List[i] EXCEPT !.enabled = FALSE] ELSE List[i]
    BY <2>2, FiredIs
  <2> QED BY <2>1, <2>3, <2>4
<1>7. g \in Seq(Entry) /\ Len(g) = n
  <2>1. g = [i \in 1 .. n |-> g[i]]
    OBVIOUS
  <2> HIDE DEF g, F
  <2>2. g \in [1 .. n -> Entry]
    BY <1>6, <2>1
  <2> QED BY <1>1, <2>2
<1>8. F \in SUBSET DOMAIN List
  BY <1>1, <1>2
<1>9. out' \subseteq Fds /\ IsFiniteSet(out') /\ Cardinality(out') <= call.size
  <2> DEFINE h == [i \in taken |-> List[i].fd]
  <2> HIDE DEF taken
  <2>1. out' \subseteq Fds
    BY <1>1, <1>2, <1>5 DEF Entry
  <2>2. h \in Surjection(taken, out')
    BY <1>5, Fun_IsSurj
  <2> HIDE DEF h
  <2>3. IsFiniteSet(out') /\ Cardinality(out') <= Cardinality(taken)
    BY <1>4, <2>2, FS_Surjection
  <2> QED BY <1>4, <2>1, <2>3, FS_CardinalityType
<1>10. \A i \in F : List[i].enabled /\ _is_oneshot(List[i]) /\ List[i].fd \in out'
  BY <1>3, <1>5
<1> DEFINE p == IF n = 1 THEN entries
                ELSE With(entries, entries.size, [k \in DOMAIN entries.data |->
                        IF k < entries.size THEN g[k + 2] ELSE entries.data[k]])
<1>11. entries' = p
  <2>1. CASE n = 1
    BY <1>5, <2>1
  <2>2. CASE n # 1
    <3>1. /\ entries.size = n - 1
          /\ \A k \in DOMAIN entries.data : k \in Nat
      BY <1>1, <2>2 DEF Instance, Shape, IsVector
    <3>2. ASSUME NEW k \in DOMAIN entries.data, k < entries.size
          PROVE  g[k + 2] = Fired(List[k + 2], R(List[k + 2]), (k + 2) \in taken)
      BY <1>1, <3>1, <3>2
    <3> HIDE DEF g, taken
    <3> QED BY <1>5, <2>2, <3>2
  <2> QED BY <2>1, <2>2
<1> HIDE DEF g, F, taken, hits
<1>12. Shape(n, g[1], p) /\ ListOf(n, g[1], p) = g
  BY <1>1, <1>7, Rewritten DEF Instance
<1> HIDE DEF p
<1>13. Instance'
  BY <1>5, <1>11, <1>12 DEF Instance
<1>14. List' = g
  <2>1. List' = ListOf(n', first', entries')
    BY DEF List, ListOf
  <2> QED BY <1>5, <1>11, <1>12, <2>1
<1>15. Fires(List, F, List')
  BY <1>1, <1>6, <1>7, <1>14 DEF Fires
<1> QED BY <1>8, <1>9, <1>10, <1>13, <1>15

-----------------------------------------------------------------------------
(***************************************************************************)
(* The invariant.                                                          *)
(***************************************************************************)

\* Its parts as the proofs use them: types, the instance, the wait.
Types ==
    /\ open \in BOOLEAN /\ aborted \in BOOLEAN /\ miscounted \in BOOLEAN /\ linked \subseteq Fds
    /\ first \in Entry \cup {Junk} /\ written \subseteq Fds /\ overrun \subseteq Fds
    /\ mpc \in {"idle", "wait", "scan", "load", "kill", "add", "join", "returned"}
    /\ npc \in {"start", "wait", "add", "done"}
    /\ nevents \in Nat /\ count \in Nat /\ result \in Nat \cup {ERROR}

KernelOK ==
    kernel \subseteq Fds /\ normal_count \in Nat /\ KernelCounted /\ kernel \cap linked = {}

InstanceOK == Instance /\ NoDup(List) /\ Within(List, linked) /\ KernelOK

Delivered ==
    /\ Disabled(List, Used \cup out)
    /\ out \subseteq Fds
    /\ mpc \in {"idle", "wait", "scan"} => out = {}
    /\ mpc = "returned" => Disabled(List, Used)
    /\ OneshotInArray

WaitOK == PathInv /\ CountInv /\ ResultIsTrue

LEMMA Parts == IInv <=> Types /\ InstanceOK /\ Delivered /\ WaitOK
<1>1. Instance <=> /\ tssx_count \in Nat /\ (entries.live => IsVector(entries))
                   /\ EntriesCounted /\ EntriesInv
  BY DEF Instance, Shape, EntriesCounted, EntriesInv
<1>2. NoDuplicates <=> NoDup(List)
  BY Names
<1>3. TypeOK <=> /\ Types /\ tssx_count \in Nat /\ (entries.live => IsVector(entries))
                 /\ kernel \subseteq Fds /\ normal_count \in Nat
  BY Zenon DEF TypeOK, Types
<1>4. InstanceInv /\ EntriesInv /\ PlacesInv <=> Types /\ InstanceOK
  BY <1>1, <1>2, <1>3 DEF InstanceInv, InstanceOK, KernelOK, PlacesInv, Within
<1>5. OneshotInv <=> Delivered
  <2>1. Disabled(List, Used \cup out)
          <=> /\ OneshotUsed
              /\ \A i \in DOMAIN List : ~List[i].enabled => _is_oneshot(List[i])
    BY Zenon DEF Disabled, OneshotUsed
  <2>2. (\A i \in DOMAIN List : ~List[i].enabled => _is_oneshot(List[i]))
          => (Disabled(List, Used) <=>
                \A i \in DOMAIN List : ~List[i].enabled => List[i].fd \in Used)
    BY Zenon DEF Disabled
  <2> QED BY <2>1, <2>2, Zenon DEF OneshotInv, OneshotDelivered, Delivered
<1> QED BY <1>4, <1>5 DEF IInv, WaitOK

(* Sets of descriptors can be counted.                                     *)
LEMMA FdsCount ==
    ASSUME NEW S \in SUBSET Fds
    PROVE  IsFiniteSet(S) /\ Cardinality(S) \in Nat /\ (Cardinality(S) = 0 <=> S = {})
<1>1. IsFiniteSet(S)
  BY FdsAssumption, FS_Subset
<1> QED BY <1>1, FS_CardinalityType, FS_EmptySet

(* A list that does not change.                                            *)
LEMMA SameList ==
    ASSUME linked' = linked, UNCHANGED instance
    PROVE  List' = List /\ (InstanceOK => InstanceOK')
<1>1. /\ tssx_count' = tssx_count /\ first' = first /\ entries' = entries
      /\ kernel' = kernel /\ normal_count' = normal_count /\ miscounted' = miscounted
  BY DEF instance
<1>2. List' = List
  BY <1>1 DEF List
<1>3. Instance => Instance'
  BY <1>1 DEF Instance
<1>4. KernelOK => KernelOK'
  BY <1>1 DEF KernelOK, KernelCounted
<1>5. /\ NoDup(List) => NoDup(List')
      /\ Within(List, linked) => Within(List', linked')
  BY <1>2
<1> QED BY <1>2, <1>3, <1>4, <1>5 DEF InstanceOK, NoDup, Within

(* What the application does between its waits keeps the invariant if it   *)
(* keeps the instance, and disables nothing.                               *)
LEMMA BetweenWaits ==
    ASSUME IInv, mpc = "idle", UNCHANGED <<linked, waiting>>,
           open' \in BOOLEAN, aborted' \in BOOLEAN, miscounted' \in BOOLEAN, first' \in Entry \cup {Junk},
           written' \subseteq Fds /\ overrun' \subseteq Fds, Instance', NoDup(List'), Within(List', linked), KernelOK',
           Disabled(List', Used')
    PROVE  IInv'
<1>1. Types /\ InstanceOK /\ Delivered /\ WaitOK
  BY Parts
<1>2. Types'
  <2>1. open' \in BOOLEAN /\ aborted' \in BOOLEAN /\ miscounted' \in BOOLEAN
    OBVIOUS
  <2> QED BY <1>1, <2>1 DEF Types, waiting
<1>3. InstanceOK'
  BY DEF InstanceOK, Within
<1>4. Delivered'
  <2>1. out' = {} /\ mpc' = "idle"
    BY <1>1 DEF Delivered, waiting
  <2>2. Disabled(List', Used' \cup out')
    BY <2>1 DEF Disabled
  <2> QED BY <2>1, <2>2 DEF Delivered, Disabled, OneshotInArray
<1>5. WaitOK'
  <2>1. PathInv'
    BY <1>1 DEF WaitOK, PathInv, waiting
  <2>2. CountInv'
    BY <1>1 DEF WaitOK, PathInv, CountInv, waiting, TimedOut
  <2>3. ResultIsTrue'
    BY <1>1 DEF waiting, ResultIsTrue, ResultCountsEvents, OverrunNeedsBoth,
       ZeroAmongSeveral
  <2> QED BY <2>1, <2>2, <2>3 DEF WaitOK
<1>6. IInv' <=> Types' /\ InstanceOK' /\ Delivered' /\ WaitOK'
  BY Parts, PTL
<1> QED BY <1>2, <1>3, <1>4, <1>5, <1>6

(* Initially the instance is empty.                                        *)
LEMMA InitInv == Init => IInv
<1> SUFFICES ASSUME Init PROVE IInv
  OBVIOUS
<1>1. Types
  <2>1. open \in BOOLEAN /\ aborted \in BOOLEAN
    BY Zenon DEF Init
  <2> QED BY <2>1, LinkedAssumption DEF Init, Types
<1>2. Instance /\ List = <<>>
  <2>1. entries.live = FALSE /\ tssx_count = 0
    BY DEF Init, VECTOR_INITIALIZER
  <2>2. entries.live \in BOOLEAN /\ ~entries.live
    BY <2>1, Zenon
  <2> QED BY <2>1, <2>2 DEF Instance, Shape, List
<1>3. KernelOK
  BY FS_EmptySet DEF Init, KernelOK, KernelCounted
<1>4. InstanceOK /\ Delivered
  BY <1>2, <1>3 DEF Init, InstanceOK, NoDup, Within, Delivered, Disabled,
     OneshotInArray
<1>5. PathInv
  BY DEF Init, PathInv, NoCall
<1>6. CountInv
  BY FS_EmptySet DEF Init, CountInv, NoCall
<1>7. ResultIsTrue
  BY DEF Init, ResultIsTrue, ResultCountsEvents, OverrunNeedsBoth,
     ZeroAmongSeveral
<1> QED BY <1>1, <1>4, <1>5, <1>6, <1>7, Parts DEF WaitOK

(* Between two waits nothing is in the array of a scan.                    *)
LEMMA AtRest ==
    ASSUME IInv, mpc = "idle"
    PROVE  /\ Types /\ Instance /\ NoDup(List) /\ Within(List, linked) /\ KernelOK
           /\ Disabled(List, Used)
<1>1. Types /\ InstanceOK /\ Delivered
  BY Parts
<1>2. Disabled(List, Used)
  BY <1>1 DEF Delivered, Disabled
<1> QED BY <1>1, <1>2 DEF InstanceOK

LEMMA CreateKeeps == ASSUME IInv, epoll_create1 PROVE IInv'
<1>1. Types /\ InstanceOK /\ Delivered /\ WaitOK
  BY Parts
<1>2. UNCHANGED <<linked, instance, told, waiting>>
  BY DEF epoll_create1
<1>3. open' \in BOOLEAN /\ aborted' \in BOOLEAN /\ miscounted' \in BOOLEAN
  BY <1>1, Zenon DEF epoll_create1, instance, Types
<1>4. Types'
  BY <1>1, <1>2, <1>3 DEF Types, told, waiting, instance
<1>5. List' = List /\ InstanceOK'
  BY <1>1, <1>2, SameList
<1>6. Delivered'
  BY <1>1, <1>2, <1>5 DEF Delivered, Disabled, Used, told, OneshotInArray, Oneshots, waiting
<1>7. WaitOK'
  BY <1>1, <1>2 DEF WaitOK, PathInv, CountInv, ResultIsTrue,
     ResultCountsEvents,
     OverrunNeedsBoth, ZeroAmongSeveral, TimedOut, waiting, instance
<1>8. IInv' <=> Types' /\ InstanceOK' /\ Delivered' /\ WaitOK'
  BY Parts, PTL
<1> QED BY <1>4, <1>5, <1>6, <1>7, <1>8

(* Closing the instance empties it, whichever of its parts was in use.     *)
LEMMA CloseList ==
    ASSUME IInv, Close
    PROVE  Instance' /\ KernelOK' /\ List' = <<>>
<1>1. Instance /\ KernelOK
  BY AtRest DEF Close, Idle
<1>2. tssx_count' = 0 /\ normal_count' = 0 /\ kernel' = {} /\ first' = first /\ miscounted' = FALSE
  <2>1. tssx_count \in Nat /\ normal_count \in Nat
    BY <1>1 DEF Instance, Shape, KernelOK
  <2> QED BY <2>1 DEF Close, close_epoll_instance, CloseCounts
<1>3. Shape(0, first, entries')
  <2>1. CASE tssx_count > 1
    <3>1. entries'.live = FALSE
      BY <2>1 DEF Close, close_epoll_instance, vector_destroy
    <3>2. entries'.live \in BOOLEAN /\ ~entries'.live
      BY <3>1, Zenon
    <3> QED BY <3>2 DEF Shape
  <2>2. CASE ~(tssx_count > 1)
    <3>1. entries' = entries
      BY <2>2 DEF Close, close_epoll_instance
    <3> QED BY <1>1, <2>2, <3>1 DEF Instance, Shape
  <2> QED BY <2>1, <2>2
<1>4. Instance'
  BY <1>2, <1>3 DEF Instance
<1>5. KernelOK'
  BY <1>2, FS_EmptySet DEF Close, KernelOK, KernelCounted
<1> QED BY <1>2, <1>4, <1>5 DEF List

LEMMA CloseKeeps == ASSUME IInv, Close PROVE IInv'
<1>1. Instance' /\ KernelOK' /\ List' = <<>> /\ Types
  BY CloseList, Parts
<1>2. NoDup(List') /\ Within(List', linked) /\ Disabled(List', Used')
  BY <1>1 DEF NoDup, Within, Disabled
<1>3. open' \in BOOLEAN /\ aborted' \in BOOLEAN /\ miscounted' \in BOOLEAN
  BY <1>1, Zenon DEF Close, Types
<1> QED BY <1>1, <1>2, <1>3, BetweenWaits DEF Close, Idle, Types

LEMMA UnknownKeeps ==
    ASSUME IInv, NEW fd \in Fds, ControlUnknown(fd)
    PROVE  IInv'
<1>1. Types /\ InstanceOK /\ Disabled(List, Used)
  BY AtRest, Parts DEF ControlUnknown, Idle
<1>2. List' = List /\ InstanceOK'
  BY <1>1, SameList DEF ControlUnknown
<1>3. open' \in BOOLEAN /\ aborted' \in BOOLEAN /\ miscounted' \in BOOLEAN
  BY <1>1, Zenon DEF ControlUnknown, instance, Types
<1>4. NoDup(List') /\ Within(List', linked) /\ Instance' /\ KernelOK'
  BY <1>1, <1>2 DEF InstanceOK
<1>5. Disabled(List', Used') /\ first' \in Entry \cup {Junk} /\ written' \subseteq Fds /\ overrun' \subseteq Fds
  BY <1>1, <1>2 DEF ControlUnknown, Types, Used, told, instance
<1> QED BY <1>3, <1>4, <1>5, BetweenWaits DEF ControlUnknown, Idle

(* Registering a descriptor: what becomes of the list, or of the kernel's  *)
(* set.                                                                    *)
LEMMA AddOne ==
    ASSUME IInv, NEW fd \in Fds, Add(fd)
    PROVE  /\ Instance' /\ KernelOK'
           /\ \A i \in DOMAIN List : List[i].fd # fd
           /\ \/ List' = List
              \/ fd \in linked /\ \E i \in Interests : List' = Append(List, Armed(fd, i))
<1>1. Instance /\ KernelOK
  BY AtRest DEF Add, Idle
<1>2. \A i \in DOMAIN List : List[i].fd # fd
  BY DEF Add, Registered
<1>3. CASE fd \in linked
  <2>1. PICK i \in Interests : _epoll_add_to_instance(Armed(fd, i))
    BY <1>3 DEF Add
  <2>2. Armed(fd, i) \in Entry
    BY DEF Armed, Entry
  <2>3. Instance' /\ List' = Append(List, Armed(fd, i))
    BY <1>1, <2>1, <2>2, AddList
  <2>4. KernelOK'
    BY <1>1, <1>3 DEF Add, KernelOK, KernelCounted
  <2> QED BY <1>2, <1>3, <2>3, <2>4
<1>4. CASE fd \notin linked
  <2>1. /\ tssx_count' = tssx_count /\ first' = first /\ entries' = entries
        /\ normal_count' = normal_count + 1
        /\ kernel' = kernel \cup {fd} \/ kernel' = kernel
    BY <1>4 DEF Add, _epoll_normal_add
  <2>2. Instance' /\ List' = List
    BY <1>1, <2>1 DEF Instance, List
  <2>3. /\ IsFiniteSet(kernel) /\ Cardinality(kernel) \in Nat
        /\ normal_count \in Nat
    BY <1>1, FdsCount DEF KernelOK
  <2>4. ASSUME Cardinality(kernel) <= normal_count
        PROVE  Cardinality(kernel \cup {fd}) <= normal_count + 1
    <3>1. Cardinality(kernel \cup {fd}) = Cardinality(kernel)
            \/ Cardinality(kernel \cup {fd}) = Cardinality(kernel) + 1
      BY <2>3, FS_AddElement
    <3> QED BY <2>3, <2>4, <3>1
  <2>5. KernelOK'
    <3>1. KernelCounted
      BY <1>1 DEF KernelOK
    <3>2. miscounted' = miscounted
      BY <1>4 DEF Add, _epoll_normal_add
    <3>3. Cardinality(kernel) <= normal_count => Cardinality(kernel') <= normal_count'
      BY <2>1, <2>3, <2>4
    <3>4. KernelCounted'
      BY <3>1, <3>2, <3>3, Zenon DEF KernelCounted
    <3> QED BY <1>1, <1>4, <2>1, <3>4 DEF Add, KernelOK
  <2> QED BY <1>2, <2>2, <2>5
<1> QED BY <1>3, <1>4

LEMMA AddKeeps ==
    ASSUME IInv, NEW fd \in Fds, Add(fd)
    PROVE  IInv'
<1>1. /\ Types /\ Instance /\ NoDup(List) /\ Within(List, linked)
      /\ Disabled(List, Used)
  BY AtRest DEF Add, Idle
<1>2. /\ Instance' /\ KernelOK'
      /\ \A i \in DOMAIN List : List[i].fd # fd
      /\ \/ List' = List
         \/ fd \in linked /\ \E i \in Interests : List' = Append(List, Armed(fd, i))
  BY AddOne
<1>3. Disabled(List, Used')
  BY <1>1, <1>2 DEF Add, Rearm, Used, Disabled
<1>4. List' = List => NoDup(List') /\ Within(List', linked) /\ Disabled(List', Used')
  BY <1>1, <1>3
<1>5. ASSUME fd \in linked, NEW i \in Interests, List' = Append(List, Armed(fd, i))
      PROVE  NoDup(List') /\ Within(List', linked) /\ Disabled(List', Used')
  <2> DEFINE e == Armed(fd, i)
  <2>1. e \in Entry /\ e.fd = fd /\ e.enabled
    BY DEF Armed, Entry
  <2> HIDE DEF e
  <2>2. List \in Seq(Entry)
    BY <1>1, ListIsSeq
  <2>3. NoDup(Append(List, e))
    BY <1>1, <1>2, <2>1, <2>2, AppendFn
  <2>4. \A k \in DOMAIN Append(List, e) :
            \/ k \in DOMAIN List /\ Append(List, e)[k] = List[k]
            \/ Append(List, e)[k] = e
    BY <2>2
  <2>5. Disabled(Append(List, e), Used')
    BY <1>3, <2>1, <2>4 DEF Disabled
  <2>6. Within(Append(List, e), linked)
    BY <1>1, <1>5, <2>1, <2>4 DEF Within
  <2>7. List' = Append(List, e)
    BY <1>5 DEF e
  <2> QED BY <2>3, <2>5, <2>6, <2>7
<1>6. NoDup(List') /\ Within(List', linked) /\ Disabled(List', Used')
  BY <1>2, <1>4, <1>5
<1>7. first' \in Entry \cup {Junk}
  <2>1. first \in Entry \cup {Junk} /\ \A i \in Interests : Armed(fd, i) \in Entry
    BY <1>1 DEF Types, Armed, Entry
  <2>2. first' = first \/ \E i \in Interests : first' = Armed(fd, i)
    BY DEF Add, _epoll_add_to_instance, _epoll_normal_add
  <2> QED BY <2>1, <2>2
<1>8. open' \in BOOLEAN /\ aborted' \in BOOLEAN /\ miscounted' \in BOOLEAN /\ written' \subseteq Fds /\ overrun' \subseteq Fds
  BY <1>1, Zenon DEF Add, _epoll_normal_add, Rearm, Types
<1> QED BY <1>2, <1>6, <1>7, <1>8, BetweenWaits DEF Add, Idle

(* Changing a registration.                                                *)
LEMMA ModifyOne ==
    ASSUME IInv, NEW fd \in Fds, Modify(fd)
    PROVE  /\ Instance' /\ KernelOK'
           /\ \E i \in Interests, j \in DOMAIN List :
                 /\ List[j].fd = fd /\ List' = [List EXCEPT ![j] = Armed(fd, i)]
                 /\ first' = first \/ first' = Armed(fd, i)
<1>1. Instance /\ KernelOK
  BY AtRest DEF Modify, Idle
<1>2. PICK i \in Interests : _epoll_update_instance(fd, i)
  BY DEF Modify
<1>3. tssx_count > 0 /\ ~Unknown(fd) /\ tssx_count' = tssx_count
  BY DEF Modify
<1>4. /\ Instance'
      /\ \E j \in DOMAIN List : List[j].fd = fd /\ List' = [List EXCEPT ![j] = Armed(fd, i)]
  BY <1>1, <1>2, <1>3, UpdateList
<1>5. KernelOK'
  BY <1>1 DEF Modify, KernelOK, KernelCounted
<1>6. first' = first \/ first' = Armed(fd, i)
  BY <1>2 DEF _epoll_update_instance
<1> QED BY <1>4, <1>5, <1>6

LEMMA ModifyKeeps ==
    ASSUME IInv, NEW fd \in Fds, Modify(fd)
    PROVE  IInv'
<1>1. /\ Types /\ Instance /\ NoDup(List) /\ Within(List, linked)
      /\ Disabled(List, Used)
  BY AtRest DEF Modify, Idle
<1>2. Instance' /\ KernelOK'
  BY ModifyOne
<1>3. PICK i \in Interests, j \in DOMAIN List :
         /\ List[j].fd = fd /\ List' = [List EXCEPT ![j] = Armed(fd, i)]
         /\ first' = first \/ first' = Armed(fd, i)
  BY ModifyOne
<1> DEFINE e == Armed(fd, i)
<1>4. e \in Entry /\ e.fd = fd /\ e.enabled
  BY DEF Armed, Entry
<1>5. first' \in Entry \cup {Junk}
  BY <1>1, <1>3, <1>4 DEF Types
<1> HIDE DEF e
<1>6. List \in Seq(Entry)
  BY <1>1, ListIsSeq
<1>7. List' = [List EXCEPT ![j] = e]
  BY <1>3 DEF e
<1>8. NoDup([List EXCEPT ![j] = e])
  BY <1>1, <1>3, <1>4, <1>6, UpdateFn
<1>9. /\ Disabled([List EXCEPT ![j] = e], Used \ {fd})
      /\ Within([List EXCEPT ![j] = e], linked)
  <2>1. ASSUME NEW k \in DOMAIN List, k # j
        PROVE  [List EXCEPT ![j] = e][k] = List[k] /\ List[k].fd # fd
    BY <1>1, <1>3, <2>1 DEF NoDup
  <2>2. [List EXCEPT ![j] = e][j] = e
    OBVIOUS
  <2> QED BY <1>1, <1>3, <1>4, <2>1, <2>2 DEF Disabled, Within
<1>10. Used' = Used \ {fd}
  BY DEF Modify, Rearm, Used
<1>11. NoDup(List') /\ Within(List', linked) /\ Disabled(List', Used')
  BY <1>7, <1>8, <1>9, <1>10
<1>12. open' \in BOOLEAN /\ aborted' \in BOOLEAN /\ miscounted' \in BOOLEAN /\ written' \subseteq Fds /\ overrun' \subseteq Fds
  BY <1>1, Zenon DEF Modify, Rearm, Types
<1> QED BY <1>2, <1>5, <1>11, <1>12, BetweenWaits DEF Modify, Idle

(* Removing a registration, of a descriptor with a session or of another.  *)
LEMMA DeleteOne ==
    ASSUME IInv, NEW fd \in Fds, Delete(fd)
    PROVE  /\ Instance' /\ KernelOK'
           /\ \/ List' = List /\ fd \notin linked
              \/ \E j \in DOMAIN List : /\ List[j].fd = fd
                                        /\ \E pi : Removes(List, j, List', pi)
<1>1. Instance /\ KernelOK
  BY AtRest DEF Delete, Idle
<1>2. CASE /\ fd \in linked /\ tssx_count > 0 /\ ~Unknown(fd)
           /\ _epoll_erase_from_instance(fd)
           /\ UNCHANGED <<normal_count, kernel, miscounted, aborted>>
  <2>1. KernelOK'
    BY <1>1, <1>2 DEF Delete, KernelOK, KernelCounted
  <2> QED BY <1>1, <1>2, <2>1, EraseList
<1>3. CASE /\ fd \notin linked
           /\ _epoll_normal_delete(fd)
           /\ UNCHANGED <<first, entries, tssx_count>>
  <2>1. Instance' /\ List' = List
    BY <1>1, <1>3 DEF Instance, List
  <2>2. CASE normal_count = 0
    <3>1. UNCHANGED <<normal_count, kernel, miscounted, linked>>
      BY <1>3, <2>2 DEF _epoll_normal_delete, Delete
    <3>2. KernelOK'
      BY <1>1, <3>1 DEF KernelOK, KernelCounted
    <3> QED BY <1>3, <2>1, <3>2
  <2>3. CASE normal_count # 0
    <3>1. /\ IsFiniteSet(kernel) /\ Cardinality(kernel) \in Nat
          /\ normal_count \in Nat /\ normal_count' \in Nat
          /\ kernel' = kernel \ {fd} /\ normal_count' = normal_count - 1
          /\ kernel' \subseteq Fds /\ linked' = linked
      BY <1>1, <1>3, <2>3, FdsCount DEF KernelOK, _epoll_normal_delete, Delete
    <3>2. miscounted' = (miscounted \/ fd \notin kernel)
      BY <1>3, <2>3, Zenon DEF _epoll_normal_delete
    <3>3. ASSUME fd \in kernel, Cardinality(kernel) <= normal_count
          PROVE  Cardinality(kernel') <= normal_count'
      <4>1. Cardinality(kernel \ {fd}) = Cardinality(kernel) - 1
        BY <3>1, <3>3, FS_RemoveElement
      <4> QED BY <3>1, <3>3, <4>1
    <3>4. KernelCounted
      BY <1>1 DEF KernelOK
    <3>5. KernelCounted'
      BY <3>2, <3>3, <3>4, Zenon DEF KernelCounted
    <3>6. kernel' \cap linked' = {}
      BY <1>1, <3>1 DEF KernelOK
    <3>7. KernelOK'
      BY <3>1, <3>5, <3>6 DEF KernelOK
    <3> QED BY <1>3, <2>1, <3>7
  <2> QED BY <2>2, <2>3
<1> QED BY <1>2, <1>3 DEF Delete

LEMMA DeleteKeeps ==
    ASSUME IInv, NEW fd \in Fds, Delete(fd)
    PROVE  IInv'
<1>1. /\ Types /\ Instance /\ NoDup(List) /\ Within(List, linked) /\ KernelOK
      /\ Disabled(List, Used)
  BY AtRest DEF Delete, Idle
<1>2. /\ Instance' /\ KernelOK'
      /\ \/ List' = List /\ fd \notin linked
         \/ \E j \in DOMAIN List : /\ List[j].fd = fd
                                   /\ \E pi : Removes(List, j, List', pi)
  BY DeleteOne
<1>3. Used' = Used \ {fd}
  BY DEF Delete, Rearm, Used
<1>4. ASSUME NEW j \in DOMAIN List, List[j].fd = fd, NEW pi, Removes(List, j, List', pi)
      PROVE  NoDup(List') /\ Within(List', linked) /\ Disabled(List', Used \ {fd})
  <2>1. NoDup(List')
    BY <1>1, <1>4, DropFn
  <2>2. \A k \in DOMAIN List' : /\ pi[k] \in DOMAIN List /\ List'[k] = List[pi[k]]
                                /\ List[pi[k]].fd # fd
    BY <1>1, <1>4 DEF Removes, NoDup
  <2> QED BY <1>1, <2>1, <2>2 DEF Disabled, Within
<1>5. ASSUME List' = List, fd \notin linked
      PROVE  NoDup(List') /\ Within(List', linked) /\ Disabled(List', Used \ {fd})
  <2>1. \A j \in DOMAIN List : List[j].fd # fd
    BY <1>1, <1>5 DEF Within, KernelOK
  <2> QED BY <1>1, <1>5, <2>1 DEF Disabled
<1>6. first' \in Entry \cup {Junk}
  <2>1. first' = first \/ (tssx_count > 1 /\ tssx_count' = tssx_count - 1)
    BY DEF Delete, _epoll_erase_from_instance, _epoll_erase_first_from_instance
  <2>2. tssx_count > 1 /\ tssx_count' = tssx_count - 1 => first' \in Entry
    BY <1>1, <1>2 DEF Instance, Shape
  <2> QED BY <1>1, <2>1, <2>2 DEF Types
<1>7. NoDup(List') /\ Within(List', linked) /\ Disabled(List', Used')
  BY <1>2, <1>3, <1>4, <1>5
<1>8. open' \in BOOLEAN /\ aborted' \in BOOLEAN /\ miscounted' \in BOOLEAN /\ written' \subseteq Fds /\ overrun' \subseteq Fds
  BY <1>1, Zenon DEF Delete, _epoll_normal_delete, Rearm, Types
<1> QED BY <1>2, <1>6, <1>7, <1>8, BetweenWaits DEF Delete, Idle

(* The steps of a wait that leave the list alone.                           *)
(* The call starts: its path is chosen by what the instance has.           *)
LEMMA WaitKeeps == ASSUME IInv, epoll_wait PROVE IInv'
<1>1. /\ Types /\ InstanceOK /\ Delivered /\ WaitOK
      /\ PathInv /\ CountInv /\ ResultIsTrue
  BY Parts DEF WaitOK
<1>2. List' = List /\ InstanceOK'
  BY <1>1, SameList DEF epoll_wait, NoCall, Idle, instance
<1>3. Cardinality(out) \in Nat /\ (Cardinality(out) = 0 <=> out = {})
  BY <1>1, FdsCount DEF Delivered
<1>4. Types'
  BY <1>1, <1>3, SizesAssumption DEF epoll_wait, NoCall, Idle, Types, PathInv,
     Delivered, told, instance
<1>5. Delivered'
  BY <1>1, <1>2 DEF epoll_wait, NoCall, Idle, Delivered, Disabled, PathInv, Used, told, OneshotInArray
<1>6. PathInv'
  <2>1. PICK size \in Sizes, t \in Timeouts :
           LET path == IF tssx_count = 0 THEN "real"
                       ELSE IF normal_count > 0 THEN "concurrent"
                       ELSE IF tssx_count = 1 THEN "single" ELSE "many"
           IN  /\ call' = [path |-> path, size |-> size, timeout |-> t]
               /\ mpc' = IF path = "concurrent" THEN "scan" ELSE "wait"
               /\ npc' = IF path = "concurrent" THEN "start" ELSE "done"
    BY DEF epoll_wait
  <2> DEFINE path == IF tssx_count = 0 THEN "real"
                     ELSE IF normal_count > 0 THEN "concurrent"
                     ELSE IF tssx_count = 1 THEN "single" ELSE "many"
  <2>2. /\ path \in {"real", "single", "many", "concurrent"}
        /\ path # "real" => tssx_count > 0
    BY <1>1 DEF InstanceOK, Instance, Shape
  <2>3. /\ call' = [path |-> path, size |-> size, timeout |-> t]
        /\ mpc' = IF path = "concurrent" THEN "scan" ELSE "wait"
        /\ npc' = IF path = "concurrent" THEN "start" ELSE "done"
    BY <2>1
  <2> HIDE DEF path
  <2>4. size \in Nat /\ t \in {"forever", "running", "elapsed"}
    BY SizesAssumption, TimeoutsAssumption
  <2>5. UNCHANGED <<tssx_count, nevents, count, out>> /\ mpc = "idle"
    BY DEF epoll_wait, instance, Idle
  <2> QED BY <1>1, <2>2, <2>3, <2>4, <2>5 DEF PathInv, Delivered
<1>7. CountInv'
  BY <1>1, <1>3, SizesAssumption, FS_EmptySet DEF epoll_wait, NoCall, Idle,
     CountInv, PathInv, Types, TimedOut, Delivered
<1>8. ResultIsTrue'
  BY <1>1, <1>3 DEF epoll_wait, NoCall, Idle, ResultIsTrue,
     ResultCountsEvents, OverrunNeedsBoth, ZeroAmongSeveral, CountInv,
     PathInv, Types, TimedOut
<1>9. IInv' <=> Types' /\ InstanceOK' /\ Delivered' /\ WaitOK'
  BY Parts, PTL
<1> QED BY <1>2, <1>4, <1>5, <1>6, <1>7, <1>8, <1>9 DEF WaitOK

(* The time is up.                                                         *)
LEMMA ExpireKeeps == ASSUME IInv, Expire PROVE IInv'
<1>1. /\ Types /\ InstanceOK /\ Delivered /\ WaitOK
      /\ PathInv /\ CountInv /\ ResultIsTrue
  BY Parts DEF WaitOK
<1>2. List' = List /\ InstanceOK'
  BY <1>1, SameList DEF Expire, instance
<1>3. Cardinality(out) \in Nat /\ (Cardinality(out) = 0 <=> out = {})
  BY <1>1, FdsCount DEF Delivered
<1>4. Types'
  BY <1>1, <1>3 DEF Expire, Types, PathInv, Delivered, told, instance
<1>5. Delivered'
  BY <1>1, <1>2 DEF Expire, Delivered, Disabled, PathInv, Used, told, OneshotInArray
<1>6. PathInv'
  BY <1>1 DEF Expire, PathInv, instance
<1>7. CountInv'
  BY <1>1, <1>3 DEF Expire, CountInv, PathInv, Types, TimedOut, Delivered
<1>8. ResultIsTrue'
  BY <1>1, <1>3 DEF Expire, ResultIsTrue, ResultCountsEvents,
     OverrunNeedsBoth, ZeroAmongSeveral, CountInv, PathInv, Types, TimedOut
<1>9. IInv' <=> Types' /\ InstanceOK' /\ Delivered' /\ WaitOK'
  BY Parts, PTL
<1> QED BY <1>2, <1>4, <1>5, <1>6, <1>7, <1>8, <1>9 DEF WaitOK

(* The real epoll_wait returns.                                            *)
LEMMA RealWaitKeeps == ASSUME IInv, RealWait PROVE IInv'
<1>1. /\ Types /\ InstanceOK /\ Delivered /\ WaitOK
      /\ PathInv /\ CountInv /\ ResultIsTrue
  BY Parts DEF WaitOK
<1>2. List' = List /\ InstanceOK'
  BY <1>1, SameList DEF RealWait, Return, KernelEvents, ERROR, instance
<1>3. Cardinality(out) \in Nat /\ (Cardinality(out) = 0 <=> out = {})
  BY <1>1, FdsCount DEF Delivered
<1>4. Types'
  BY <1>1, <1>3 DEF RealWait, Return, KernelEvents, ERROR, Types, PathInv,
     Delivered, told, instance
<1>5. Delivered'
  <2>1. out = {} /\ out' = {} /\ UNCHANGED <<written, overrun>>
    BY <1>1 DEF RealWait, PathInv, told
  <2>2. Oneshots(out)' = {}
    BY <2>1 DEF Oneshots
  <2>3. OneshotInArray'
    BY <2>2 DEF OneshotInArray
  <2> QED BY <1>1, <1>2, <2>1, <2>3 DEF Delivered, Disabled, Used
<1>6. PathInv'
  BY <1>1 DEF RealWait, Return, KernelEvents, ERROR, PathInv, instance
<1>7. CountInv'
  BY <1>1, <1>3 DEF RealWait, Return, KernelEvents, ERROR, CountInv, PathInv,
     Types, TimedOut, Delivered
<1>8. ResultIsTrue'
  BY <1>1, <1>3 DEF RealWait, Return, KernelEvents, ERROR, ResultIsTrue,
     ResultCountsEvents, OverrunNeedsBoth, ZeroAmongSeveral, CountInv,
     PathInv, Types, TimedOut
<1>9. IInv' <=> Types' /\ InstanceOK' /\ Delivered' /\ WaitOK'
  BY Parts, PTL
<1> QED BY <1>2, <1>4, <1>5, <1>6, <1>7, <1>8, <1>9 DEF WaitOK

(* The caller looks at the shared count.                                   *)
LEMMA LoadKeeps == ASSUME IInv, MLoad PROVE IInv'
<1>1. /\ Types /\ InstanceOK /\ Delivered /\ WaitOK
      /\ PathInv /\ CountInv /\ ResultIsTrue
  BY Parts DEF WaitOK
<1>2. List' = List /\ InstanceOK'
  BY <1>1, SameList DEF MLoad, MainOnly, AfterScan, instance
<1>3. Cardinality(out) \in Nat /\ (Cardinality(out) = 0 <=> out = {})
  BY <1>1, FdsCount DEF Delivered
<1>4. Types'
  BY <1>1, <1>3 DEF MLoad, MainOnly, AfterScan, Types, PathInv, Delivered,
     told, instance
<1>5. Delivered'
  BY <1>1, <1>2 DEF MLoad, MainOnly, AfterScan, Delivered, Disabled, PathInv, Used, told, OneshotInArray
<1>6. PathInv'
  BY <1>1 DEF MLoad, MainOnly, AfterScan, PathInv, instance
<1>7. CountInv'
  BY <1>1, <1>3 DEF MLoad, MainOnly, AfterScan, CountInv, PathInv, Types,
     TimedOut, Delivered
<1>8. ResultIsTrue'
  BY <1>1, <1>3 DEF MLoad, MainOnly, AfterScan, ResultIsTrue,
     ResultCountsEvents, OverrunNeedsBoth, ZeroAmongSeveral, CountInv,
     PathInv, Types, TimedOut
<1>9. IInv' <=> Types' /\ InstanceOK' /\ Delivered' /\ WaitOK'
  BY Parts, PTL
<1> QED BY <1>2, <1>4, <1>5, <1>6, <1>7, <1>8, <1>9 DEF WaitOK

(* The caller signals the second thread.                                   *)
LEMMA KillKeeps == ASSUME IInv, MKill PROVE IInv'
<1>1. /\ Types /\ InstanceOK /\ Delivered /\ WaitOK
      /\ PathInv /\ CountInv /\ ResultIsTrue
  BY Parts DEF WaitOK
<1>2. List' = List /\ InstanceOK'
  BY <1>1, SameList DEF MKill, MainOnly, instance
<1>3. Cardinality(out) \in Nat /\ (Cardinality(out) = 0 <=> out = {})
  BY <1>1, FdsCount DEF Delivered
<1>4. Types'
  BY <1>1, <1>3 DEF MKill, MainOnly, Types, PathInv, Delivered, told, instance
<1>5. Delivered'
  BY <1>1, <1>2 DEF MKill, MainOnly, Delivered, Disabled, PathInv, Used, told, OneshotInArray
<1>6. PathInv'
  BY <1>1 DEF MKill, MainOnly, PathInv, instance
<1>7. CountInv'
  BY <1>1, <1>3 DEF MKill, MainOnly, CountInv, PathInv, Types, TimedOut,
     Delivered
<1>8. ResultIsTrue'
  BY <1>1, <1>3 DEF MKill, MainOnly, ResultIsTrue, ResultCountsEvents,
     OverrunNeedsBoth, ZeroAmongSeveral, CountInv, PathInv, Types, TimedOut
<1>9. IInv' <=> Types' /\ InstanceOK' /\ Delivered' /\ WaitOK'
  BY Parts, PTL
<1> QED BY <1>2, <1>4, <1>5, <1>6, <1>7, <1>8, <1>9 DEF WaitOK

(* The caller adds its events.                                             *)
LEMMA MainAddKeeps == ASSUME IInv, MAdd PROVE IInv'
<1>1. /\ Types /\ InstanceOK /\ Delivered /\ WaitOK
      /\ PathInv /\ CountInv /\ ResultIsTrue
  BY Parts DEF WaitOK
<1>2. List' = List /\ InstanceOK'
  BY <1>1, SameList DEF MAdd, MainOnly, instance
<1>3. Cardinality(out) \in Nat /\ (Cardinality(out) = 0 <=> out = {})
  BY <1>1, FdsCount DEF Delivered
<1>4. Types'
  BY <1>1, <1>3 DEF MAdd, MainOnly, Types, PathInv, Delivered, told, instance
<1>5. Delivered'
  BY <1>1, <1>2 DEF MAdd, MainOnly, Delivered, Disabled, PathInv, Used, told, OneshotInArray
<1>6. PathInv'
  BY <1>1 DEF MAdd, MainOnly, PathInv, instance
<1>7. CountInv'
  BY <1>1, <1>3 DEF MAdd, MainOnly, CountInv, PathInv, Types, TimedOut,
     Delivered
<1>8. ResultIsTrue'
  BY <1>1, <1>3 DEF MAdd, MainOnly, ResultIsTrue, ResultCountsEvents,
     OverrunNeedsBoth, ZeroAmongSeveral, CountInv, PathInv, Types, TimedOut
<1>9. IInv' <=> Types' /\ InstanceOK' /\ Delivered' /\ WaitOK'
  BY Parts, PTL
<1> QED BY <1>2, <1>4, <1>5, <1>6, <1>7, <1>8, <1>9 DEF WaitOK

(* When the threads have found no more than the array holds, all of it     *)
(* fits behind the events of the real wait.                                *)
LEMMA AllFit ==
    ASSUME NoDup(List), out \subseteq Fds, nevents \in Nat, call.size \in Nat,
           nevents + Cardinality(out) <= call.size
    PROVE  Fitting = out
<1>1. ASSUME NEW f \in out
      PROVE  nevents + Cardinality({g \in out : Ahead(g, f)}) < call.size
  <2> DEFINE S == {g \in out : Ahead(g, f)}
  <2>1. ~Ahead(f, f)
    <3> SUFFICES ASSUME NEW i \in DOMAIN List, NEW j \in DOMAIN List,
                        i < j, List[i].fd = f, List[j].fd = f
                 PROVE  FALSE
      BY DEF Ahead
    <3>1. i = j
      BY DEF NoDup
    <3>2. i \in Nat
      BY DEF List
    <3> QED BY <3>1, <3>2
  <2>2. S \in SUBSET (out \ {f})
    BY <2>1
  <2> HIDE DEF S
  <2>3. IsFiniteSet(out) /\ Cardinality(out) \in Nat
    BY FdsCount
  <2>4. IsFiniteSet(out \ {f}) /\ Cardinality(out \ {f}) = Cardinality(out) - 1
    BY <2>3, FS_RemoveElement
  <2>5. Cardinality(S) <= Cardinality(out \ {f})
    BY <2>2, <2>4, FS_Subset
  <2>6. S \in SUBSET Fds
    BY <2>2
  <2>7. Cardinality(S) \in Nat
    BY <2>6, FdsCount
  <2>8. nevents + Cardinality(S) < call.size
    BY <2>3, <2>4, <2>5, <2>7
  <2> QED BY <2>8 DEF S
<1> QED BY <1>1 DEF Fitting

(* The caller joins the second thread and returns.                         *)
LEMMA JoinKeeps == ASSUME IInv, MJoin PROVE IInv'
<1>1. /\ Types /\ InstanceOK /\ Delivered /\ WaitOK
      /\ PathInv /\ CountInv /\ ResultIsTrue
  BY Parts DEF WaitOK
<1>2. List' = List /\ InstanceOK'
  BY <1>1, SameList DEF MJoin, MainOnly, instance
<1>3. Cardinality(out) \in Nat /\ (Cardinality(out) = 0 <=> out = {})
  BY <1>1, FdsCount DEF Delivered
<1>4. \A S : Oneshots(S) \subseteq Fds
  <2>1. \A i \in DOMAIN List : List[i].fd \in Fds
    BY <1>1 DEF InstanceOK, Within, Types
  <2> QED BY <2>1 DEF Oneshots
<1>5. Types'
  BY <1>1, <1>3, <1>4 DEF MJoin, MainOnly, Return, Joined, Types, PathInv,
     Delivered, instance, InstanceOK, Instance, Shape
<1>6. Delivered'
  <2>1. Used' = Used \cup Oneshots(Fitting) \cup Oneshots(out \ Fitting)
    BY DEF MJoin, Used
  <2>2. Disabled(List, Used')
    BY <1>1, <2>1 DEF Delivered, Disabled, Oneshots
  <2>3. result' <= call'.size => Oneshots(out)' \subseteq written'
    <3> SUFFICES ASSUME result' <= call'.size PROVE Oneshots(out)' \subseteq written'
      OBVIOUS
    <3>1. Oneshots(out)' = Oneshots(out)
      BY <1>2 DEF Oneshots, MJoin, _is_oneshot
    <3>2. nevents + Cardinality(out) <= call.size
      BY <1>1, <1>3 DEF MJoin, MainOnly, Return, Joined, CountInv, PathInv, Types
    <3>3. Fitting = out
      BY <1>1, <3>2, AllFit DEF InstanceOK, Delivered, Types, PathInv
    <3> QED BY <3>1, <3>3 DEF MJoin
  <2>4. OneshotInArray'
    BY <2>3 DEF OneshotInArray
  <2> QED BY <1>1, <1>2, <2>2, <2>4 DEF Delivered, Disabled, MJoin, Return
<1>7. PathInv'
  BY <1>1 DEF MJoin, MainOnly, Return, Joined, PathInv, instance
<1>8. CountInv'
  BY <1>1, <1>3 DEF MJoin, MainOnly, Return, Joined, CountInv, PathInv,
     Types, TimedOut, Delivered
<1>9. ResultIsTrue'
  BY <1>1, <1>3 DEF MJoin, MainOnly, Return, Joined, ResultIsTrue,
     ResultCountsEvents, OverrunNeedsBoth, ZeroAmongSeveral, CountInv,
     PathInv, Types, TimedOut
<1>10. IInv' <=> Types' /\ InstanceOK' /\ Delivered' /\ WaitOK'
  BY Parts, PTL
<1> QED BY <1>2, <1>5, <1>6, <1>7, <1>8, <1>9, <1>10 DEF WaitOK

(* The second thread starts.                                               *)
LEMMA StartKeeps == ASSUME IInv, NStart PROVE IInv'
<1>1. /\ Types /\ InstanceOK /\ Delivered /\ WaitOK
      /\ PathInv /\ CountInv /\ ResultIsTrue
  BY Parts DEF WaitOK
<1>2. List' = List /\ InstanceOK'
  BY <1>1, SameList DEF NStart, NormalOnly, instance
<1>3. Cardinality(out) \in Nat /\ (Cardinality(out) = 0 <=> out = {})
  BY <1>1, FdsCount DEF Delivered
<1>4. Types'
  BY <1>1, <1>3 DEF NStart, NormalOnly, Types, PathInv, Delivered, told, instance
<1>5. Delivered'
  BY <1>1, <1>2 DEF NStart, NormalOnly, Delivered, Disabled, PathInv, Used, told, OneshotInArray
<1>6. PathInv'
  BY <1>1 DEF NStart, NormalOnly, PathInv, instance
<1>7. CountInv'
  BY <1>1, <1>3 DEF NStart, NormalOnly, CountInv, PathInv, Types, TimedOut,
     Delivered
<1>8. ResultIsTrue'
  BY <1>1, <1>3 DEF NStart, NormalOnly, ResultIsTrue, ResultCountsEvents,
     OverrunNeedsBoth, ZeroAmongSeveral, CountInv, PathInv, Types, TimedOut
<1>9. IInv' <=> Types' /\ InstanceOK' /\ Delivered' /\ WaitOK'
  BY Parts, PTL
<1> QED BY <1>2, <1>4, <1>5, <1>6, <1>7, <1>8, <1>9 DEF WaitOK

(* The real wait of the second thread ends.                                *)
LEMMA NormalWaitKeeps == ASSUME IInv, NWait PROVE IInv'
<1>1. /\ Types /\ InstanceOK /\ Delivered /\ WaitOK
      /\ PathInv /\ CountInv /\ ResultIsTrue
  BY Parts DEF WaitOK
<1>2. List' = List /\ InstanceOK'
  BY <1>1, SameList DEF NWait, NormalOnly, KernelEvents, instance
<1>3. Cardinality(out) \in Nat /\ (Cardinality(out) = 0 <=> out = {})
  BY <1>1, FdsCount DEF Delivered
<1>4. Types'
  BY <1>1, <1>3 DEF NWait, NormalOnly, KernelEvents, Types, PathInv,
     Delivered, told, instance
<1>5. Delivered'
  BY <1>1, <1>2 DEF NWait, NormalOnly, KernelEvents, Delivered, Disabled,
     PathInv, Used, told, OneshotInArray
<1>6. PathInv'
  BY <1>1 DEF NWait, NormalOnly, KernelEvents, PathInv, instance
<1>7. CountInv'
  BY <1>1, <1>3 DEF NWait, NormalOnly, KernelEvents, CountInv, PathInv, Types,
     TimedOut, Delivered
<1>8. ResultIsTrue'
  BY <1>1, <1>3 DEF NWait, NormalOnly, KernelEvents, ResultIsTrue,
     ResultCountsEvents, OverrunNeedsBoth, ZeroAmongSeveral, CountInv,
     PathInv, Types, TimedOut
<1>9. IInv' <=> Types' /\ InstanceOK' /\ Delivered' /\ WaitOK'
  BY Parts, PTL
<1> QED BY <1>2, <1>4, <1>5, <1>6, <1>7, <1>8, <1>9 DEF WaitOK

(* It is interrupted.                                                      *)
LEMMA InterruptedKeeps == ASSUME IInv, NInterrupted PROVE IInv'
<1>1. /\ Types /\ InstanceOK /\ Delivered /\ WaitOK
      /\ PathInv /\ CountInv /\ ResultIsTrue
  BY Parts DEF WaitOK
<1>2. List' = List /\ InstanceOK'
  BY <1>1, SameList DEF NInterrupted, NormalOnly, instance
<1>3. Cardinality(out) \in Nat /\ (Cardinality(out) = 0 <=> out = {})
  BY <1>1, FdsCount DEF Delivered
<1>4. Types'
  BY <1>1, <1>3 DEF NInterrupted, NormalOnly, Types, PathInv, Delivered,
     told, instance
<1>5. Delivered'
  BY <1>1, <1>2 DEF NInterrupted, NormalOnly, Delivered, Disabled, PathInv, Used, told, OneshotInArray
<1>6. PathInv'
  BY <1>1 DEF NInterrupted, NormalOnly, PathInv, instance
<1>7. CountInv'
  BY <1>1, <1>3 DEF NInterrupted, NormalOnly, CountInv, PathInv, Types,
     TimedOut, Delivered
<1>8. ResultIsTrue'
  BY <1>1, <1>3 DEF NInterrupted, NormalOnly, ResultIsTrue,
     ResultCountsEvents, OverrunNeedsBoth, ZeroAmongSeveral, CountInv,
     PathInv, Types, TimedOut
<1>9. IInv' <=> Types' /\ InstanceOK' /\ Delivered' /\ WaitOK'
  BY Parts, PTL
<1> QED BY <1>2, <1>4, <1>5, <1>6, <1>7, <1>8, <1>9 DEF WaitOK

(* The second thread adds its events.                                      *)
LEMMA NormalAddKeeps == ASSUME IInv, NAdd PROVE IInv'
<1>1. /\ Types /\ InstanceOK /\ Delivered /\ WaitOK
      /\ PathInv /\ CountInv /\ ResultIsTrue
  BY Parts DEF WaitOK
<1>2. List' = List /\ InstanceOK'
  BY <1>1, SameList DEF NAdd, NormalOnly, CountWith, instance
<1>3. Cardinality(out) \in Nat /\ (Cardinality(out) = 0 <=> out = {})
  BY <1>1, FdsCount DEF Delivered
<1>4. Types'
  BY <1>1, <1>3 DEF NAdd, NormalOnly, CountWith, Types, PathInv, Delivered,
     told, instance
<1>5. Delivered'
  BY <1>1, <1>2 DEF NAdd, NormalOnly, CountWith, Delivered, Disabled, PathInv, Used, told, OneshotInArray
<1>6. PathInv'
  BY <1>1 DEF NAdd, NormalOnly, CountWith, PathInv, instance
<1>7. CountInv'
  BY <1>1, <1>3 DEF NAdd, NormalOnly, CountWith, CountInv, PathInv, Types,
     TimedOut, Delivered
<1>8. ResultIsTrue'
  BY <1>1, <1>3 DEF NAdd, NormalOnly, CountWith, ResultIsTrue,
     ResultCountsEvents, OverrunNeedsBoth, ZeroAmongSeveral, CountInv,
     PathInv, Types, TimedOut
<1>9. IInv' <=> Types' /\ InstanceOK' /\ Delivered' /\ WaitOK'
  BY Parts, PTL
<1> QED BY <1>2, <1>4, <1>5, <1>6, <1>7, <1>8, <1>9 DEF WaitOK

(* The caller goes on.                                                     *)
LEMMA ResumeKeeps == ASSUME IInv, Resume PROVE IInv'
<1>1. /\ Types /\ InstanceOK /\ Delivered /\ WaitOK
      /\ PathInv /\ CountInv /\ ResultIsTrue
  BY Parts DEF WaitOK
<1>2. List' = List /\ InstanceOK'
  BY <1>1, SameList DEF Resume, NoCall, instance
<1>3. Cardinality(out) \in Nat /\ (Cardinality(out) = 0 <=> out = {})
  BY <1>1, FdsCount DEF Delivered
<1>4. Types'
  BY <1>1, <1>3 DEF Resume, NoCall, Types, PathInv, Delivered, told, instance
<1>5. Delivered'
  BY <1>1, <1>2 DEF Resume, NoCall, Delivered, Disabled, PathInv, Used, told, OneshotInArray
<1>6. PathInv'
  BY <1>1 DEF Resume, NoCall, PathInv, instance
<1>7. CountInv'
  BY <1>1, <1>3, FS_EmptySet DEF Resume, NoCall, CountInv, PathInv, Types,
     TimedOut, Delivered
<1>8. ResultIsTrue'
  BY <1>1, <1>3 DEF Resume, NoCall, ResultIsTrue, ResultCountsEvents,
     OverrunNeedsBoth, ZeroAmongSeveral, CountInv, PathInv, Types, TimedOut
<1>9. IInv' <=> Types' /\ InstanceOK' /\ Delivered' /\ WaitOK'
  BY Parts, PTL
<1> QED BY <1>2, <1>4, <1>5, <1>6, <1>7, <1>8, <1>9 DEF WaitOK

(* The steps of a wait that scan.                                         *)
LEMMA ScanKeeps ==
    ASSUME IInv, FoundSome, linked' = linked, tssx_count > 0, mpc \in {"wait", "scan"}
    PROVE  /\ InstanceOK' /\ tssx_count' = tssx_count /\ first' \in Entry
           /\ out' \subseteq Fds /\ Cardinality(out') <= call.size
           /\ Disabled(List', Used \cup out')
           /\ Disabled(List', Used \cup Oneshots(out')) /\ Oneshots(out') \subseteq Fds
           /\ Oneshots(out)' = Oneshots(out') /\ miscounted' = miscounted
<1>1. Types /\ InstanceOK /\ Delivered /\ PathInv
  BY Parts DEF WaitOK
<1>2. PICK found : Scan(found)
  BY DEF FoundSome
<1>3. call.size \in Nat
  BY <1>1 DEF PathInv
<1>4. /\ Instance' /\ out' \subseteq Fds /\ Cardinality(out') <= call.size
      /\ \E F \in SUBSET DOMAIN List :
            /\ Fires(List, F, List')
            /\ \A i \in F : /\ List[i].enabled /\ _is_oneshot(List[i])
                            /\ List[i].fd \in out'
  BY <1>1, <1>2, <1>3, ScanList DEF InstanceOK
<1>5. PICK F \in SUBSET DOMAIN List :
         /\ Fires(List, F, List')
         /\ \A i \in F : /\ List[i].enabled /\ _is_oneshot(List[i])
                         /\ List[i].fd \in out'
  BY <1>4
<1>6. List \in Seq(Entry) /\ \A i \in DOMAIN List : List[i] \in Entry
  <2>1. List \in Seq(Entry)
    BY <1>1, ListIsSeq DEF InstanceOK
  <2> QED BY <2>1
<1>7. /\ DOMAIN List' = DOMAIN List
      /\ \A i \in DOMAIN List : /\ List'[i].fd = List[i].fd
                                /\ List'[i].events = List[i].events
                                /\ i \notin F => List'[i] = List[i]
  BY <1>5, <1>6 DEF Fires, Entry
<1>8. NoDup(List') /\ Within(List', linked)
  BY <1>1, <1>7 DEF InstanceOK, NoDup, Within
<1>9. /\ tssx_count' = tssx_count /\ normal_count' = normal_count /\ kernel' = kernel
      /\ miscounted' = miscounted
  BY <1>2 DEF Scan
<1>10. InstanceOK' /\ first' \in Entry
  <2>1. KernelOK'
    BY <1>1, <1>9 DEF InstanceOK, KernelOK, KernelCounted
  <2>2. first' \in Entry
    BY <1>4, <1>9 DEF Instance, Shape
  <2> QED BY <1>4, <1>8, <2>1, <2>2 DEF InstanceOK, NoDup, Within
<1>11. Disabled(List, Used)
  BY <1>1 DEF Delivered, Disabled
<1>12. \A i \in DOMAIN List : ~List'[i].enabled =>
          /\ _is_oneshot(List[i]) /\ _is_oneshot(List'[i])
          /\ List[i].fd \in Used \/ List[i].fd \in out'
  <2> TAKE i \in DOMAIN List
  <2>1. _is_oneshot(List[i]) <=> _is_oneshot(List'[i])
    BY <1>7 DEF _is_oneshot
  <2>2. CASE i \in F
    BY <1>5, <2>1, <2>2
  <2>3. CASE i \notin F
    BY <1>7, <1>11, <2>1, <2>3 DEF Disabled
  <2> QED BY <2>2, <2>3
<1>13. Disabled(List', Used \cup out')
  BY <1>7, <1>12 DEF Disabled
<1>14. Disabled(List', Used \cup Oneshots(out'))
  BY <1>7, <1>12 DEF Disabled, Oneshots
<1>15. Oneshots(out') \subseteq Fds
  BY <1>6 DEF Oneshots, Entry
<1>16. Oneshots(out)' = Oneshots(out')
  <2>1. Oneshots(out)' = {List'[i].fd : i \in {i \in DOMAIN List' :
                             _is_oneshot(List'[i]) /\ List'[i].fd \in out'}}
    BY DEF Oneshots, _is_oneshot
  <2>2. \A i \in DOMAIN List : _is_oneshot(List[i]) <=> _is_oneshot(List'[i])
    BY <1>7 DEF _is_oneshot
  <2> QED BY <1>7, <2>1, <2>2 DEF Oneshots
<1> QED BY <1>4, <1>9, <1>10, <1>13, <1>14, <1>15, <1>16

(* A scan of the only entry.                                               *)
LEMMA SingleKeeps == ASSUME IInv, SingleWait PROVE IInv'
<1>1. /\ Types /\ InstanceOK /\ Delivered /\ WaitOK
      /\ PathInv /\ CountInv /\ ResultIsTrue
  BY Parts DEF WaitOK
<1>2. FoundSome /\ linked' = linked /\ tssx_count > 0 /\ mpc \in {"wait", "scan"}
  BY <1>1 DEF SingleWait, PathInv, MainOnly
<1>3. /\ InstanceOK' /\ tssx_count' = tssx_count /\ first' \in Entry
      /\ out' \subseteq Fds /\ Cardinality(out') <= call.size
      /\ Disabled(List', Used \cup out')
      /\ Disabled(List', Used \cup Oneshots(out')) /\ Oneshots(out') \subseteq Fds
      /\ Oneshots(out)' = Oneshots(out') /\ miscounted' = miscounted
  BY <1>2, ScanKeeps
<1>4. Cardinality(out') \in Nat /\ (Cardinality(out') = 0 <=> out' = {})
  BY <1>3, FdsCount
<1>5. Types'
  BY <1>1, <1>3, <1>4 DEF SingleWait, Types, Return
<1>6. Delivered'
  BY <1>1, <1>3 DEF SingleWait, Delivered, Disabled, Used, OneshotInArray, Return
<1>7. PathInv'
  BY <1>1, <1>3 DEF SingleWait, PathInv, Return
<1>8. CountInv'
  BY <1>1, <1>3, <1>4 DEF SingleWait, CountInv, PathInv, Types, TimedOut,
     Return
<1>9. ResultIsTrue'
  BY <1>1, <1>3, <1>4 DEF SingleWait, ResultIsTrue, ResultCountsEvents,
     OverrunNeedsBoth, ZeroAmongSeveral, CountInv, PathInv, Types, TimedOut, Return
<1>10. IInv' <=> Types' /\ InstanceOK' /\ Delivered' /\ WaitOK'
  BY Parts, PTL
<1> QED BY <1>3, <1>5, <1>6, <1>7, <1>8, <1>9, <1>10 DEF WaitOK

(* A scan of several entries.                                              *)
LEMMA ManyKeeps == ASSUME IInv, ManyWait PROVE IInv'
<1>1. /\ Types /\ InstanceOK /\ Delivered /\ WaitOK
      /\ PathInv /\ CountInv /\ ResultIsTrue
  BY Parts DEF WaitOK
<1>2. FoundSome /\ linked' = linked /\ tssx_count > 0 /\ mpc \in {"wait", "scan"}
  BY <1>1 DEF ManyWait, PathInv, MainOnly
<1>3. /\ InstanceOK' /\ tssx_count' = tssx_count /\ first' \in Entry
      /\ out' \subseteq Fds /\ Cardinality(out') <= call.size
      /\ Disabled(List', Used \cup out')
      /\ Disabled(List', Used \cup Oneshots(out')) /\ Oneshots(out') \subseteq Fds
      /\ Oneshots(out)' = Oneshots(out') /\ miscounted' = miscounted
  BY <1>2, ScanKeeps
<1>4. Cardinality(out') \in Nat /\ (Cardinality(out') = 0 <=> out' = {})
  BY <1>3, FdsCount
<1>5. Types'
  BY <1>1, <1>3, <1>4 DEF ManyWait, Types, Return
<1>6. Delivered'
  BY <1>1, <1>3 DEF ManyWait, Delivered, Disabled, Used, OneshotInArray, Return
<1>7. PathInv'
  BY <1>1, <1>3 DEF ManyWait, PathInv, Return
<1>8. CountInv'
  BY <1>1, <1>3, <1>4 DEF ManyWait, CountInv, PathInv, Types, TimedOut, Return
<1>9. ResultIsTrue'
  BY <1>1, <1>3, <1>4 DEF ManyWait, ResultIsTrue, ResultCountsEvents,
     OverrunNeedsBoth, ZeroAmongSeveral, CountInv, PathInv, Types, TimedOut, Return
<1>10. IInv' <=> Types' /\ InstanceOK' /\ Delivered' /\ WaitOK'
  BY Parts, PTL
<1> QED BY <1>3, <1>5, <1>6, <1>7, <1>8, <1>9, <1>10 DEF WaitOK

(* A scan next to the second thread.                                       *)
LEMMA ScanningKeeps == ASSUME IInv, MScan PROVE IInv'
<1>1. /\ Types /\ InstanceOK /\ Delivered /\ WaitOK
      /\ PathInv /\ CountInv /\ ResultIsTrue
  BY Parts DEF WaitOK
<1>2. FoundSome /\ linked' = linked /\ tssx_count > 0 /\ mpc \in {"wait", "scan"}
  BY <1>1 DEF MScan, PathInv, MainOnly
<1>3. /\ InstanceOK' /\ tssx_count' = tssx_count /\ first' \in Entry
      /\ out' \subseteq Fds /\ Cardinality(out') <= call.size
      /\ Disabled(List', Used \cup out')
      /\ Disabled(List', Used \cup Oneshots(out')) /\ Oneshots(out') \subseteq Fds
      /\ Oneshots(out)' = Oneshots(out') /\ miscounted' = miscounted
  BY <1>2, ScanKeeps
<1>4. Cardinality(out') \in Nat /\ (Cardinality(out') = 0 <=> out' = {})
  BY <1>3, FdsCount
<1>5. Types'
  BY <1>1, <1>3, <1>4 DEF MScan, Types, told, MainOnly
<1>6. Delivered'
  BY <1>1, <1>3 DEF MScan, Delivered, Disabled, Used, told, OneshotInArray, MainOnly
<1>7. PathInv'
  BY <1>1, <1>3 DEF MScan, PathInv, MainOnly
<1>8. CountInv'
  BY <1>1, <1>3, <1>4 DEF MScan, CountInv, PathInv, Types, TimedOut, MainOnly
<1>9. ResultIsTrue'
  BY <1>1, <1>3, <1>4 DEF MScan, ResultIsTrue, ResultCountsEvents,
     OverrunNeedsBoth, ZeroAmongSeveral, CountInv, PathInv, Types, TimedOut, MainOnly
<1>10. IInv' <=> Types' /\ InstanceOK' /\ Delivered' /\ WaitOK'
  BY Parts, PTL
<1> QED BY <1>3, <1>5, <1>6, <1>7, <1>8, <1>9, <1>10 DEF WaitOK

(* Every step keeps the invariant.                                         *)
LEMMA StepKeeps == ASSUME IInv, [Next]_vars PROVE IInv'
<1>1. CASE epoll_create1
  BY <1>1, CreateKeeps
<1>2. CASE Close
  BY <1>2, CloseKeeps
<1>3. CASE Control
  <2>1. PICK fd \in Fds : Add(fd) \/ Modify(fd) \/ Delete(fd) \/ ControlUnknown(fd)
    BY <1>3 DEF Control
  <2> QED BY <2>1, AddKeeps, ModifyKeeps, DeleteKeeps, UnknownKeeps
<1>4. CASE epoll_wait
  BY <1>4, WaitKeeps
<1>5. CASE Expire
  BY <1>5, ExpireKeeps
<1>6. CASE RealWait
  BY <1>6, RealWaitKeeps
<1>7. CASE Main
  BY <1>7, SingleKeeps, ManyKeeps, ScanningKeeps, LoadKeeps, KillKeeps,
     MainAddKeeps,
     JoinKeeps DEF Main
<1>8. CASE Normal
  BY <1>8, StartKeeps, NormalWaitKeeps, InterruptedKeeps, NormalAddKeeps
     DEF Normal
<1>9. CASE Resume
  BY <1>9, ResumeKeeps
<1>10. CASE UNCHANGED vars
  <2>1. /\ Types /\ InstanceOK /\ Delivered /\ WaitOK
    BY Parts
  <2>2. /\ UNCHANGED <<open, linked, instance, told, aborted, waiting>>
        /\ UNCHANGED <<first, entries, tssx_count, normal_count, kernel, miscounted>>
        /\ UNCHANGED <<mpc, call, out, npc, nevents, count, result>>
    BY <1>10 DEF vars, instance, waiting
  <2>3. List' = List /\ InstanceOK'
    BY <2>1, <2>2, SameList
  <2>4. Types' /\ Delivered'
    BY <2>1, <2>2, <2>3 DEF Types, told, instance, Delivered, Disabled, Used,
       OneshotInArray, Oneshots
  <2>5. WaitOK'
    BY <2>1, <2>2 DEF WaitOK, PathInv, CountInv, ResultIsTrue,
       ResultCountsEvents,
       OverrunNeedsBoth, ZeroAmongSeveral, TimedOut
  <2>6. IInv' <=> Types' /\ InstanceOK' /\ Delivered' /\ WaitOK'
    BY Parts, PTL
  <2> QED BY <2>3, <2>4, <2>5, <2>6
<1> QED BY <1>1, <1>2, <1>3, <1>4, <1>5, <1>6, <1>7, <1>8, <1>9, <1>10 DEF Next

-----------------------------------------------------------------------------
(***************************************************************************)
(* The theorems.                                                           *)
(***************************************************************************)

(* The inductive invariant: the field and the vector agree with the        *)
(* counts, what is disabled was reported, and the threads of a wait have   *)
(* added what they found, in epoll_ctl, close and the three epoll_waits.   *)
THEOREM EpollInvariant == Spec => []IInv
<1>1. Init => IInv
  BY InitInv
<1>2. IInv /\ [Next]_vars => IInv'
  BY StepKeeps
<1> QED BY <1>1, <1>2, PTL DEF Spec

(* Whatever is registered, changed, removed and closed, the field, the     *)
(* vector and the counters that select the path of a wait stay in order;   *)
(* only a removal the kernel refuses leaves the count of the ordinary      *)
(* descriptors too low.                                                    *)
THEOREM EpollInstanceInOrder == Spec => []InstanceInv
<1>1. IInv => InstanceInv
  BY DEF IInv
<1> QED BY <1>1, EpollInvariant, PTL

(* On each path of epoll_wait a one-shot registration is used up only by   *)
(* an event that was put out, and that event is in the caller's array      *)
(* unless the two threads together found more than it holds.               *)
THEOREM EpollOneshotDelivered == Spec => []OneshotDelivered
<1>1. IInv => OneshotDelivered
  BY DEF IInv, OneshotInv
<1> QED BY <1>1, EpollInvariant, PTL

(* What epoll_wait returns is what its threads found: the count that they  *)
(* share, at most twice the room in the array and more than it only when   *)
(* both found some, and zero only when the time is up - but for the path   *)
(* of a single TSSX entry, which returns zero whatever it found.           *)
THEOREM EpollResultIsTrue == Spec => []ResultIsTrue
<1>1. IInv => ResultIsTrue
  BY DEF IInv
<1> QED BY <1>1, EpollInvariant, PTL

(* The instance is an interest list: what each step does to the function   *)
(* it stands for.                                                          *)
LEMMA EmptyFn == AsFn(<<>>) = [fd \in {} |-> 0]
<1> DEFINE f == AsFn(<<>>)
<1>1. f = [x \in DOMAIN f |-> f[x]] /\ DOMAIN f = {}
  BY DEF AsFn
<1> HIDE DEF f
<1>2. f = [fd \in {} |-> 0]
  BY <1>1
<1> QED BY <1>2 DEF f

LEMMA InitMaps == Init => L!Init
<1> SUFFICES ASSUME Init PROVE L!Init
  OBVIOUS
<1>1. List = <<>>
  BY DEF Init, List
<1>2. AsFunction = [fd \in {} |-> 0]
  BY <1>1, EmptyFn, Names
<1> QED BY <1>2 DEF L!Init

\* The function before and after a step.
LEMMA Functions ==
    /\ AsFunction = AsFn(List) /\ AsFunction' = AsFn(List')
    /\ DOMAIN AsFunction = {List[i].fd : i \in DOMAIN List}
<1>1. AsFunction = AsFn(List)
  BY Names
<1>2. AsFunction' = AsFn(List')
  BY DEF AsFunction, AsFn
<1> QED BY <1>1, <1>2 DEF AsFunction

LEMMA AddMaps ==
    ASSUME IInv, NEW fd \in Fds, Add(fd)
    PROVE  L!Add(fd) \/ UNCHANGED AsFunction
<1>1. Instance /\ NoDup(List)
  BY AtRest DEF Add, Idle
<1>2. /\ \A i \in DOMAIN List : List[i].fd # fd
      /\ \/ List' = List
         \/ \E i \in Interests : List' = Append(List, Armed(fd, i))
  BY AddOne
<1>3. List' = List => UNCHANGED AsFunction
  BY Functions
<1>4. ASSUME NEW i \in Interests, List' = Append(List, Armed(fd, i))
      PROVE  L!Add(fd)
  <2> DEFINE e == Armed(fd, i)
  <2>1. e \in Entry /\ e.fd = fd /\ Registration(e) = [events |-> i, enabled |-> TRUE]
    BY DEF Armed, Entry, Registration
  <2>2. List \in Seq(Entry)
    BY <1>1, ListIsSeq
  <2>3. List' = Append(List, e)
    BY <1>4
  <2> HIDE DEF e
  <2>4. AsFn(Append(List, e)) = [f \in DOMAIN AsFn(List) \cup {e.fd} |->
                             IF f = e.fd THEN Registration(e) ELSE AsFn(List)[f]]
    BY <1>1, <1>2, <2>1, <2>2, AppendFn
  <2>5. AsFunction' = [f \in DOMAIN AsFunction \cup {fd} |->
                          IF f = fd THEN [events |-> i, enabled |-> TRUE] ELSE AsFunction[f]]
    BY <2>1, <2>3, <2>4, Functions
  <2>6. fd \notin DOMAIN AsFunction
    BY <1>2, Functions
  <2> QED BY <2>5, <2>6 DEF L!Add
<1> QED BY <1>2, <1>3, <1>4

LEMMA ModifyMaps ==
    ASSUME IInv, NEW fd \in Fds, Modify(fd)
    PROVE  L!Modify(fd)
<1>1. Instance /\ NoDup(List)
  BY AtRest DEF Modify, Idle
<1>2. PICK i \in Interests, j \in DOMAIN List :
         List[j].fd = fd /\ List' = [List EXCEPT ![j] = Armed(fd, i)]
  BY ModifyOne
<1> DEFINE e == Armed(fd, i)
<1>3. e \in Entry /\ e.fd = fd /\ Registration(e) = [events |-> i, enabled |-> TRUE]
  BY DEF Armed, Entry, Registration
<1>4. List \in Seq(Entry)
  BY <1>1, ListIsSeq
<1>5. List' = [List EXCEPT ![j] = e]
  BY <1>2
<1> HIDE DEF e
<1>6. /\ e.fd \in DOMAIN AsFn(List)
      /\ AsFn([List EXCEPT ![j] = e]) = Updated(AsFn(List), e.fd, Registration(e))
  BY <1>1, <1>2, <1>3, <1>4, UpdateFn
<1>7. /\ fd \in DOMAIN AsFunction
      /\ AsFunction' = [AsFunction EXCEPT ![fd] = [events |-> i, enabled |-> TRUE]]
  BY <1>3, <1>5, <1>6, Functions DEF Updated
<1> QED BY <1>7 DEF L!Modify

LEMMA DeleteMaps ==
    ASSUME IInv, NEW fd \in Fds, Delete(fd)
    PROVE  L!Delete(fd) \/ UNCHANGED AsFunction
<1>1. Instance /\ NoDup(List)
  BY AtRest DEF Delete, Idle
<1>2. \/ List' = List
      \/ \E j \in DOMAIN List : /\ List[j].fd = fd
                                /\ \E pi : Removes(List, j, List', pi)
  BY DeleteOne
<1>3. List' = List => UNCHANGED AsFunction
  BY Functions
<1>4. ASSUME NEW j \in DOMAIN List, List[j].fd = fd, NEW pi, Removes(List, j, List', pi)
      PROVE  L!Delete(fd)
  <2>1. AsFn(List') = [f \in DOMAIN AsFn(List) \ {List[j].fd} |-> AsFn(List)[f]]
    BY <1>1, <1>4, DropFn
  <2>2. AsFunction' = [f \in DOMAIN AsFunction \ {fd} |-> AsFunction[f]]
    BY <1>4, <2>1, Functions
  <2>3. fd \in DOMAIN AsFunction
    BY <1>4, Functions
  <2> QED BY <2>2, <2>3 DEF L!Delete
<1> QED BY <1>2, <1>3, <1>4

LEMMA CloseMaps ==
    ASSUME IInv, Close
    PROVE  L!Close
<1>1. List' = <<>>
  BY CloseList
<1>2. AsFunction' = [fd \in {} |-> 0]
  BY <1>1, EmptyFn, Functions
<1> QED BY <1>2 DEF L!Close

LEMMA ScanMaps ==
    ASSUME IInv, FoundSome, tssx_count > 0
    PROVE  L!Deliver
<1>1. Instance /\ NoDup(List) /\ call.size \in Nat
  BY Parts DEF InstanceOK, WaitOK, PathInv
<1>2. PICK found : Scan(found)
  BY DEF FoundSome
<1>3. PICK F \in SUBSET DOMAIN List :
         /\ Fires(List, F, List')
         /\ \A i \in F : List[i].enabled /\ _is_oneshot(List[i])
  BY <1>1, <1>2, ScanList
<1>4. List \in Seq(Entry)
  BY <1>1, ListIsSeq
<1> DEFINE fired == {List[i].fd : i \in F}
           l == AsFn(List)
<1>6. fired \in SUBSET DOMAIN l /\ AsFn(List') = Silenced(l, fired)
  BY <1>1, <1>3, <1>4, FireFn
<1>7. \A fd \in fired : "ONESHOT" \in l[fd].events /\ l[fd].enabled
  <2> TAKE fd \in fired
  <2>1. PICK i \in F : fd = List[i].fd
    OBVIOUS
  <2>2. l[fd] = Registration(List[i])
    BY <1>1, <2>1, FnAt
  <2> HIDE DEF l
  <2> QED BY <1>3, <2>1, <2>2 DEF Registration, _is_oneshot
<1> HIDE DEF fired
<1>8. l = AsFunction
  BY Functions
<1> HIDE DEF l
<1>9. /\ fired \in SUBSET DOMAIN AsFunction
      /\ \A fd \in fired : "ONESHOT" \in AsFunction[fd].events /\ AsFunction[fd].enabled
      /\ AsFunction' = Silenced(AsFunction, fired)
  BY <1>6, <1>7, <1>8, Functions
<1> QED BY <1>9 DEF L!Deliver, Silenced

(* The other steps do not touch it.                                        *)
LEMMA SameMaps ==
    ASSUME UNCHANGED instance
    PROVE  UNCHANGED AsFunction
<1>1. List' = List
  BY DEF List, instance
<1> QED BY <1>1, Functions

LEMMA StepMaps == ASSUME IInv, [Next]_vars PROVE [L!Next]_AsFunction
<1>1. CASE UNCHANGED instance
  BY <1>1, SameMaps
<1>2. CASE Close
  BY <1>2, CloseMaps DEF L!Next
<1>3. CASE Control
  <2>1. PICK fd \in Fds : Add(fd) \/ Modify(fd) \/ Delete(fd) \/ ControlUnknown(fd)
    BY <1>3 DEF Control
  <2>2. CASE Add(fd)
    BY <2>2, AddMaps DEF L!Next
  <2>3. CASE Modify(fd)
    BY <2>3, ModifyMaps DEF L!Next
  <2>4. CASE Delete(fd)
    BY <2>4, DeleteMaps DEF L!Next
  <2>5. CASE ControlUnknown(fd)
    BY <2>5, SameMaps DEF ControlUnknown
  <2> QED BY <2>1, <2>2, <2>3, <2>4, <2>5
<1>4. CASE SingleWait \/ ManyWait \/ MScan
  <2>1. PathInv
    BY Parts DEF WaitOK
  <2>2. FoundSome /\ tssx_count > 0
    BY <1>4, <2>1 DEF SingleWait, ManyWait, MScan, PathInv
  <2> QED BY <2>2, ScanMaps DEF L!Next
<1>5. CASE epoll_create1 \/ epoll_wait \/ Expire \/ RealWait \/ Resume
  BY <1>1, <1>5 DEF epoll_create1, epoll_wait, Expire, RealWait, Resume
<1>6. CASE MLoad \/ MKill \/ MAdd \/ MJoin
  BY <1>1, <1>6 DEF MLoad, MKill, MAdd, MJoin
<1>7. CASE Normal
  BY <1>1, <1>7 DEF Normal, NStart, NWait, NInterrupted, NAdd, NormalOnly
<1>8. CASE UNCHANGED vars
  BY <1>1, <1>8 DEF vars
<1> QED BY <1>2, <1>3, <1>4, <1>5, <1>6, <1>7, <1>8 DEF Next, Main

(* The detailed instance implements the interest list: each epoll_ctl,     *)
(* close and delivery of a one-shot event does to the set of registrations *)
(* what its caller was told it does.                                       *)
THEOREM EpollIsInterestList == Spec => ImplementsInterestList
<1>1. Init => L!Init
  BY InitMaps
<1>2. IInv /\ [Next]_vars => [L!Next]_AsFunction
  BY StepMaps
<1> QED BY <1>1, <1>2, EpollInvariant, PTL DEF Spec, ImplementsInterestList,
           L!Spec

=============================================================================
