---------------------------- MODULE SelectProofs ----------------------------
(***************************************************************************)
(* Proofs about Select, for any finite set of descriptors, any division of *)
(* it between TSSX and the kernel, any calls and any conditions.           *)
(***************************************************************************)
EXTENDS SelectInv, FiniteSetTheorems, NaturalsInduction, WellFoundedInduction, TLAPS

(***************************************************************************)
(* The arguments of a call.                                                *)
(***************************************************************************)

Given == {NULL} \cup SUBSET Fds

All == {"IN", "OUT", "HUP", "ERR", "NVAL"}

LEMMA CallsTyped ==
  ASSUME NEW c \in Calls \cup {NoCall}
  PROVE  /\ c.read \in Given /\ c.write \in Given /\ c.error \in Given
         /\ c.nfds \in Nat
BY CallsAssumption DEF NoCall, Given

(* Every set of descriptors has a lowest one.                              *)
LEMMA LeastOf ==
  ASSUME NEW D \in SUBSET Nat, D # {}
  PROVE  \E k \in D : \A j \in D : k <= j
<1> DEFINE R == OpToRel(<, Nat)
<1>1. IsWellFoundedOn(R, Nat)
  BY NatLessThanWellFounded
<1>2. PICK k \in D : \A j \in D : ~(<<j, k>> \in R)
  <2> HIDE DEF R
  <2> QED  BY <1>1, WFMin
<1>3. ASSUME NEW j \in D PROVE k <= j
  <2>1. j < k => <<j, k>> \in R
    BY DEF OpToRel
  <2> HIDE DEF R
  <2> QED  BY <1>2, <2>1
<1> QED  BY <1>3

LEMMA LowestIs ==
  ASSUME NEW c \in Calls \cup {NoCall}
  PROVE  /\ Lowest(c) \in Nat
         /\ Counted(c) = {} => Lowest(c) = c.nfds
         /\ Counted(c) # {} => Lowest(c) \in Counted(c)
         /\ \A fd \in Counted(c) : Lowest(c) <= fd
<1>1. c.nfds \in Nat /\ Counted(c) \in SUBSET Nat
  BY CallsTyped, FdsAssumption DEF Counted
<1>2. CASE Counted(c) = {}
  BY <1>1, <1>2 DEF Lowest
<1>3. CASE Counted(c) # {}
  <2>1. \E fd \in Counted(c) : \A other \in Counted(c) : fd <= other
    BY <1>1, <1>3, LeastOf
  <2>2. Lowest(c) = CHOOSE fd \in Counted(c) : \A other \in Counted(c) : fd <= other
    BY <1>3 DEF Lowest
  <2>3. Lowest(c) \in Counted(c) /\ \A other \in Counted(c) : Lowest(c) <= other
    BY <2>1, <2>2
  <2> QED  BY <1>1, <1>3, <2>3
<1> QED  BY <1>2, <1>3

LEMMA CountedFinite ==
  ASSUME NEW c
  PROVE  /\ Counted(c) \subseteq Fds /\ IsFiniteSet(Counted(c))
         /\ Cardinality(Counted(c)) \in Nat /\ Cardinality(Fds) \in Nat
         /\ Cardinality(Counted(c)) <= Cardinality(Fds)
BY FdsAssumption, FS_Subset, FS_CardinalityType DEF Counted

LEMMA SomeFinite ==
  ASSUME NEW P \in SUBSET Fds
  PROVE  IsFiniteSet(P) /\ Cardinality(P) \in Nat /\ Cardinality(P) <= Cardinality(Fds)
BY FdsAssumption, FS_Subset, FS_CardinalityType

(* What a call can return.                                                 *)
LEMMA ResultFits ==
  ASSUME NEW n, n = ERROR \/ n = 0 \/ n \in 0 .. Cardinality(Fds)
  PROVE  n \in ERROR .. Cardinality(Fds)
BY SomeFinite, CountedFinite DEF ERROR

(* The loop has passed one descriptor more.                                *)
LEMMA BelowGrows ==
  ASSUME NEW k \in Fds
  PROVE  Cardinality({fd \in Fds : fd < k + 1}) = Cardinality({fd \in Fds : fd < k}) + 1
<1> DEFINE B == {fd \in Fds : fd < k}
<1>1. {fd \in Fds : fd < k + 1} = B \cup {k} /\ k \notin B
  <2>1. k \in Nat /\ \A fd \in Fds : fd \in Nat
    BY FdsAssumption
  <2>2. \A fd \in Fds : fd < k + 1 <=> fd < k \/ fd = k
    BY <2>1
  <2>3. ~(k < k)
    BY <2>1
  <2> QED  BY <2>2, <2>3
<1>2. IsFiniteSet(B)
  BY SomeFinite
<1> HIDE DEF B
<1> QED  BY <1>1, <1>2, FS_AddElement DEF B

(* The way a call takes says which of its descriptors have a session.      *)
LEMMA PathIs ==
  ASSUME NEW c \in Calls
  PROVE  /\ Path(c) \in {"died", "aborted", "many", "real", "poll"}
         /\ Path(c) = "died" => Counted(c) = {Lowest(c)} /\ Lowest(c) \in linked
         /\ Path(c) = "aborted" => Counted(c) = {Lowest(c)} /\ ~FastAsserts(c)
         /\ Path(c) = "many" => Counted(c) \subseteq linked /\ Cardinality(Counted(c)) # 1
         /\ Path(c) = "real" => Counted(c) \cap linked = {}
<1>1. Path(c) \in {"died", "aborted"} => Counted(c) \subseteq linked /\ Cardinality(Counted(c)) = 1
  BY DEF Path
<1>2. Cardinality(Counted(c)) = 1 => Counted(c) = {Lowest(c)}
  <2> SUFFICES ASSUME Cardinality(Counted(c)) = 1 PROVE Counted(c) = {Lowest(c)}
    OBVIOUS
  <2>1. PICK x : Counted(c) = {x}
    BY CountedFinite, FS_Singleton
  <2> QED  BY <2>1, LowestIs
<1>3. Path(c) = "aborted" => ~FastAsserts(c)
  BY DEF Path
<1>4. /\ Path(c) \in {"died", "aborted", "many", "real", "poll"}
      /\ Path(c) = "many" => Counted(c) \subseteq linked /\ Cardinality(Counted(c)) # 1
      /\ Path(c) = "real" => Counted(c) \cap linked = {}
  BY DEF Path
<1> QED  BY <1>1, <1>2, <1>3, <1>4

LEMMA ClearedSets ==
  ASSUME NEW s
  PROVE  _clear_all_sets(s) \in Sets /\ Clear(_clear_all_sets(s))
<1>1. \A set : _clear_set(set) \in Given /\ \A fd \in Fds : ~_fd_is_set(fd, _clear_set(set))
  BY DEF _clear_set, _fd_is_set, Given
<1> QED  BY <1>1 DEF _clear_all_sets, Sets, Clear, _is_in_any_set, Given

(* A tame call with one descriptor passes the fast path's assertions.      *)
LEMMA TameFast ==
  ASSUME NEW c \in Calls, Tame(c), Counted(c) = {Lowest(c)}
  PROVE  FastAsserts(c)
<1>1. Lowest(c) \in Nat /\ c.nfds \in Nat /\ Lowest(c) < c.nfds
  BY LowestIs, CallsTyped DEF Counted
<1>2. Lowest(c) + 1 = c.nfds
  <2> SUFFICES ASSUME Lowest(c) + 1 < c.nfds PROVE FALSE
    BY <1>1
  <2>1. Lowest(c) + 1 \in Counted(c)
    BY <1>1 DEF Tame
  <2> QED  BY <1>1, <2>1
<1>3. Lowest(c) \in c.read \cup c.write /\ c.read # NULL /\ c.write # NULL
  BY DEF Tame
<1> QED  BY <1>2, <1>3 DEF FastAsserts, _fd_is_set

(* In a tame call every descriptor of the loop is one of the sets'.        *)
LEMMA TameLoop ==
  ASSUME NEW c \in Calls, Tame(c), NEW k \in Nat, Lowest(c) <= k, k < c.nfds
  PROVE  k \in Counted(c)
<1>1. Counted(c) # {} /\ Lowest(c) \in Counted(c) /\ Lowest(c) \in Nat /\ c.nfds \in Nat
  BY LowestIs, CallsTyped
<1>2. k = Lowest(c) \/ (Lowest(c) < k /\ k \in 0 .. c.nfds)
  BY <1>1
<1> QED  BY <1>1, <1>2 DEF Tame

(***************************************************************************)
(* Between the calls, and outside of the program.                          *)
(***************************************************************************)

Rest == /\ RouteInv /\ FastInv /\ ManyInv /\ EntriesInv
        /\ ResultCountsDescriptors /\ ZeroMeansNothing /\ BitsAskedAndTrue /\ TameNeverAborts

LEMMA IdleRest == pc = "idle" => Rest
BY DEF Rest, RouteInv, FastInv, ManyInv, EntriesInv, ResultCountsDescriptors,
   ZeroMeansNothing,
   BitsAskedAndTrue, TameNeverAborts

LEMMA Parts == TypeOK /\ CallInv /\ Rest <=> IInv
BY DEF IInv, Rest

LEMMA InitInv == Init => IInv
<1> SUFFICES ASSUME Init PROVE IInv
  OBVIOUS
<1>1. TypeOK
  <2>1. 0 \in 0 .. Cardinality(Fds) /\ 0 \in ERROR .. Cardinality(Fds)
    BY SomeFinite, ResultFits
  <2>2. failed \in BOOLEAN
    BY Zenon DEF Init
  <2> QED  BY <2>1, <2>2, FdsAssumption DEF Init, TypeOK, NoEvents, Sets
<1>2. CallInv
  BY DEF Init, CallInv, NoEvents
<1>3. Rest
  BY IdleRest DEF Init
<1> QED  BY <1>1, <1>2, <1>3, Parts

(* Something becomes true of a descriptor.                                 *)
LEMMA ArriveKeeps ==
  ASSUME IInv, NEW fd \in Fds, NEW c \in Conditions, Arrive(fd, c) PROVE IInv'
<1>0. /\ pc' = pc /\ pc \notin {"returned", "aborted"} /\ UNCHANGED <<linked, call, timeout, local>>
      /\ args' = args /\ was' = was /\ sets' = sets /\ cursor' = cursor /\ revents' = revents /\ failed' = failed
      /\ ready_count' = ready_count /\ result' = result
  BY DEF Arrive, Running, call, local
<1>1. state' \in [Fds -> SUBSET All] /\ \A f \in Fds : state[f] \subseteq state'[f]
  <2>1. c \in All
    BY ConditionsAssumption DEF All
  <2>2. state \in [Fds -> SUBSET All] /\ state' = [state EXCEPT ![fd] = @ \cup {c}]
    BY DEF IInv, TypeOK, Arrive, All
  <2> QED  BY <2>1, <2>2
<1>2. TypeOK'
  BY <1>0, <1>1 DEF IInv, TypeOK, All
<1>3. CallInv'
  BY <1>0, <1>1 DEF IInv, CallInv
<1>4. RouteInv'
  BY <1>0 DEF IInv, RouteInv, Counted, Lowest
<1>5. FastInv'
  <2>1. pc = "read" => cursor \in Fds
    BY DEF IInv, RouteInv, TypeOK
  <2> QED  BY <1>0, <1>1, <2>1 DEF IInv, FastInv, Clear, WithBits, Members
<1>6. ManyInv'
  BY <1>0 DEF IInv, ManyInv, Clear, Counted, NothingWas, Members
<1>7. EntriesInv'
  BY <1>0, <1>1 DEF IInv, EntriesInv, Counted, NothingWas, Members
<1>8. ResultCountsDescriptors' /\ ZeroMeansNothing' /\ BitsAskedAndTrue' /\ TameNeverAborts'
  BY <1>0 DEF ResultCountsDescriptors, ZeroMeansNothing, BitsAskedAndTrue,
     TameNeverAborts
<1> QED  BY <1>2, <1>3, <1>4, <1>5, <1>6, <1>7, <1>8 DEF IInv

(* The time is up.                                                         *)
LEMMA ExpireKeeps == ASSUME IInv, Expire PROVE IInv'
<1>0. /\ pc' = pc /\ pc \notin {"returned", "aborted"} /\ linked' = linked /\ state' = state
      /\ args' = args /\ was' = was /\ sets' = sets /\ cursor' = cursor /\ revents' = revents /\ failed' = failed
      /\ ready_count' = ready_count /\ result' = result /\ timeout' = "elapsed"
  BY DEF Expire, Running, world, call, local
<1>1. TypeOK'
  BY <1>0 DEF IInv, TypeOK
<1>2. CallInv' /\ RouteInv' /\ FastInv' /\ ManyInv' /\ EntriesInv'
  BY <1>0 DEF IInv, CallInv, RouteInv, FastInv, ManyInv, EntriesInv, Clear,
     WithBits, Members,
     Counted, Lowest, NothingWas
<1>3. ResultCountsDescriptors' /\ ZeroMeansNothing' /\ BitsAskedAndTrue' /\ TameNeverAborts'
  BY <1>0 DEF ResultCountsDescriptors, ZeroMeansNothing, BitsAskedAndTrue,
     TameNeverAborts
<1> QED  BY <1>1, <1>2, <1>3 DEF IInv

(* The application calls again.                                            *)
LEMMA ResumeKeeps == ASSUME IInv, Resume PROVE IInv'
<1>1. TypeOK'
  <2>1. 0 \in 0 .. Cardinality(Fds) /\ 0 \in ERROR .. Cardinality(Fds)
    BY SomeFinite, ResultFits
  <2>2. failed' \in BOOLEAN
    BY Zenon DEF Resume
  <2> QED  BY <2>1, <2>2 DEF IInv, Resume, TypeOK, NoEvents, Sets
<1>2. CallInv'
  BY DEF Resume, CallInv, NoEvents
<1>3. Rest'
  <2>1. (pc = "idle")'
    BY DEF Resume
  <2> QED  BY <2>1, IdleRest, PTL
<1> QED  BY <1>1, <1>2, <1>3, Parts, PTL

(***************************************************************************)
(* select: the way is chosen.                                              *)
(***************************************************************************)

LEMMA SelectKeeps ==
  ASSUME IInv, NEW c \in Calls, NEW t \in Timeouts, select(c, t) PROVE IInv'
<1> DEFINE given == [read |-> c.read, write |-> c.write, error |-> c.error]
<1>0. /\ args' = c /\ was' = state /\ timeout' = t /\ pc' = Path(c)
      /\ sets' = IF Path(c) \in {"died", "many"} THEN _clear_all_sets(given) ELSE given
      /\ cursor' = Lowest(c) /\ ready_count' = 0
      /\ linked' = linked /\ state' = state /\ revents' = revents /\ failed' = failed /\ result' = result
  BY DEF select, world
<1>1. TypeOK'
  <2>1. given \in Sets
    BY CallsTyped DEF Sets, Given
  <2>2. sets' \in Sets
    BY <1>0, <2>1, ClearedSets
  <2>3. t \in {"forever", "running", "elapsed"} /\ Lowest(c) \in Nat /\ 0 \in 0 .. Cardinality(Fds)
    BY TimeoutsAssumption, LowestIs, SomeFinite
  <2>4. pc' \in {"died", "aborted", "many", "real", "poll"}
    BY <1>0, PathIs
  <2> QED  BY <1>0, <2>2, <2>3, <2>4 DEF IInv, TypeOK
<1>2. CallInv'
  BY <1>0 DEF IInv, CallInv
<1>b. Counted(args)' = Counted(c) /\ Lowest(args)' = Lowest(c)
  BY <1>0 DEF Counted, Lowest
<1>3. RouteInv'
  <2>1. Lowest(c) \in Nat
    BY LowestIs
  <2> QED  BY <1>0, <1>b, <2>1, PathIs DEF RouteInv
<1>c. Path(c) \in {"died", "many"} => Clear(sets)'
  BY <1>0, ClearedSets DEF Clear
<1>4. FastInv'
  <2>1. pc' \notin {"write", "read"}
    BY <1>0, PathIs
  <2> QED  BY <1>0, <1>c, <2>1 DEF FastInv
<1>5. ManyInv'
  <2> SUFFICES ASSUME Path(c) = "many"
               PROVE  /\ Clear(sets)'
                      /\ 0 <= Cardinality({fd \in Fds : fd < Lowest(c)})
                      /\ \A fd \in Counted(c) : ~(fd < Lowest(c))
    BY <1>0, <1>b DEF ManyInv
  <2>1. {fd \in Fds : fd < Lowest(c)} \in SUBSET Fds
    OBVIOUS
  <2>2. Cardinality({fd \in Fds : fd < Lowest(c)}) \in Nat
    BY <2>1, SomeFinite
  <2>3. \A fd \in Counted(c) : fd \in Nat /\ Lowest(c) <= fd /\ Lowest(c) \in Nat
    BY LowestIs, FdsAssumption DEF Counted
  <2> QED  BY <1>c, <2>2, <2>3
<1>6. EntriesInv' /\ ResultCountsDescriptors' /\ ZeroMeansNothing' /\ BitsAskedAndTrue'
  <2>1. pc' \notin {"entries", "returned"}
    BY <1>0, PathIs
  <2> QED  BY <2>1 DEF EntriesInv, ResultCountsDescriptors, ZeroMeansNothing,
             BitsAskedAndTrue
<1>7. TameNeverAborts'
  <2>1. Path(c) = "aborted" => ~Tame(c)
    BY PathIs, TameFast
  <2> QED  BY <1>0, <2>1 DEF TameNeverAborts, Tame, Counted
<1> QED  BY <1>1, <1>2, <1>3, <1>4, <1>5, <1>6, <1>7 DEF IInv

(***************************************************************************)
(* The steps of a call: what they all keep.                                *)
(***************************************************************************)

(* What a step of the call reads and does not write.                       *)
LEMMA StepFrame ==
  ASSUME IInv, UNCHANGED <<world, call>>, pc # "idle"
  PROVE  /\ CallInv' /\ linked' = linked /\ state' = state /\ args' = args /\ was' = was
         /\ args \in Calls /\ linked \subseteq Fds
         /\ \A fd \in Fds : was[fd] \subseteq state[fd]
         /\ Counted(args)' = Counted(args) /\ Lowest(args)' = Lowest(args)
         /\ \A fd : NothingWas(fd)' <=> NothingWas(fd)
         /\ Tame(args)' <=> Tame(args)
<1>1. linked' = linked /\ state' = state /\ args' = args /\ was' = was
  BY DEF world, call
<1>2. args \in Calls /\ CallInv'
  BY <1>1 DEF IInv, CallInv
<1> QED  BY <1>1, <1>2 DEF IInv, CallInv, TypeOK, Counted, Lowest, NothingWas,
           Members, Tame

(* Which parts of the invariant speak of the place a step leads to.        *)
LEMMA PlaceIsNext ==
  /\ pc' \notin {"read", "write", "died"} => FastInv'
  /\ pc' # "many" => ManyInv'
  /\ pc' # "entries" => EntriesInv'
  /\ pc' # "returned" => ResultCountsDescriptors' /\ ZeroMeansNothing' /\ BitsAskedAndTrue'
  /\ pc' # "aborted" => TameNeverAborts'
  /\ pc' \notin {"read", "write", "died", "many", "real", "poll"} => RouteInv'
BY DEF FastInv, ManyInv, EntriesInv, ResultCountsDescriptors, ZeroMeansNothing,
   BitsAskedAndTrue, TameNeverAborts, RouteInv

LEMMA OneFits ==
  ASSUME NEW k \in Fds
  PROVE  /\ 0 \in 0 .. Cardinality(Fds) /\ 1 \in 0 .. Cardinality(Fds)
         /\ Cardinality({k}) = 1 /\ Cardinality({}) = 0
<1>1. Cardinality({k}) = 1 /\ Cardinality({}) = 0
  BY FS_Singleton, FS_EmptySet
<1>2. {k} \in SUBSET Fds
  OBVIOUS
<1> QED  BY <1>1, <1>2, SomeFinite

(* The bits of one descriptor.                                             *)
LEMMA OneBit ==
  ASSUME NEW s \in Sets, NEW k \in Fds,
         \A fd \in Fds : _is_in_any_set(fd, s) => fd = k
  PROVE  /\ [s EXCEPT !.read = {k}] \in Sets /\ [s EXCEPT !.write = {k}] \in Sets
         /\ {fd \in Fds : _is_in_any_set(fd, [s EXCEPT !.read = {k}])} = {k}
         /\ {fd \in Fds : _is_in_any_set(fd, [s EXCEPT !.write = {k}])} = {k}
         /\ Members({k}) = {k}
<1>1. {k} # NULL /\ {k} \in SUBSET Fds
  BY FdsAssumption
<1>2. [s EXCEPT !.read = {k}] \in Sets /\ [s EXCEPT !.write = {k}] \in Sets
  BY <1>1 DEF Sets
<1>3. \A fd \in Fds : _is_in_any_set(fd, [s EXCEPT !.read = {k}]) <=> fd = k
  BY <1>1 DEF Sets, _is_in_any_set, _fd_is_set
<1>4. \A fd \in Fds : _is_in_any_set(fd, [s EXCEPT !.write = {k}]) <=> fd = k
  BY <1>1 DEF Sets, _is_in_any_set, _fd_is_set
<1> QED  BY <1>1, <1>2, <1>3, <1>4 DEF Members

LEMMA ClearMembers ==
  ASSUME NEW s \in Sets, Clear(s)
  PROVE  /\ Members(s.read) = {} /\ Members(s.write) = {} /\ Members(s.error) = {}
         /\ {fd \in Fds : _is_in_any_set(fd, s)} = {}
BY DEF Clear, Sets, Members, _is_in_any_set, _fd_is_set

(***************************************************************************)
(* The fast path.                                                          *)
(***************************************************************************)

LEMMA FastDiedKeeps == ASSUME IInv, FastDied PROVE IInv'
<1>0. /\ pc = "died" /\ UNCHANGED <<world, call>> /\ timeout' = timeout /\ cursor' = cursor
      /\ revents' = revents /\ failed' = failed /\ ready_count' = ready_count
  BY DEF FastDied, OnlyFast
<1>a. /\ CallInv' /\ linked' = linked /\ state' = state /\ args' = args /\ was' = was
      /\ \A fd \in Fds : was[fd] \subseteq state[fd]
      /\ Counted(args)' = Counted(args)
  BY <1>0, StepFrame
<1>b. /\ Counted(args) = {cursor} /\ cursor \in linked /\ cursor \in Fds /\ Clear(sets)
      /\ ready_count = 0 /\ sets \in Sets /\ args \in Calls
  BY <1>0 DEF IInv, RouteInv, FastInv, TypeOK, CallInv
<1>1. CASE ~_select_peer_died(cursor)
  <2>0. pc' = "write" /\ sets' = sets /\ result' = result
    BY <1>1 DEF FastDied, NoReturn
  <2>1. TypeOK'
    BY <1>0, <1>a, <2>0 DEF IInv, TypeOK
  <2>2. RouteInv'
    BY <1>0, <1>a, <1>b, <2>0 DEF RouteInv
  <2>3. FastInv'
    BY <1>0, <1>1, <1>a, <1>b, <2>0 DEF FastInv, Clear, _select_peer_died
  <2> QED  BY <1>a, <2>0, <2>1, <2>2, <2>3, PlaceIsNext DEF IInv
<1>2. CASE _select_peer_died(cursor) /\ args.read = NULL
  <2>0. pc' = "aborted" /\ sets' = sets /\ result' = result
    BY <1>2 DEF FastDied, NoReturn
  <2>1. TypeOK'
    BY <1>0, <1>a, <2>0 DEF IInv, TypeOK
  <2>2. TameNeverAborts'
    BY <1>2, <1>a DEF TameNeverAborts, Tame
  <2> QED  BY <1>a, <2>0, <2>1, <2>2, PlaceIsNext DEF IInv
<1>3. CASE _select_peer_died(cursor) /\ args.read # NULL
  <2>0. pc' = "returned" /\ result' = 1 /\ sets' = [sets EXCEPT !.read = {cursor}]
    BY <1>3 DEF FastDied, Return
  <2>a. \A fd \in Fds : ~_is_in_any_set(fd, sets)
    BY <1>b DEF Clear
  <2>b. /\ sets' \in Sets /\ WithBits' = {cursor} /\ sets'.read = {cursor} /\ sets'.write = sets.write
        /\ Members(sets'.read) = {cursor} /\ Members(sets'.write) = {}
        /\ Members(sets'.error) = {}
    <3>1. sets' \in Sets /\ {fd \in Fds : _is_in_any_set(fd, sets')} = {cursor} /\ Members({cursor}) = {cursor}
      BY <1>b, <2>0, <2>a, OneBit
    <3>2. sets'.read = {cursor} /\ sets'.write = sets.write /\ sets'.error = sets.error
      BY <1>b, <2>0 DEF Sets
    <3>3. Members(sets.write) = {} /\ Members(sets.error) = {}
      BY <1>b, ClearMembers
    <3> QED  BY <3>1, <3>2, <3>3 DEF WithBits
  <2>1. TypeOK'
    <3>1. result' \in ERROR .. Cardinality(Fds)
      BY <1>b, <2>0, OneFits, ResultFits
    <3> QED  BY <1>0, <1>a, <2>0, <2>b, <3>1 DEF IInv, TypeOK
  <2>2. BitsAskedAndTrue'
    BY <1>3, <1>a, <1>b, <2>0, <2>b DEF BitsAskedAndTrue, BitsTrue, ERROR,
       _select_peer_died
  <2>3. ResultCountsDescriptors'
    BY <1>b, <2>0, <2>b, OneFits DEF ResultCountsDescriptors
  <2>4. ZeroMeansNothing'
    BY <2>0 DEF ZeroMeansNothing
  <2> QED  BY <1>a, <2>0, <2>1, <2>2, <2>3, <2>4, PlaceIsNext DEF IInv
<1> QED  BY <1>1, <1>2, <1>3

LEMMA FastWriteKeeps == ASSUME IInv, FastWrite PROVE IInv'
<1>0. /\ pc = "write" /\ UNCHANGED <<world, call>> /\ timeout' = timeout /\ cursor' = cursor
      /\ revents' = revents /\ failed' = failed /\ pc' = "read" /\ result' = result
  BY DEF FastWrite, OnlyFast, NoReturn
<1>a. /\ CallInv' /\ linked' = linked /\ state' = state /\ args' = args /\ was' = was
      /\ \A fd \in Fds : was[fd] \subseteq state[fd]
      /\ Counted(args)' = Counted(args)
  BY <1>0, StepFrame
<1>b. /\ Counted(args) = {cursor} /\ cursor \in linked /\ cursor \in Fds /\ Clear(sets)
      /\ ready_count = 0 /\ sets \in Sets /\ "HUP" \notin was[cursor]
  BY <1>0 DEF IInv, RouteInv, FastInv, TypeOK
<1>1. RouteInv'
  BY <1>0, <1>a, <1>b DEF RouteInv
<1>2. CASE _fd_is_set(cursor, args.write) /\ _ready_for(cursor, "OUT")
  <2>0. sets' = [sets EXCEPT !.write = {cursor}] /\ ready_count' = 1
    BY <1>2 DEF FastWrite
  <2>a. \A fd \in Fds : ~_is_in_any_set(fd, sets)
    BY <1>b DEF Clear
  <2>b. /\ sets' \in Sets /\ WithBits' = {cursor}
        /\ Members(sets'.read) = {} /\ Members(sets'.write) = {cursor}
        /\ Members(sets'.error) = {}
    <3>1. sets' \in Sets /\ {fd \in Fds : _is_in_any_set(fd, sets')} = {cursor} /\ Members({cursor}) = {cursor}
      BY <1>b, <2>0, <2>a, OneBit
    <3>2. sets'.write = {cursor} /\ sets'.read = sets.read /\ sets'.error = sets.error
      BY <1>b, <2>0 DEF Sets
    <3>3. Members(sets.read) = {} /\ Members(sets.error) = {}
      BY <1>b, ClearMembers
    <3> QED  BY <3>1, <3>2, <3>3 DEF WithBits
  <2>1. TypeOK'
    BY <1>0, <1>a, <1>b, <2>0, <2>b, OneFits DEF IInv, TypeOK, ERROR
  <2>2. cursor \in Members(args.write) /\ "OUT" \in state[cursor]
    BY <1>2 DEF _fd_is_set, _ready_for, Members
  <2>3. FastInv'
    <3>1. cursor' \in Members(args'.write)
      BY <1>0, <1>a, <2>2
    <3> QED  BY <1>0, <1>a, <1>b, <2>0, <2>b, <2>2, <3>1 DEF FastInv
  <2> QED  BY <1>0, <1>1, <1>a, <2>1, <2>3, PlaceIsNext DEF IInv
<1>3. CASE ~(_fd_is_set(cursor, args.write) /\ _ready_for(cursor, "OUT"))
  <2>0. sets' = sets /\ ready_count' = ready_count
    BY <1>3 DEF FastWrite
  <2>1. TypeOK'
    BY <1>0, <1>a, <2>0 DEF IInv, TypeOK
  <2>2. ~("OUT" \in was[cursor] /\ cursor \in Members(args.write))
    BY <1>3, <1>a, <1>b DEF _fd_is_set, _ready_for, Members
  <2>3. FastInv'
    BY <1>0, <1>a, <1>b, <2>0, <2>2 DEF FastInv, Clear, Members
  <2> QED  BY <1>0, <1>1, <1>a, <2>1, <2>3, PlaceIsNext DEF IInv
<1> QED  BY <1>2, <1>3

LEMMA FastReadKeeps == ASSUME IInv, FastRead PROVE IInv'
<1> DEFINE found == _fd_is_set(cursor, args.read) /\ _ready_for(cursor, "IN")
           ready == found \/ ready_count = 1
<1>0. /\ pc = "read" /\ UNCHANGED <<world, call>> /\ timeout' = timeout /\ cursor' = cursor
      /\ revents' = revents /\ failed' = failed /\ ready_count' = ready_count
      /\ sets' = IF found THEN [sets EXCEPT !.read = {cursor}] ELSE sets
  BY DEF FastRead, OnlyFast
<1>a. /\ CallInv' /\ linked' = linked /\ state' = state /\ args' = args /\ was' = was
      /\ \A fd \in Fds : was[fd] \subseteq state[fd]
      /\ Counted(args)' = Counted(args) /\ \A fd : NothingWas(fd)' <=> NothingWas(fd)
  BY <1>0, StepFrame
<1>b. /\ Counted(args) = {cursor} /\ cursor \in linked /\ cursor \in Fds
      /\ sets \in Sets /\ "HUP" \notin was[cursor] /\ ready_count \in {0, 1}
  BY <1>0 DEF IInv, RouteInv, FastInv, TypeOK
<1>c. /\ ready_count = 0 => /\ Clear(sets) /\ WithBits = {}
                            /\ ~("OUT" \in was[cursor] /\ cursor \in Members(args.write))
      /\ ready_count = 1 => /\ WithBits = {cursor} /\ cursor \in Members(args.write)
                            /\ "OUT" \in state[cursor] /\ Members(sets.write) = {cursor}
      /\ Members(sets.read) = {} /\ Members(sets.write) \subseteq {cursor}
      /\ Members(sets.error) = {}
      /\ ready_count = 0 => Members(sets.write) = {}
  BY <1>0, <1>b, ClearMembers DEF IInv, FastInv, WithBits
<1>d. found <=> "IN" \in state[cursor] /\ cursor \in Members(args.read)
  BY DEF _fd_is_set, _ready_for, Members
<1>e. /\ sets' \in Sets /\ WithBits' = IF ready THEN {cursor} ELSE {}
      /\ Members(sets'.write) = Members(sets.write) /\ Members(sets'.error) = {}
      /\ Members(sets'.read) = IF found THEN {cursor} ELSE {}
  <2>1. CASE found
    <3>1. \A fd \in Fds : _is_in_any_set(fd, sets) => fd = cursor
      BY <1>b, <1>c DEF WithBits
    <3>2. sets' = [sets EXCEPT !.read = {cursor}]
      BY <1>0, <2>1
    <3>3. sets' \in Sets /\ {fd \in Fds : _is_in_any_set(fd, sets')} = {cursor} /\ Members({cursor}) = {cursor}
      BY <1>b, <3>1, <3>2, OneBit
    <3>4. sets'.read = {cursor} /\ sets'.write = sets.write /\ sets'.error = sets.error
      BY <1>b, <3>2 DEF Sets
    <3> QED  BY <1>c, <2>1, <3>3, <3>4 DEF WithBits
  <2>2. CASE ~found
    <3>1. sets' = sets
      BY <1>0, <2>2
    <3> QED  BY <1>b, <1>c, <2>2, <3>1 DEF WithBits
  <2> QED  BY <2>1, <2>2
<1>f. FastReady(found) = IF ready THEN 1 ELSE 0
  BY DEF FastReady
<1> HIDE DEF found
<1>1. CASE ready \/ timeout = "elapsed"
  <2>0. pc' = "returned" /\ result' = IF ready THEN 1 ELSE 0
    BY <1>1, <1>f DEF FastRead, Return, found
  <2>1. TypeOK'
    <3>1. result' \in ERROR .. Cardinality(Fds)
      BY <1>b, <2>0, OneFits, ResultFits
    <3> QED  BY <1>0, <1>a, <1>e, <2>0, <3>1 DEF IInv, TypeOK
  <2>2. BitsAskedAndTrue'
    BY <1>a, <1>b, <1>c, <1>d, <1>e, <2>0 DEF BitsAskedAndTrue, BitsTrue, ERROR
  <2>3. ResultCountsDescriptors'
    BY <1>b, <1>e, <2>0, OneFits DEF ResultCountsDescriptors
  <2>4. ZeroMeansNothing'
    <3>1. ASSUME ~ready PROVE timeout = "elapsed" /\ NothingWas(cursor)
      BY <1>1, <1>a, <1>b, <1>c, <1>d, <3>1 DEF NothingWas
    <3> QED  BY <1>0, <1>a, <1>b, <2>0, <3>1 DEF ZeroMeansNothing
  <2> QED  BY <1>a, <2>0, <2>1, <2>2, <2>3, <2>4, PlaceIsNext DEF IInv
<1>2. CASE ~(ready \/ timeout = "elapsed")
  <2>0. pc' = "died" /\ result' = result
    BY <1>2, <1>f DEF FastRead, NoReturn, found
  <2>1. sets' = sets /\ ready_count = 0
    BY <1>0, <1>2, <1>b
  <2>2. TypeOK'
    BY <1>0, <1>a, <2>0, <2>1 DEF IInv, TypeOK
  <2>3. RouteInv' /\ FastInv'
    BY <1>0, <1>a, <1>b, <1>c, <2>0, <2>1 DEF RouteInv, FastInv, Clear
  <2> QED  BY <1>a, <2>0, <2>2, <2>3, PlaceIsNext DEF IInv
<1> QED  BY <1>1, <1>2

(***************************************************************************)
(* The loop.                                                               *)
(***************************************************************************)

LEMMA ManyCheckKeeps == ASSUME IInv, ManyCheck PROVE IInv'
<1> DEFINE finds == IF _check_select_events(cursor) THEN 1 ELSE 0
<1>0. /\ pc = "many" /\ cursor < args.nfds /\ UNCHANGED <<world, call>> /\ timeout' = timeout
      /\ sets' = sets /\ revents' = revents /\ failed' = failed /\ result' = result
  BY DEF ManyCheck
<1>a. /\ CallInv' /\ linked' = linked /\ state' = state /\ args' = args /\ was' = was
      /\ args \in Calls /\ linked \subseteq Fds
      /\ \A fd \in Fds : was[fd] \subseteq state[fd]
      /\ Counted(args)' = Counted(args) /\ Lowest(args)' = Lowest(args)
      /\ \A fd : NothingWas(fd)' <=> NothingWas(fd)
      /\ Tame(args)' <=> Tame(args)
  BY <1>0, StepFrame
<1>b. /\ Counted(args) \subseteq linked /\ Cardinality(Counted(args)) # 1
      /\ cursor >= Lowest(args) /\ cursor \in Nat /\ ready_count \in Nat
      /\ Clear(sets) /\ ready_count <= Cardinality({fd \in Fds : fd < cursor})
      /\ ready_count = 0 => \A fd \in Counted(args) : fd < cursor => NothingWas(fd)
  BY <1>0 DEF IInv, RouteInv, ManyInv, TypeOK
<1>c. Lowest(args) \in Nat /\ args.nfds \in Nat
  BY <1>a, LowestIs, CallsTyped
<1>1. CASE cursor \in linked
  <2>0. ready_count' = ready_count + finds /\ cursor' = cursor + 1 /\ pc' = "many"
    BY <1>0, <1>1 DEF ManyCheck
  <2>1. cursor \in Fds /\ \A fd \in Fds : fd \in Nat
    BY <1>1, <1>a, FdsAssumption
  <2>2. /\ ready_count' \in Nat
        /\ ready_count' <= Cardinality({fd \in Fds : fd < cursor + 1})
        /\ ready_count' <= Cardinality(Fds)
    <3>1. {fd \in Fds : fd < cursor} \in SUBSET Fds /\ {fd \in Fds : fd < cursor + 1} \in SUBSET Fds
      OBVIOUS
    <3>2. /\ Cardinality({fd \in Fds : fd < cursor}) \in Nat /\ Cardinality(Fds) \in Nat
          /\ Cardinality({fd \in Fds : fd < cursor + 1}) \in Nat
          /\ Cardinality({fd \in Fds : fd < cursor + 1}) <= Cardinality(Fds)
      BY <3>1, SomeFinite, CountedFinite
    <3>3. finds \in 0 .. 1
      OBVIOUS
    <3>4. Cardinality({fd \in Fds : fd < cursor + 1}) = Cardinality({fd \in Fds : fd < cursor}) + 1
      BY <2>1, BelowGrows
    <3> HIDE DEF finds
    <3> QED  BY <1>b, <2>0, <3>2, <3>3, <3>4
  <2>3. TypeOK'
    <3>1. cursor' \in Nat /\ ready_count' \in 0 .. Cardinality(Fds)
      BY <1>b, <2>0, <2>2
    <3> QED  BY <1>0, <1>a, <2>0, <3>1 DEF IInv, TypeOK
  <2>4. RouteInv'
    BY <1>a, <1>b, <1>c, <2>0 DEF RouteInv
  <2>5. ASSUME ready_count' = 0, NEW fd \in Counted(args), fd < cursor + 1 PROVE NothingWas(fd)
    <3>1. ready_count = 0 /\ ~_check_select_events(cursor)
      BY <1>b, <2>0, <2>5
    <3>2. NothingWas(cursor)
      BY <1>a, <2>1, <3>1 DEF _check_select_events, _select_peer_died,
         _ready_for, _fd_is_set,
         NothingWas, Members
    <3>3. fd \in Nat /\ (fd < cursor \/ fd = cursor)
      <4>1. fd \in Nat /\ fd < cursor + 1
        BY <2>1, <2>5, CountedFinite
      <4> QED  BY <1>b, <4>1
    <3> QED  BY <1>b, <3>1, <3>2, <3>3
  <2>6. ManyInv'
    <3>1. Clear(sets)'
      BY <1>0, <1>b DEF Clear
    <3> QED  BY <1>a, <2>0, <2>2, <2>5, <3>1 DEF ManyInv
  <2> QED  BY <1>a, <2>0, <2>3, <2>4, <2>6, PlaceIsNext DEF IInv
<1>2. CASE cursor \notin linked
  <2>0. pc' = "aborted" /\ cursor' = cursor /\ ready_count' = ready_count
    BY <1>0, <1>2 DEF ManyCheck
  <2>1. ~Tame(args)
    BY <1>0, <1>2, <1>a, <1>b, <1>c, TameLoop
  <2>2. TypeOK'
    BY <1>0, <1>a, <2>0 DEF IInv, TypeOK
  <2>3. TameNeverAborts'
    BY <1>a, <2>1 DEF TameNeverAborts
  <2> QED  BY <1>a, <2>0, <2>2, <2>3, PlaceIsNext DEF IInv
<1> QED  BY <1>1, <1>2

LEMMA ManyEndKeeps == ASSUME IInv, ManyEnd PROVE IInv'
<1>0. /\ pc = "many" /\ cursor >= args.nfds /\ UNCHANGED <<world, call>> /\ timeout' = timeout
      /\ sets' = sets /\ ready_count' = ready_count /\ revents' = revents /\ failed' = failed
  BY DEF ManyEnd
<1>a. /\ CallInv' /\ linked' = linked /\ state' = state /\ args' = args /\ was' = was
      /\ args \in Calls
      /\ Counted(args)' = Counted(args) /\ Lowest(args)' = Lowest(args)
      /\ \A fd : NothingWas(fd)' <=> NothingWas(fd)
  BY <1>0, StepFrame
<1>b. /\ Counted(args) \subseteq linked /\ Cardinality(Counted(args)) # 1
      /\ cursor \in Nat /\ ready_count \in 0 .. Cardinality(Fds) /\ sets \in Sets /\ Clear(sets)
      /\ ready_count = 0 => \A fd \in Counted(args) : fd < cursor => NothingWas(fd)
  BY <1>0 DEF IInv, RouteInv, ManyInv, TypeOK
<1>c. /\ Lowest(args) \in Nat /\ args.nfds \in Nat
      /\ \A fd \in Counted(args) : fd \in Nat /\ fd < args.nfds /\ Lowest(args) <= fd
  BY <1>a, LowestIs, CallsTyped, FdsAssumption DEF Counted
<1>1. CASE ManyDone
  <2>0. pc' = "returned" /\ result' = ready_count /\ cursor' = cursor
    BY <1>1 DEF ManyEnd, Return
  <2>1. TypeOK'
    BY <1>0, <1>a, <1>b, <2>0 DEF IInv, TypeOK, ERROR
  <2>2. ResultCountsDescriptors'
    BY <1>a, <1>b DEF ResultCountsDescriptors
  <2>3. BitsAskedAndTrue'
    <3>1. WithBits' = {} /\ Members(sets'.read) = {} /\ Members(sets'.write) = {} /\ Members(sets'.error) = {}
      BY <1>0, <1>b, ClearMembers DEF WithBits
    <3> QED  BY <1>b, <2>0, <3>1 DEF BitsAskedAndTrue, BitsTrue, ERROR
  <2>4. ZeroMeansNothing'
    <3>1. ASSUME ready_count = 0
          PROVE  timeout = "elapsed" /\ \A fd \in Counted(args) : NothingWas(fd)
      BY <1>0, <1>1, <1>b, <1>c, <3>1 DEF ManyDone
    <3> QED  BY <1>0, <1>a, <2>0, <3>1 DEF ZeroMeansNothing
  <2> QED  BY <1>a, <2>0, <2>1, <2>2, <2>3, <2>4, PlaceIsNext DEF IInv
<1>2. CASE ~ManyDone
  <2>0. pc' = "many" /\ result' = result /\ cursor' = Lowest(args)
    BY <1>0, <1>2 DEF ManyEnd, NoReturn
  <2>1. ready_count = 0
    BY <1>2, <1>b, CountedFinite DEF ManyDone
  <2>2. TypeOK'
    BY <1>0, <1>a, <1>c, <2>0 DEF IInv, TypeOK
  <2>3. RouteInv'
    BY <1>a, <1>b, <1>c, <2>0 DEF RouteInv
  <2>4. ManyInv'
    <3>1. {fd \in Fds : fd < Lowest(args)} \in SUBSET Fds
      OBVIOUS
    <3>2. 0 <= Cardinality({fd \in Fds : fd < Lowest(args)})
      BY <3>1, SomeFinite
    <3>3. \A fd \in Counted(args) : ~(fd < Lowest(args))
      BY <1>c
    <3>4. Clear(sets)'
      BY <1>0, <1>b DEF Clear
    <3> QED  BY <1>0, <1>a, <2>0, <2>1, <3>2, <3>3, <3>4 DEF ManyInv
  <2> QED  BY <1>a, <2>0, <2>2, <2>3, <2>4, PlaceIsNext DEF IInv
<1> QED  BY <1>1, <1>2

(***************************************************************************)
(* The way through poll.                                                   *)
(***************************************************************************)

(* What the entries hold: nothing but of the descriptors of the call, true *)
(* of them, and with all that a connection has to report.                  *)
LEMMA FoundIs ==
  ASSUME TypeOK, CallInv, NEW interrupted \in BOOLEAN, NEW fd \in Fds
  PROVE  LET events == Found(interrupted)
         IN  /\ events \in [Fds -> SUBSET All]
             /\ "IN" \in events[fd] =>
                  "HUP" \in state[fd] \/ (fd \in Members(args.read) /\ "IN" \in state[fd])
             /\ "OUT" \in events[fd] => fd \in Members(args.write) /\ "OUT" \in state[fd]
             /\ fd \in Counted(args) \cap linked /\ events[fd] = {} => NothingWas(fd)
             /\ events[fd] # {} => fd \in Counted(args)
             /\ \A c \in {"ERR", "NVAL"} : c \in events[fd] => c \in state[fd]
<1> DEFINE events == Found(interrupted)
<1>a. state \in [Fds -> SUBSET All] /\ was[fd] \subseteq state[fd]
  BY DEF TypeOK, CallInv, All
<1>1. events = [f \in Fds |-> IF f \notin Counted(args) THEN {}
                              ELSE IF f \in linked THEN _check_poll_events(f)
                              ELSE IF interrupted THEN {} ELSE KernelPollEvents(f)]
  BY DEF Found
<1> HIDE DEF events
<1>2. ASSUME NEW f \in Fds
      PROVE  \/ events[f] = {} /\ ~(f \in Counted(args) /\ f \in linked)
             \/ events[f] = _check_poll_events(f) /\ f \in Counted(args)
             \/ events[f] = KernelPollEvents(f) /\ f \in Counted(args) /\ f \notin linked
  BY <1>1
<1>3. events \in [Fds -> SUBSET All]
  <2>1. \A f \in Fds : events[f] \in SUBSET All
    BY <1>2, <1>a DEF _check_poll_events, KernelPollEvents, All
  <2> QED  BY <1>1, <2>1
<1>4. /\ "IN" \in Events(fd) <=> fd \in Members(args.read)
      /\ "OUT" \in Events(fd) <=> fd \in Members(args.write)
  BY DEF Events, _fd_is_set, Members
<1>5. CASE events[fd] = _check_poll_events(fd) /\ fd \in Counted(args)
  <2>1. CASE "HUP" \in state[fd]
    BY <1>3, <1>5, <2>1 DEF _check_poll_events, events
  <2>2. CASE "HUP" \notin state[fd]
    BY <1>3, <1>4, <1>5, <1>a, <2>2 DEF _check_poll_events, NothingWas, events
  <2> QED  BY <2>1, <2>2
<1>6. CASE events[fd] = KernelPollEvents(fd) /\ fd \in Counted(args) /\ fd \notin linked
  BY <1>3, <1>4, <1>6 DEF KernelPollEvents, events
<1>7. CASE events[fd] = {} /\ ~(fd \in Counted(args) /\ fd \in linked)
  BY <1>3, <1>7 DEF events
<1> QED  BY <1>2, <1>5, <1>6, <1>7

LEMMA ReportingFits ==
  ASSUME NEW events
  PROVE  /\ Cardinality(Reporting(events)) \in 0 .. Cardinality(Fds)
         /\ Cardinality(Reporting(events)) = 0 => \A fd \in Fds : events[fd] = {}
<1>1. Reporting(events) \in SUBSET Fds
  BY DEF Reporting
<1>2. IsFiniteSet(Reporting(events)) /\ Cardinality(Reporting(events)) \in Nat
      /\ Cardinality(Reporting(events)) <= Cardinality(Fds) /\ Cardinality(Fds) \in Nat
  BY <1>1, SomeFinite
<1>3. Cardinality(Reporting(events)) = 0 => Reporting(events) = {}
  BY <1>2, FS_EmptySet
<1> QED  BY <1>2, <1>3 DEF Reporting

(* The entries after poll, whatever it returned.                           *)
LEMMA EntriesKeep ==
  ASSUME IInv, pc = "poll", UNCHANGED <<world, call, timeout, sets, cursor, result>>, pc' = "entries",
         NEW interrupted \in BOOLEAN, revents' = Found(interrupted),
         revents' # NoEvents \/ timeout = "elapsed", failed' \in BOOLEAN,
         ready_count' \in 0 .. Cardinality(Fds),
         ~failed' => ready_count' = Cardinality(Reporting(revents'))
  PROVE  IInv'
<1>a. /\ CallInv' /\ linked' = linked /\ state' = state /\ args' = args /\ was' = was
      /\ Counted(args)' = Counted(args)
      /\ \A fd : NothingWas(fd)' <=> NothingWas(fd)
  BY StepFrame
<1>1. /\ revents' \in [Fds -> SUBSET All]
      /\ \A fd \in Fds :
           /\ "IN" \in revents'[fd] =>
                "HUP" \in state[fd] \/ (fd \in Members(args.read) /\ "IN" \in state[fd])
           /\ "OUT" \in revents'[fd] => fd \in Members(args.write) /\ "OUT" \in state[fd]
           /\ fd \in Counted(args) \cap linked /\ revents'[fd] = {} => NothingWas(fd)
           /\ revents'[fd] # {} => fd \in Counted(args)
           /\ \A c \in {"ERR", "NVAL"} : c \in revents'[fd] => c \in state[fd]
  <2>1. TypeOK /\ CallInv
    BY DEF IInv
  <2>2. revents' \in [Fds -> SUBSET All]
    <3>1. \A fd \in Fds : revents' \in [Fds -> SUBSET All]
      BY <2>1, FoundIs
    <3>2. Fds = {} => revents' \in [Fds -> SUBSET All]
      BY DEF Found
    <3> QED  BY <3>1, <3>2
  <2> QED  BY <2>1, <2>2, FoundIs
<1>2. TypeOK'
  BY <1>1, <1>a DEF IInv, TypeOK, All
<1>3. EntriesInv'
  <2>1. (~failed => ready_count = Cardinality(Reporting(revents)))'
    OBVIOUS
  <2>2. (revents # NoEvents \/ timeout = "elapsed")'
    BY DEF NoEvents
  <2> QED  BY <1>1, <1>a, <2>1, <2>2 DEF EntriesInv, Members
<1> QED  BY <1>2, <1>3, <1>a, PlaceIsNext DEF IInv

LEMMA PollReturnsKeeps == ASSUME IInv, PollReturns PROVE IInv'
<1>1. PICK interrupted \in BOOLEAN : revents' = Found(interrupted)
  BY DEF PollReturns
<1>2. failed' \in BOOLEAN
  BY Zenon DEF PollReturns, IInv, TypeOK
<1> QED  BY <1>1, <1>2, ReportingFits, EntriesKeep DEF PollReturns

LEMMA PollFailsKeeps == ASSUME IInv, PollFails PROVE IInv'
<1>0. /\ pc = "poll" /\ UNCHANGED <<world, call>> /\ timeout' = timeout
      /\ sets' = sets /\ cursor' = cursor
  BY DEF PollFails
<1>f. failed' = TRUE
  BY DEF PollFails
<1>1. CASE Return(ERROR) /\ UNCHANGED <<revents, ready_count>>
  <2>a. /\ CallInv' /\ linked' = linked /\ state' = state /\ args' = args /\ was' = was
    BY <1>0, StepFrame
  <2>0. pc' = "returned" /\ result' = ERROR
    BY <1>1 DEF Return
  <2>1. TypeOK'
    <3>1. result' \in ERROR .. Cardinality(Fds)
      BY <2>0, ResultFits
    <3>2. failed' \in BOOLEAN
      BY <1>f, Zenon
    <3>3. revents' = revents /\ ready_count' = ready_count
      BY <1>1
    <3> QED  BY <1>0, <2>a, <2>0, <3>1, <3>2, <3>3 DEF IInv, TypeOK
  <2>2. ResultCountsDescriptors' /\ ZeroMeansNothing'
    BY <1>f DEF ResultCountsDescriptors, ZeroMeansNothing
  <2>3. sets = [read |-> args.read, write |-> args.write, error |-> args.error]
    BY <1>0 DEF IInv, RouteInv
  <2>4. BitsAskedAndTrue'
    BY <1>0, <1>f, <2>a, <2>0, <2>3 DEF BitsAskedAndTrue
  <2> QED  BY <2>a, <2>0, <2>1, <2>2, <2>4, PlaceIsNext DEF IInv
<1>2. CASE /\ revents' = Found(TRUE) /\ revents' # NoEvents
           /\ ready_count' = Cardinality(Reporting(revents')) - 1
           /\ NoReturn("entries")
  <2>1. ready_count' \in 0 .. Cardinality(Fds)
    <3>1. Cardinality(Reporting(revents')) # 0
      <4>1. revents' = [fd \in Fds |-> revents'[fd]]
        BY <1>2 DEF Found
      <4>2. (\A fd \in Fds : revents'[fd] = {}) => revents' = NoEvents
        BY <4>1 DEF NoEvents
      <4> QED  BY <1>2, <4>2, ReportingFits
    <3>2. Cardinality(Reporting(revents')) \in 0 .. Cardinality(Fds) /\ Cardinality(Fds) \in Nat
      BY ReportingFits, CountedFinite
    <3>3. PICK n : n = Cardinality(Reporting(revents'))
      OBVIOUS
    <3>4. ready_count' = n - 1
      BY <1>2, <3>3
    <3>5. n \in 0 .. Cardinality(Fds) /\ n # 0 /\ Cardinality(Fds) \in Nat
      BY <3>1, <3>2, <3>3
    <3> QED  BY <3>4, <3>5
  <2>2. failed' \in BOOLEAN /\ failed'
    BY <1>f, Zenon
  <2>3. pc' = "entries" /\ result' = result
    BY <1>2 DEF NoReturn
  <2> QED  BY <1>0, <1>2, <2>1, <2>2, <2>3, EntriesKeep
<1> QED  BY <1>1, <1>2 DEF PollFails

LEMMA ReadPollEntriesKeeps == ASSUME IInv, _read_poll_entries PROVE IInv'
<1>0. /\ pc = "entries" /\ UNCHANGED <<world, call>> /\ timeout' = timeout
      /\ cursor' = cursor /\ ready_count' = ready_count /\ revents' = revents /\ failed' = failed
  BY DEF _read_poll_entries
<1>a. /\ CallInv' /\ linked' = linked /\ state' = state /\ args' = args /\ was' = was
      /\ Counted(args)' = Counted(args)
      /\ \A fd : NothingWas(fd)' <=> NothingWas(fd)
  BY <1>0, StepFrame
<1>b. /\ revents \in [Fds -> SUBSET All]
      /\ revents # NoEvents \/ timeout = "elapsed"
      /\ \A fd \in Fds :
           /\ "IN" \in revents[fd] =>
                "HUP" \in state[fd] \/ (fd \in Members(args.read) /\ "IN" \in state[fd])
           /\ "OUT" \in revents[fd] => fd \in Members(args.write) /\ "OUT" \in state[fd]
           /\ fd \in Counted(args) \cap linked /\ revents[fd] = {} => NothingWas(fd)
           /\ revents[fd] # {} => fd \in Counted(args)
           /\ \A c \in {"ERR", "NVAL"} : c \in revents[fd] => c \in state[fd]
      /\ ready_count \in 0 .. Cardinality(Fds) /\ Cardinality(Fds) \in Nat
      /\ ~failed => ready_count = Cardinality(Reporting(revents))
  BY <1>0, CountedFinite DEF IInv, TypeOK, EntriesInv, All
<1>1. CASE MissingSet
  <2>0. pc' = "aborted" /\ result' = result /\ sets' = sets
    BY <1>1 DEF _read_poll_entries, NoReturn
  <2>1. TypeOK'
    BY <1>0, <1>a, <2>0 DEF IInv, TypeOK
  <2>2. TameNeverAborts'
    BY <1>1, <1>a DEF TameNeverAborts, Tame, MissingSet
  <2> QED  BY <1>a, <2>0, <2>1, <2>2, PlaceIsNext DEF IInv
<1>2. CASE ~MissingSet
  <2>0. /\ pc' = "returned" /\ result' = ready_count
        /\ sets' = [read  |-> IF args.read  = NULL THEN NULL ELSE ReadBits,
                    write |-> IF args.write = NULL THEN NULL ELSE WriteBits,
                    error |-> IF args.error = NULL THEN NULL ELSE ErrorBits]
    BY <1>2 DEF _read_poll_entries, Return
  <2>1. /\ ReadBits \in SUBSET Fds /\ WriteBits \in SUBSET Fds /\ ErrorBits \in SUBSET Fds
        /\ ReadBits # NULL /\ WriteBits # NULL /\ ErrorBits # NULL
    BY FdsAssumption DEF ReadBits, WriteBits, ErrorBits
  <2>2. TypeOK'
    <3>1. sets' \in Sets
      BY <2>0, <2>1 DEF Sets
    <3> QED  BY <1>0, <1>a, <1>b, <2>0, <3>1 DEF IInv, TypeOK, ERROR
  <2>3. \A fd \in Fds :
           /\ fd \in ReadBits => "IN" \in revents[fd]
           /\ fd \in WriteBits => "OUT" \in revents[fd]
           /\ fd \in ErrorBits => "ERR" \in revents[fd] \/ "NVAL" \in revents[fd]
    BY DEF ReadBits, WriteBits, ErrorBits, _check_poll_event_occurred
  <2>4. BitsAskedAndTrue'
    <3>1. /\ Members(sets'.read) \subseteq ReadBits /\ Members(sets'.write) \subseteq WriteBits
          /\ Members(sets'.error) \subseteq ErrorBits
      BY <2>0, <2>1 DEF Members
    <3>2. WithBits' \subseteq ReadBits \cup WriteBits \cup ErrorBits
      BY <2>0, <2>1 DEF WithBits, _is_in_any_set, _fd_is_set
    <3>3. WithBits' \subseteq Counted(args)
      BY <1>b, <2>1, <2>3, <3>2
    <3>4. \A fd \in Members(sets'.error) : {"ERR", "NVAL"} \cap state[fd] # {}
      BY <1>b, <2>1, <2>3, <3>1
    <3>5. result' # ERROR
      BY <1>b, <2>0 DEF ERROR
    <3> QED  BY <1>a, <1>b, <2>1, <2>3, <3>1, <3>3, <3>4, <3>5
               DEF BitsAskedAndTrue, BitsTrue
  <2>5. ResultCountsDescriptors'
    <3> SUFFICES ASSUME \A fd \in Fds : revents[fd] # {"HUP"}
                 PROVE  Reporting(revents) = WithBits'
      BY <1>0, <1>b, <2>0 DEF ResultCountsDescriptors
    <3>1. ASSUME NEW fd \in Fds
          PROVE  /\ _fd_is_set(fd, sets'.read) <=> fd \in ReadBits
                 /\ _fd_is_set(fd, sets'.write) <=> fd \in WriteBits
                 /\ _fd_is_set(fd, sets'.error) <=> fd \in ErrorBits
      <4>1. (args.read = NULL => ReadBits = {}) /\ (args.error = NULL => ErrorBits = {})
        BY <1>2 DEF MissingSet
      <4>2. args.write = NULL => fd \notin WriteBits
        BY <1>b, <2>3 DEF Members
      <4> QED  BY <2>0, <2>1, <4>1, <4>2 DEF _fd_is_set
    <3>2. ASSUME NEW fd \in Fds
          PROVE  revents[fd] # {} <=> fd \in ReadBits \cup WriteBits \cup ErrorBits
      <4>1. revents[fd] # {} <=> \E c \in {"IN", "OUT", "ERR", "NVAL"} : c \in revents[fd]
        BY <1>b DEF All
      <4> QED  BY <4>1 DEF ReadBits, WriteBits, ErrorBits,
                 _check_poll_event_occurred
    <3>3. WithBits' = {fd \in Fds : _is_in_any_set(fd, sets')}
      BY DEF WithBits
    <3> QED  BY <3>1, <3>2, <3>3 DEF Reporting, _is_in_any_set
  <2>6. ZeroMeansNothing'
    <3>1. ASSUME Cardinality(Reporting(revents)) = 0
          PROVE  timeout = "elapsed" /\ \A fd \in Counted(args) \cap linked : NothingWas(fd)
      <4>1. \A fd \in Fds : revents[fd] = {}
        BY <3>1, ReportingFits
      <4>2. revents = NoEvents
        BY <1>b, <4>1 DEF NoEvents
      <4> QED  BY <1>b, <4>1, <4>2, CountedFinite
    <3> QED  BY <1>0, <1>a, <1>b, <2>0, <3>1 DEF ZeroMeansNothing
  <2> QED  BY <1>a, <2>0, <2>2, <2>4, <2>5, <2>6, PlaceIsNext DEF IInv
<1> QED  BY <1>1, <1>2

(***************************************************************************)
(* The real select.                                                        *)
(***************************************************************************)

LEMMA RealSelectKeeps == ASSUME IInv, RealSelect PROVE IInv'
<1> DEFINE Bits(set, c) == IF set = NULL THEN NULL
                           ELSE {fd \in set : fd < args.nfds /\ state[fd] \cap c # {}}
<1>0. /\ pc = "real" /\ UNCHANGED <<world, call>> /\ timeout' = timeout
      /\ cursor' = cursor /\ ready_count' = ready_count /\ revents' = revents /\ failed' = failed
      /\ sets' = [read  |-> Bits(args.read, {"IN", "HUP"}),
                  write |-> Bits(args.write, {"OUT"}),
                  error |-> Bits(args.error, {"ERR"})]
      /\ pc' = "returned" /\ result' \in 0 .. 3 * Cardinality(Fds)
      /\ result' <= Cardinality(Counted(args)) /\ (result' = 0 => timeout = "elapsed")
  BY DEF RealSelect, Return
<1>a. /\ CallInv' /\ linked' = linked /\ state' = state /\ args' = args /\ was' = was
      /\ args \in Calls /\ Counted(args)' = Counted(args)
  BY <1>0, StepFrame
<1>b. Counted(args) \cap linked = {}
  BY <1>0 DEF IInv, RouteInv
<1>1. TypeOK'
  <2>1. \A c : \A set \in Given : Bits(set, c) \in Given
    BY DEF Given
  <2>2. args.read \in Given /\ args.write \in Given /\ args.error \in Given
    BY <1>a, CallsTyped
  <2>3. sets' \in Sets
    <3> HIDE DEF Bits
    <3> QED  BY <1>0, <2>1, <2>2 DEF Sets, Given
  <2>4. result' \in 0 .. Cardinality(Fds)
    BY <1>0, CountedFinite
  <2> QED  BY <1>0, <1>a, <2>3, <2>4 DEF IInv, TypeOK, ERROR
<1>2. BitsAskedAndTrue'
  <2>1. \A set, c : \A fd \in Members(Bits(set, c)) : fd \in Members(set) /\ state[fd] \cap c # {}
    BY DEF Members
  <2>2. sets'.read = Bits(args.read, {"IN", "HUP"}) /\ sets'.write = Bits(args.write, {"OUT"})
    BY <1>0
  <2> HIDE DEF Bits
  <2>3. \A fd \in Members(sets'.read) : fd \in Members(args.read) /\ state[fd] \cap {"IN", "HUP"} # {}
    BY <2>1, <2>2
  <2>4. \A fd \in Members(sets'.write) : fd \in Members(args.write) /\ state[fd] \cap {"OUT"} # {}
    BY <2>1, <2>2
  <2>5. \A fd \in Members(sets'.error) : state[fd] \cap {"ERR"} # {}
    BY <1>0, <2>1 DEF Bits
  <2>6. WithBits' \subseteq Counted(args)
    <3>1. \A set, c, fd : _fd_is_set(fd, Bits(set, c)) => _fd_is_set(fd, set) /\ fd < args.nfds
      BY DEF _fd_is_set, Bits
    <3>2. \A fd \in Fds : _is_in_any_set(fd, sets') => _is_in_any_set(fd, args) /\ fd < args.nfds
      BY <1>0, <3>1 DEF _is_in_any_set
    <3> QED  BY <3>2 DEF WithBits, Counted
  <2> QED  BY <1>0, <1>a, <2>3, <2>4, <2>5, <2>6, CountedFinite
             DEF BitsAskedAndTrue, BitsTrue, ERROR
<1>3. ResultCountsDescriptors' /\ ZeroMeansNothing'
  BY <1>0, <1>a, <1>b DEF ResultCountsDescriptors, ZeroMeansNothing
<1> QED  BY <1>0, <1>1, <1>2, <1>3, <1>a, PlaceIsNext DEF IInv

(* The real call fails: the sets are those of the call.                    *)
LEMMA RealSelectFailsKeeps == ASSUME IInv, RealSelectFails PROVE IInv'
<1>0. /\ pc = "real" /\ pc' = "returned" /\ result' = ERROR
      /\ UNCHANGED <<world, call>> /\ timeout' = timeout /\ sets' = sets /\ cursor' = cursor
      /\ ready_count' = ready_count /\ revents' = revents
  BY DEF RealSelectFails, Return
<1>f. failed' = TRUE
  BY DEF RealSelectFails
<1>a. /\ CallInv' /\ linked' = linked /\ state' = state /\ args' = args /\ was' = was
  BY <1>0, StepFrame
<1>1. TypeOK'
  <2>1. result' \in ERROR .. Cardinality(Fds)
    BY <1>0, ResultFits
  <2>2. failed' \in BOOLEAN
    BY <1>f, Zenon
  <2> QED  BY <1>0, <1>a, <2>1, <2>2 DEF IInv, TypeOK
<1>2. ResultCountsDescriptors' /\ ZeroMeansNothing'
  BY <1>f DEF ResultCountsDescriptors, ZeroMeansNothing
<1>3. sets = [read |-> args.read, write |-> args.write, error |-> args.error]
  BY <1>0 DEF IInv, RouteInv
<1>4. BitsAskedAndTrue'
  BY <1>0, <1>f, <1>a, <1>3 DEF BitsAskedAndTrue
<1> QED  BY <1>0, <1>1, <1>2, <1>4, <1>a, PlaceIsNext DEF IInv

(***************************************************************************)
(* The theorems.                                                           *)
(***************************************************************************)

LEMMA StutterKeeps == ASSUME IInv, UNCHANGED vars PROVE IInv'
<1>1. /\ linked' = linked /\ state' = state /\ args' = args /\ was' = was /\ timeout' = timeout
      /\ pc' = pc /\ sets' = sets /\ cursor' = cursor /\ ready_count' = ready_count
      /\ revents' = revents /\ failed' = failed /\ result' = result
  BY DEF vars, world, call, local
<1>2. TypeOK' /\ CallInv' /\ RouteInv' /\ FastInv' /\ ManyInv' /\ EntriesInv'
  BY <1>1 DEF IInv, TypeOK, CallInv, RouteInv, FastInv, ManyInv, EntriesInv,
     Clear, WithBits,
     Members, Counted, Lowest, NothingWas, NoEvents
<1>3. ResultCountsDescriptors' /\ ZeroMeansNothing' /\ BitsAskedAndTrue' /\ TameNeverAborts'
  BY <1>1 DEF IInv, ResultCountsDescriptors, ZeroMeansNothing,
     BitsAskedAndTrue, BitsTrue, TameNeverAborts,
     WithBits, Counted, NothingWas, Tame
<1> QED  BY <1>2, <1>3 DEF IInv

LEMMA NextKeeps == ASSUME IInv, [Next]_vars PROVE IInv'
<1>1. ASSUME World PROVE IInv'
  BY <1>1, ArriveKeeps, ExpireKeeps DEF World
<1>2. ASSUME NEW c \in Calls, NEW t \in Timeouts, select(c, t) PROVE IInv'
  BY <1>2, SelectKeeps
<1>3. ASSUME Step PROVE IInv'
  BY <1>3, FastDiedKeeps, FastWriteKeeps, FastReadKeeps, ManyCheckKeeps,
     ManyEndKeeps,
     ReadPollEntriesKeeps, RealSelectKeeps DEF Step
<1>6. ASSUME ThroughPoll \/ RealSelectFails PROVE IInv'
  BY <1>6, PollReturnsKeeps, PollFailsKeeps, RealSelectFailsKeeps
     DEF ThroughPoll
<1>4. ASSUME Resume PROVE IInv'
  BY <1>4, ResumeKeeps
<1>5. ASSUME UNCHANGED vars PROVE IInv'
  BY <1>5, StutterKeeps
<1> QED  BY <1>1, <1>2, <1>3, <1>4, <1>5, <1>6 DEF Next

(* What a way of select knows on its way, and with it everything below, is *)
(* so in every state.                                                      *)
THEOREM SelectInvariant == Spec => []IInv
BY InitInv, NextKeeps, PTL DEF Spec

(* Every bit in the sets select gives back is of a descriptor of the call  *)
(* and true of it; a write bit was asked for, the read bit of a hangup and *)
(* the error bits may come unasked.  A call that reports a failure has     *)
(* left the sets as they were.                                             *)
THEOREM SelectBitsAskedAndTrue == Spec => []BitsAskedAndTrue
<1>1. IInv => BitsAskedAndTrue
  BY DEF IInv
<1> QED  BY <1>1, SelectInvariant, PTL

(* When no real call underneath fails, the fast path and the way through   *)
(* poll return the number of descriptors with a bit in the sets, unless    *)
(* poll reported nothing but the hangup of an ordinary descriptor.         *)
THEOREM SelectCountsDescriptors == Spec => []ResultCountsDescriptors
<1>1. IInv => ResultCountsDescriptors
  BY DEF IInv
<1> QED  BY <1>1, SelectInvariant, PTL

(* When no real call underneath fails, zero is returned only when the time *)
(* is up and no descriptor with a session had anything to report at the    *)
(* call.                                                                   *)
THEOREM SelectZeroMeansNothing == Spec => []ZeroMeansNothing
<1>1. IInv => ZeroMeansNothing
  BY DEF IInv
<1> QED  BY <1>1, SelectInvariant, PTL

(* A call with all three sets, no gaps and no lone error descriptor does   *)
(* not stop the program.                                                   *)
THEOREM SelectTameNeverAborts == Spec => []TameNeverAborts
<1>1. IInv => TameNeverAborts
  BY DEF IInv
<1> QED  BY <1>1, SelectInvariant, PTL

=============================================================================
