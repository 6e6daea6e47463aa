----------------------------- MODULE SelectInv ------------------------------
(***************************************************************************)
(* Why select reports what it found: its inductive invariant.  What is     *)
(* true of a descriptor stays true during a call, so that what one of the  *)
(* five ways has seen, and what it has passed without seeing, still counts *)
(* when it returns.                                                        *)
(***************************************************************************)
EXTENDS Select

(* The call, and that nothing true of a descriptor at its start is lost.   *)
CallInv ==
  /\ args \in Calls \cup {NoCall}
  /\ pc # "idle" => args \in Calls
  /\ \A fd \in Fds : was[fd] \subseteq state[fd]

(* Which descriptors a way is taken for.  (select-overrides.c, select)     *)
RouteInv ==
  /\ pc \in {"died", "write", "read"} => Counted(args) = {cursor} /\ cursor \in linked
  /\ pc = "many" => /\ Counted(args) \subseteq linked /\ Cardinality(Counted(args)) # 1
                    /\ cursor >= Lowest(args)
  /\ pc = "real" => Counted(args) \cap linked = {}
  /\ pc \in {"real", "poll"} =>
        sets = [read |-> args.read, write |-> args.write, error |-> args.error]

Clear(s) == \A fd \in Fds : ~_is_in_any_set(fd, s)

(* The fast path: nothing is in the sets until something is found, and     *)
(* what it has looked for in vain was not there when select was called.    *)
(* (_select_on_tssx_only_fast_path)                                        *)
FastInv ==
  /\ pc \in {"died", "write"} => Clear(sets) /\ ready_count = 0
  /\ pc \in {"write", "read"} => "HUP" \notin was[cursor]
  /\ pc = "read" =>
       \/ /\ ready_count = 0 /\ Clear(sets)
          /\ ~("OUT" \in was[cursor] /\ cursor \in Members(args.write))
       \/ /\ ready_count = 1
          /\ WithBits = {cursor} /\ Members(sets.write) = {cursor}
          /\ Members(sets.read) = {} /\ Members(sets.error) = {}
          /\ cursor \in Members(args.write) /\ "OUT" \in state[cursor]

(* The loop: the caller's sets stay empty; it has counted at most each     *)
(* descriptor below the cursor once, and if none, nothing was there.       *)
(* (_select_on_tssx_only)                                                  *)
ManyInv ==
  pc = "many" =>
    /\ Clear(sets)
    /\ ready_count <= Cardinality({fd \in Fds : fd < cursor})
    /\ ready_count = 0 => \A fd \in Counted(args) : fd < cursor => NothingWas(fd)

(* The way through poll: the entries have been asked for, are true, and    *)
(* leave out no connection with something to report.  (_forward_to_poll)   *)
EntriesInv ==
  pc = "entries" =>
    /\ revents # NoEvents \/ timeout = "elapsed"
    /\ ~failed => ready_count = Cardinality(Reporting(revents))
    /\ \A fd \in Fds :
         /\ revents[fd] # {} => fd \in Counted(args)
         /\ \A c \in {"ERR", "NVAL"} : c \in revents[fd] => c \in state[fd]
         /\ "IN" \in revents[fd] =>
              "HUP" \in state[fd] \/ (fd \in Members(args.read) /\ "IN" \in state[fd])
         /\ "OUT" \in revents[fd] => fd \in Members(args.write) /\ "OUT" \in state[fd]
         /\ fd \in Counted(args) \cap linked /\ revents[fd] = {} => NothingWas(fd)

(* The inductive invariant, and the properties it carries to the return.   *)
IInv == /\ TypeOK /\ CallInv /\ RouteInv /\ FastInv /\ ManyInv /\ EntriesInv
        /\ ResultCountsDescriptors /\ ZeroMeansNothing /\ BitsAskedAndTrue
        /\ TameNeverAborts
=============================================================================
