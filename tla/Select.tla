------------------------------- MODULE Select -------------------------------
(***************************************************************************)
(* The select override: a call of select() on sets of TSSX and ordinary    *)
(* descriptors, with the connections becoming ready, or losing their peer, *)
(* while it looks at them.                                                 *)
(*                                                                         *)
(* It counts what is in the sets and takes one of five ways: the real      *)
(* select, a fast path for one TSSX descriptor, a loop over several, the   *)
(* same loop over nothing, and poll() for a mix.  poll() is represented by *)
(* what module Poll says of it.                                            *)
(***************************************************************************)
EXTENDS Integers, FiniteSets

CONSTANTS
    Fds,          \* descriptors
    Linked,       \* the sets of them that can be the ones with a session
    Calls,        \* the arguments of select: records of three sets and nfds
    Timeouts,     \* "forever" (NULL), "running" (at least a millisecond), "elapsed"
    Conditions,   \* what can become true of a descriptor
    NULL,         \* a set that is not given
    MaxArrivals   \* bound: conditions that are true at a time

ASSUME FdsAssumption ==
    /\ Fds \subseteq Nat \ {0} /\ IsFiniteSet(Fds)
    /\ Linked \subseteq SUBSET Fds /\ \A set \in SUBSET Fds : NULL # set
ASSUME ConditionsAssumption == Conditions \subseteq {"IN", "OUT", "HUP", "ERR", "NVAL"}
ASSUME TimeoutsAssumption == Timeouts \subseteq {"forever", "running", "elapsed"}
ASSUME CallsAssumption ==
    \A c \in Calls :
        /\ {c.read, c.write, c.error} \subseteq {NULL} \cup SUBSET Fds
        /\ c.nfds \in Nat

ERROR == -1

Sets == [read : {NULL} \cup SUBSET Fds, write : {NULL} \cup SUBSET Fds,
         error : {NULL} \cup SUBSET Fds]

VARIABLES
    linked,        \* the descriptors with a session
    state,         \* what is true of each descriptor
    was,           \* the same, at the call
    pc,            \* where the call is
    args,          \* its arguments, the sets as they were given
    timeout,       \* the milliseconds it works with: "elapsed" once they are over
    sets,          \* the caller's sets
    cursor,        \* the loop's descriptor
    ready_count,   \* of the loop, or what poll returned
    revents,       \* of poll's entries
    failed,        \* the real call underneath failed
    result

world == <<linked, state>>
call  == <<args, was>>
local == <<sets, cursor, ready_count, revents, failed, result>>
vars  == <<world, call, timeout, pc, local>>

NoCall == [read |-> NULL, write |-> NULL, error |-> NULL, nfds |-> 0]

NoEvents == [fd \in Fds |-> {}]

Init ==
    /\ linked \in Linked
    /\ state = NoEvents /\ was = NoEvents
    /\ pc = "idle" /\ args = NoCall /\ timeout = "elapsed"
    /\ sets = [read |-> NULL, write |-> NULL, error |-> NULL]
    /\ cursor = 0 /\ ready_count = 0 /\ revents = NoEvents
    /\ failed = FALSE /\ result = 0

-----------------------------------------------------------------------------
(***************************************************************************)
(* The world.                                                              *)
(***************************************************************************)

Running == pc \notin {"idle", "returned", "aborted"}

True == {p \in Fds \X Conditions : p[2] \in state[p[1]]}

\* A connection reports neither errors nor bad descriptors.
Arrive(fd, c) ==
    /\ Running \/ pc = "idle"
    /\ c \notin state[fd] /\ (fd \in linked => c \in {"IN", "OUT", "HUP"})
    /\ Cardinality(True) < MaxArrivals
    /\ state' = [state EXCEPT ![fd] = @ \cup {c}]
    /\ UNCHANGED <<linked, call, timeout, pc, local>>

Expire ==
    /\ Running /\ timeout = "running"
    /\ timeout' = "elapsed"
    /\ UNCHANGED <<world, call, pc, local>>

-----------------------------------------------------------------------------
(***************************************************************************)
(* The sets.                                                               *)
(***************************************************************************)

_fd_is_set(fd, set) == set # NULL /\ fd \in set

_is_in_any_set(fd, s) ==
    _fd_is_set(fd, s.read) \/ _fd_is_set(fd, s.write) \/ _fd_is_set(fd, s.error)

_clear_set(set) == IF set = NULL THEN NULL ELSE {}

_clear_all_sets(s) ==
    [read |-> _clear_set(s.read), write |-> _clear_set(s.write), error |-> _clear_set(s.error)]

_select_peer_died(fd) == "HUP" \in state[fd]

_ready_for(fd, op) == op \in state[fd]

\* The descriptors the call is about.
Counted(c) == {fd \in Fds : fd < c.nfds /\ _is_in_any_set(fd, c)}

(* mutant: the lowest descriptor starts from zero *)
LowestFromZero(c) == 0

Lowest(c) == IF Counted(c) = {} THEN c.nfds
             ELSE CHOOSE fd \in Counted(c) : \A other \in Counted(c) : fd <= other

-----------------------------------------------------------------------------
(***************************************************************************)
(* select.                                                                 *)
(***************************************************************************)

\* The fast path asserts that the set ends with its only descriptor, and that it
\* is in the read or the write set.
FastAsserts(c) ==
    /\ Lowest(c) + 1 = c.nfds
    /\ _fd_is_set(Lowest(c), c.read) \/ _fd_is_set(Lowest(c), c.write)

Path(c) ==
    CASE Counted(c) \subseteq linked /\ Cardinality(Counted(c)) = 1 ->
            IF FastAsserts(c) THEN "died" ELSE "aborted"
      [] Counted(c) \subseteq linked /\ Cardinality(Counted(c)) # 1 -> "many"
      [] Counted(c) \cap linked = {} /\ Counted(c) # {} -> "real"
      [] OTHER -> "poll"

\* The TSSX paths clear the caller's sets, the loop after copying them.
select(c, t) ==
    /\ pc = "idle"
    /\ args' = c /\ was' = state /\ timeout' = t
    /\ pc' = Path(c)
    /\ sets' = LET given == [read |-> c.read, write |-> c.write, error |-> c.error]
               IN  IF Path(c) \in {"died", "many"} THEN _clear_all_sets(given) ELSE given
    /\ cursor' = Lowest(c) /\ ready_count' = 0
    /\ UNCHANGED <<world, revents, failed, result>>

Return(value) == pc' = "returned" /\ result' = value

NoReturn(next) == pc' = next /\ UNCHANGED result

-----------------------------------------------------------------------------
(***************************************************************************)
(* _select_on_tssx_only_fast_path: the peer, the write and the read side   *)
(* are looked at one after the other.  FD_SET on a set that was not given  *)
(* is a crash.                                                             *)
(***************************************************************************)

OnlyFast == UNCHANGED <<world, call, timeout, cursor, revents, failed>>

FastDied ==
    /\ pc = "died"
    /\ IF ~_select_peer_died(cursor) THEN NoReturn("write") /\ UNCHANGED sets
       ELSE IF args.read = NULL THEN NoReturn("aborted") /\ UNCHANGED sets
       ELSE Return(1) /\ sets' = [sets EXCEPT !.read = {cursor}]
    /\ OnlyFast /\ UNCHANGED ready_count

FastWrite ==
    /\ pc = "write"
    /\ IF _fd_is_set(cursor, args.write) /\ _ready_for(cursor, "OUT")
       THEN sets' = [sets EXCEPT !.write = {cursor}] /\ ready_count' = 1
       ELSE UNCHANGED <<sets, ready_count>>
    /\ NoReturn("read")
    /\ OnlyFast

(* mutant: the write side is forgotten *)
FastReadyReads(found) == IF found THEN 1 ELSE 0

\* ready: set by either side.
FastReady(found) == IF found \/ ready_count = 1 THEN 1 ELSE 0

FastRead ==
    /\ pc = "read"
    /\ LET found == _fd_is_set(cursor, args.read) /\ _ready_for(cursor, "IN")
       IN  /\ sets' = IF found THEN [sets EXCEPT !.read = {cursor}] ELSE sets
           /\ IF FastReady(found) = 1 \/ timeout = "elapsed"
              THEN Return(FastReady(found))
              ELSE NoReturn("died")
    /\ OnlyFast /\ UNCHANGED ready_count

-----------------------------------------------------------------------------
(***************************************************************************)
(* _select_on_tssx_only over several descriptors, or none: every           *)
(* descriptor from the lowest on is looked at, in a set or not, and what   *)
(* is found is written into the copy of the sets.                          *)
(***************************************************************************)

(* mutant: both operations look at the write set *)
CheckSelectWrites(fd) ==
    _select_peer_died(fd) \/ (_fd_is_set(fd, args.write) /\ _ready_for(fd, "OUT"))

_check_select_events(fd) ==
    \/ _select_peer_died(fd)
    \/ _fd_is_set(fd, args.read) /\ _ready_for(fd, "IN")
    \/ _fd_is_set(fd, args.write) /\ _ready_for(fd, "OUT")

ManyCheck ==
    /\ pc = "many" /\ cursor < args.nfds
    /\ IF cursor \in linked
       THEN /\ ready_count' = ready_count + (IF _check_select_events(cursor) THEN 1 ELSE 0)
            /\ cursor' = cursor + 1 /\ UNCHANGED pc
       ELSE pc' = "aborted" /\ UNCHANGED <<cursor, ready_count>>   \* no connection
    /\ UNCHANGED <<world, call, timeout, sets, revents, failed, result>>

(* mutant: the loop is left only with a find *)
ManyDoneReady == ready_count > 0

ManyDone == ready_count > 0 \/ timeout = "elapsed"

ManyEnd ==
    /\ pc = "many" /\ cursor >= args.nfds
    /\ IF ManyDone THEN Return(ready_count) /\ UNCHANGED cursor
       ELSE cursor' = Lowest(args) /\ NoReturn("many")
    /\ UNCHANGED <<world, call, timeout, sets, ready_count, revents, failed>>

-----------------------------------------------------------------------------
(***************************************************************************)
(* _forward_to_poll.                                                       *)
(***************************************************************************)

\* _fill_poll_entries
Events(fd) ==
    {c \in {"IN", "OUT", "ERR"} :
        \/ c = "IN"  /\ _fd_is_set(fd, args.read)
        \/ c = "OUT" /\ _fd_is_set(fd, args.write)
        \/ c = "ERR" /\ _fd_is_set(fd, args.error)}

(* mutant: what was not asked for is reported *)
CheckAllEvents(fd) == IF "HUP" \in state[fd] THEN {"HUP", "IN"} ELSE state[fd]

\* What poll says of a connection: a hangup as such and as readable.
_check_poll_events(fd) ==
    IF "HUP" \in state[fd] THEN {"HUP", "IN"} ELSE state[fd] \cap Events(fd) \cap {"IN", "OUT"}

\* What it says of the others: errors and hangups, asked for or not.
KernelPollEvents(fd) == state[fd] \cap (Events(fd) \cup {"HUP", "ERR", "NVAL"})

\* The revents; those of the ordinary descriptors are missing when TSSX events
\* interrupted the other thread.
Found(interrupted) ==
    [fd \in Fds |-> IF fd \notin Counted(args) THEN {}
                    ELSE IF fd \in linked THEN _check_poll_events(fd)
                    ELSE IF interrupted THEN {} ELSE KernelPollEvents(fd)]

Reporting(events) == {fd \in Fds : events[fd] # {}}

\* poll returns when there are events or the time is up.
PollReturns ==
    /\ pc = "poll"
    /\ \E interrupted \in BOOLEAN : revents' = Found(interrupted)
    /\ revents' # NoEvents \/ timeout = "elapsed"
    /\ ready_count' = Cardinality(Reporting(revents'))
    /\ pc' = "entries"
    /\ UNCHANGED <<world, call, timeout, sets, cursor, failed, result>>

\* When the real poll fails poll returns ERROR, which ends the call before the
\* sets are touched, or, having added the TSSX events to it, one less than these.
PollFails ==
    /\ pc = "poll"
    /\ failed' = TRUE
    /\ \/ Return(ERROR) /\ UNCHANGED <<revents, ready_count>>
       \/ /\ revents' = Found(TRUE) /\ revents' # NoEvents
          /\ ready_count' = Cardinality(Reporting(revents')) - 1
          /\ NoReturn("entries")
    /\ UNCHANGED <<world, call, timeout, sets, cursor>>

\* One entry's bits: an invalid descriptor's is an error and nothing else.
_check_poll_event_occurred(fd, c) == c \in revents[fd] /\ "NVAL" \notin revents[fd]

ErrorBits == {fd \in Fds : "NVAL" \in revents[fd] \/ _check_poll_event_occurred(fd, "ERR")}

ReadBits == {fd \in Fds : _check_poll_event_occurred(fd, "IN")}

WriteBits == {fd \in Fds : _check_poll_event_occurred(fd, "OUT")}

\* FD_SET on a set that was not given.
MissingSet ==
    \/ args.read = NULL /\ ReadBits # {}
    \/ args.error = NULL /\ ErrorBits # {}

_read_poll_entries ==
    /\ pc = "entries"
    /\ IF MissingSet THEN NoReturn("aborted") /\ UNCHANGED sets
       ELSE /\ Return(ready_count)
            /\ sets' = [read  |-> IF args.read  = NULL THEN NULL ELSE ReadBits,
                        write |-> IF args.write = NULL THEN NULL ELSE WriteBits,
                        error |-> IF args.error = NULL THEN NULL ELSE ErrorBits]
    /\ UNCHANGED <<world, call, timeout, cursor, ready_count, revents, failed>>

-----------------------------------------------------------------------------

\* The real select, on ordinary descriptors alone: what is asked for and true.
RealSelect ==
    /\ pc = "real"
    /\ LET Bits(set, c) == IF set = NULL THEN NULL
                           ELSE {fd \in set : fd < args.nfds /\ state[fd] \cap c # {}}
       IN  sets' = [read  |-> Bits(args.read, {"IN", "HUP"}),
                    write |-> Bits(args.write, {"OUT"}),
                    error |-> Bits(args.error, {"ERR"})]
    /\ \E n \in 0 .. 3 * Cardinality(Fds) :
          /\ (n = 0) <=> ~\E fd \in Fds : _is_in_any_set(fd, sets')
          /\ n = 0 => timeout = "elapsed"
          /\ n <= Cardinality(Counted(args)) /\ Return(n)
    /\ UNCHANGED <<world, call, timeout, cursor, ready_count, revents, failed>>

\* ... or it fails.
RealSelectFails ==
    /\ pc = "real"
    /\ failed' = TRUE /\ Return(ERROR)
    /\ UNCHANGED <<world, call, timeout, sets, cursor, ready_count, revents>>

\* The application deals with what is ready and calls again.
Resume ==
    /\ pc = "returned"
    /\ pc' = "idle" /\ args' = NoCall /\ timeout' = "elapsed"
    /\ state' = NoEvents /\ was' = NoEvents
    /\ sets' = [read |-> NULL, write |-> NULL, error |-> NULL]
    /\ cursor' = 0 /\ ready_count' = 0 /\ revents' = NoEvents
    /\ failed' = FALSE /\ result' = 0
    /\ UNCHANGED linked

World == \/ \E fd \in Fds, c \in Conditions : Arrive(fd, c)
         \/ Expire

Step == \/ FastDied \/ FastWrite \/ FastRead
        \/ ManyCheck \/ ManyEnd
        \/ _read_poll_entries
        \/ RealSelect

ThroughPoll == PollReturns \/ PollFails

Next == World \/ (\E c \in Calls, t \in Timeouts : select(c, t)) \/ Step \/ ThroughPoll \/ RealSelectFails \/ Resume

Spec == Init /\ [][Next]_vars

\* The caller runs, the real select returns when it can and time passes.  Of poll
\* only what module Poll's PollReturns shows is assumed, that it ends when its time
\* is up: without a timeout it may block although a connection is ready.
FairSpec ==
    /\ Spec
    /\ WF_vars(Step) /\ WF_vars(timeout = "elapsed" /\ PollReturns)
    /\ WF_vars(Expire)

-----------------------------------------------------------------------------
(***************************************************************************)
(* Properties.                                                             *)
(***************************************************************************)

Members(set) == IF set = NULL THEN {} ELSE set

\* Types of the state.
TypeOK ==
    /\ linked \subseteq Fds
    /\ {state, was, revents} \subseteq [Fds -> SUBSET {"IN", "OUT", "HUP", "ERR", "NVAL"}]
    /\ pc \in {"idle", "died", "write", "read", "many", "poll", "entries", "real",
               "returned", "aborted"}
    /\ timeout \in {"forever", "running", "elapsed"}
    /\ sets \in Sets /\ cursor \in Nat
    /\ ready_count \in 0 .. Cardinality(Fds) /\ result \in ERROR .. Cardinality(Fds)
    /\ failed \in BOOLEAN

WithBits == {fd \in Fds : _is_in_any_set(fd, sets)}

BitsTrue ==
    /\ WithBits \subseteq Counted(args)
    /\ \A fd \in Members(sets.read) :
          \/ "HUP" \in state[fd]
          \/ fd \in Members(args.read) /\ "IN" \in state[fd]
    /\ \A fd \in Members(sets.write) : fd \in Members(args.write) /\ "OUT" \in state[fd]
    /\ \A fd \in Members(sets.error) : {"ERR", "NVAL"} \cap state[fd] # {}

\* A bit in a set of the caller's is of a descriptor the call was about and is true
\* of it: something can be read, or written, or the peer is gone, or there is an
\* error.  The write bit was asked for; the read bit of a hangup, and the error bit,
\* can come unasked.  A call that reports a failure has left the sets as they were.
BitsAskedAndTrue ==
    pc = "returned" =>
        IF result = ERROR
        THEN failed /\ sets = [read |-> args.read, write |-> args.write, error |-> args.error]
        ELSE BitsTrue

\* When nothing underneath fails, the result is the number of descriptors with a
\* bit, on the fast path and through poll, unless poll reported nothing but the
\* hangup of an ordinary descriptor.
ResultCountsDescriptors ==
    /\ pc = "returned" /\ ~failed
    /\ Counted(args) \cap linked # {}
    /\ Cardinality(Counted(args)) = 1 \/ ~(Counted(args) \subseteq linked)
    /\ \A fd \in Fds : revents[fd] # {"HUP"}
    => result = Cardinality(WithBits)

\* Nothing that was asked for was true of fd when select was called.
NothingWas(fd) ==
    /\ "HUP" \notin was[fd]
    /\ ~("IN" \in was[fd] /\ fd \in Members(args.read))
    /\ ~("OUT" \in was[fd] /\ fd \in Members(args.write))

\* When nothing underneath fails, a result of zero means that the time is up and that
\* nothing that was asked for was true when select was called, whichever way the
\* call went.  (After a real poll that failed it can stand for one TSSX event.)
ZeroMeansNothing ==
    pc = "returned" /\ ~failed /\ result = 0 =>
        /\ timeout = "elapsed"
        /\ \A fd \in Counted(args) \cap linked : NothingWas(fd)

\* A call that gives all three sets, no gap between the lowest descriptor and nfds,
\* and more than the error set for a lone one does not stop the program: not by
\* the assertions, a missing connection or a missing set.
Tame(c) ==
    /\ NULL \notin {c.read, c.write, c.error}
    /\ \A fd \in Counted(c), other \in 0 .. c.nfds :
          fd < other /\ other < c.nfds => other \in Counted(c)
    /\ \A fd \in Counted(c) : Counted(c) = {fd} => fd \in c.read \cup c.write

TameNeverAborts == pc = "aborted" => ~Tame(args)

\* A call with a timeout ends.
SelectReturns == (Running /\ timeout # "forever") ~> ~Running

\* A call about TSSX descriptors alone ends when one of them becomes readable,
\* timeout or not.  With ordinary ones among them it goes through poll, whose second
\* thread can block it.
ReadyEndsSelect ==
    \A fd \in Fds :
        (/\ Running /\ Counted(args) \subseteq linked
         /\ fd \in Counted(args) /\ fd \in Members(args.read) /\ "IN" \in state[fd])
            ~> ~Running

\* What the comment in _select_peer_died says: a connection whose peer is gone
\* triggers a read event.
HangupIsReadable ==
    pc = "returned" /\ result > 0 =>
        \A fd \in Counted(args) \cap linked : "HUP" \in was[fd] => fd \in Members(sets.read)

=============================================================================
