-------------------------------- MODULE Epoll --------------------------------
(***************************************************************************)
(* The epoll override: one epoll instance, the descriptors registered with *)
(* it, and the three ways its wait goes.                                   *)
(*                                                                         *)
(* A descriptor with a TSSX session is kept in the instance: the first one *)
(* in the field "first", the others in the vector "entries".  A descriptor *)
(* without one is registered with the kernel and only counted.  A wait     *)
(* scans the TSSX entries, or calls the real epoll_wait, or does both with *)
(* a second thread for the real one; the two share a count of events, and  *)
(* the calling thread interrupts the other one with a signal.              *)
(*                                                                         *)
(* The application has one thread that uses the instance.  It registers a  *)
(* descriptor after connecting it, once, and removes it before closing it, *)
(* as src/try/try-epoll.c does; so which descriptors have a session is     *)
(* fixed.  What becomes ready is not kept in the state: every scan finds   *)
(* some readiness, every real wait some events.                            *)
(***************************************************************************)
EXTENDS Vector, FiniteSets

CONSTANTS
    Fds,         \* descriptors
    Linked,      \* the sets of them that can be the ones with a session
    Interests,   \* what a descriptor can be registered for, sets of flags
    Readiness,   \* what a scan can find of a connection: subsets of IN, OUT, HUP
    Sizes,       \* the values of number_of_events
    Timeouts,    \* "forever" (-1), "running" (a finite one), "elapsed" (0)
    INITIAL_INSTANCE_CAPACITY,
    MaxRefused   \* bound: registrations the kernel refused and that are counted

Entry == [fd : Fds, events : Interests, enabled : BOOLEAN]

ASSUME FdsAssumption == IsFiniteSet(Fds)
ASSUME EntryAssumption == Element = Entry
ASSUME CapacityAssumption == INITIAL_INSTANCE_CAPACITY \in Nat
ASSUME SizesAssumption == Sizes \subseteq Nat \ {0}
ASSUME TimeoutsAssumption == Timeouts \subseteq {"forever", "running", "elapsed"}
ASSUME LinkedAssumption == Linked \subseteq SUBSET Fds
ASSUME RefusedAssumption == MaxRefused \in Nat

ERROR == -1

VARIABLES
    open,          \* epoll_create was called, close was not
    linked,        \* the descriptors with a session
    first,         \* instance->first
    entries,       \* instance->entries
    tssx_count, normal_count,
    kernel,        \* what is registered with the real instance
    miscounted,    \* a removal the kernel refused was counted
    written,       \* those whose one-shot event was put into the caller's array
    overrun,       \* those whose one-shot event was put behind the end of it
    aborted,       \* an assertion failed
    mpc,           \* where the caller is in epoll_wait
    call,          \* the path it took and its arguments
    out,           \* the descriptors with an event in the array of the scan
    npc, nevents,  \* where the second thread is, its task's event_count
    count,         \* the shared event count
    result         \* what epoll_wait returns

instance == <<first, entries, tssx_count, normal_count, kernel, miscounted>>
told     == <<written, overrun>>
waiting  == <<mpc, call, out, npc, nevents, count, result>>
vars     == <<open, linked, instance, told, aborted, waiting>>

NoCall == [path |-> "none", size |-> 1, timeout |-> "elapsed"]

Init ==
    /\ open = FALSE /\ linked \in Linked
    /\ first = Junk /\ entries = VECTOR_INITIALIZER
    /\ tssx_count = 0 /\ normal_count = 0 /\ kernel = {} /\ miscounted = FALSE
    /\ written = {} /\ overrun = {} /\ aborted = FALSE
    /\ mpc = "idle" /\ call = NoCall /\ out = {}
    /\ npc = "done" /\ nevents = 0 /\ count = 0 /\ result = 0

-----------------------------------------------------------------------------
(***************************************************************************)
(* The instance.                                                           *)
(***************************************************************************)

\* The entries, in the order a scan meets them: the first, then the vector.
List == IF tssx_count = 0 THEN <<>>
        ELSE IF tssx_count = 1 THEN <<first>>
        ELSE <<first>> \o Contents(entries)

Registered == {List[i].fd : i \in DOMAIN List} \cup kernel

Idle == open /\ ~aborted /\ mpc = "idle"

\* has_epoll_instance_associated must be false for the new descriptor.
epoll_create1 ==
    /\ ~open /\ ~aborted
    /\ IF tssx_count + normal_count > 0 THEN aborted' = TRUE /\ UNCHANGED open
       ELSE open' = TRUE /\ UNCHANGED aborted
    /\ UNCHANGED <<linked, instance, told, waiting>>

(* mutant: the counters survive the close *)
CloseKeepingCount == UNCHANGED tssx_count /\ normal_count' = 0

CloseCounts == tssx_count' = 0 /\ normal_count' = 0

\* The vector is only destroyed while it is in use.
close_epoll_instance ==
    /\ IF tssx_count + normal_count = 0 THEN UNCHANGED <<tssx_count, normal_count>> ELSE CloseCounts
    /\ entries' = IF tssx_count > 1 THEN vector_destroy(entries) ELSE entries

\* close() of the epoll descriptor: the real close empties the kernel's list.
Close ==
    /\ Idle
    /\ close_epoll_instance
    /\ open' = FALSE /\ kernel' = {} /\ miscounted' = FALSE /\ written' = {} /\ overrun' = {}
    /\ UNCHANGED <<linked, first, aborted, waiting>>

-----------------------------------------------------------------------------
(***************************************************************************)
(* epoll_ctl.  A descriptor goes where its session says at that moment.    *)
(***************************************************************************)

\* What became of the last one-shot event of a descriptor is forgotten.
Rearm(fd) == written' = written \ {fd} /\ overrun' = overrun \ {fd}

Armed(fd, i) == [fd |-> fd, events |-> i, enabled |-> TRUE]

\* The first entry goes into its own field, the second one sets the vector up.
_epoll_add_to_instance(e) ==
    /\ tssx_count' = tssx_count + 1
    /\ IF tssx_count = 0 THEN first' = e /\ UNCHANGED entries
       ELSE /\ entries' = vector_push_back(IF tssx_count = 1
                                           THEN vector_setup(INITIAL_INSTANCE_CAPACITY, TRUE)
                                           ELSE entries, e, TRUE)
            /\ UNCHANGED first

\* Counted before the kernel has said whether it takes the descriptor.
_epoll_normal_add(fd) ==
    /\ normal_count' = normal_count + 1
    /\ \/ kernel' = kernel \cup {fd}
       \/ normal_count < Cardinality(kernel) + MaxRefused /\ UNCHANGED kernel
    /\ UNCHANGED <<first, entries, tssx_count, miscounted>>

Add(fd) ==
    /\ Idle /\ fd \notin Registered
    /\ IF fd \in linked
       THEN /\ \E i \in Interests : _epoll_add_to_instance(Armed(fd, i))
            /\ UNCHANGED <<normal_count, kernel, miscounted>>
       ELSE _epoll_normal_add(fd)
    /\ Rearm(fd)
    /\ UNCHANGED <<open, linked, aborted, waiting>>

\* The offsets of the entries of a descriptor; the loop over the vector
\* asserts that it was set up.
Offsets(fd) == {k \in 0 .. entries.size - 1 : entries.live /\ vector_get(entries, k).fd = fd}

_find_epoll_entry(fd) == CHOOSE k \in Offsets(fd) : \A j \in Offsets(fd) : k <= j

Unknown(fd) == fd # first.fd /\ Offsets(fd) = {}

_epoll_update_instance(fd, i) ==
    IF fd = first.fd THEN first' = Armed(fd, i) /\ UNCHANGED entries
    ELSE entries' = vector_assign(entries, _find_epoll_entry(fd), Armed(fd, i)) /\ UNCHANGED first

Modify(fd) ==
    /\ Idle /\ fd \in linked /\ tssx_count > 0 /\ ~Unknown(fd)
    /\ \E i \in Interests : _epoll_update_instance(fd, i)
    /\ Rearm(fd)
    /\ UNCHANGED <<open, linked, tssx_count, normal_count, kernel, miscounted, aborted, waiting>>

\* The last entry of the vector takes the place of the first.
_epoll_erase_first_from_instance ==
    /\ IF tssx_count > 1
       THEN first' = vector_back(entries) /\ entries' = vector_pop_back(entries, TRUE)
       ELSE UNCHANGED <<first, entries>>
    /\ tssx_count' = tssx_count - 1

(* mutant: the descriptor of the first entry is looked for in the vector too *)
EraseOnlyVector(fd) ==
    /\ entries' = IF Offsets(fd) = {} THEN entries ELSE vector_erase(entries, _find_epoll_entry(fd), TRUE)
    /\ tssx_count' = tssx_count - 1 /\ UNCHANGED first

_epoll_erase_from_instance(fd) ==
    IF fd = first.fd THEN _epoll_erase_first_from_instance
    ELSE /\ entries' = vector_erase(entries, _find_epoll_entry(fd), TRUE)
         /\ tssx_count' = tssx_count - 1 /\ UNCHANGED first

\* Counted before the kernel has said whether it had the descriptor; asserts
\* that there is one to count.
_epoll_normal_delete(fd) ==
    IF normal_count = 0 THEN aborted' = TRUE /\ UNCHANGED <<normal_count, kernel, miscounted>>
    ELSE /\ normal_count' = normal_count - 1 /\ kernel' = kernel \ {fd}
         /\ miscounted' = (miscounted \/ fd \notin kernel) /\ UNCHANGED aborted

Delete(fd) ==
    /\ Idle
    /\ \/ /\ fd \in linked /\ tssx_count > 0 /\ ~Unknown(fd)
          /\ _epoll_erase_from_instance(fd)
          /\ UNCHANGED <<normal_count, kernel, miscounted, aborted>>
       \/ /\ fd \notin linked
          /\ _epoll_normal_delete(fd)
          /\ UNCHANGED <<first, entries, tssx_count>>
    /\ Rearm(fd)
    /\ UNCHANGED <<open, linked, waiting>>

\* Modifying or removing a descriptor with a session that is not registered:
\* refused when there is a vector to look through, an abort when there is not.
ControlUnknown(fd) ==
    /\ Idle /\ fd \in linked /\ (tssx_count = 0 \/ Unknown(fd))
    /\ aborted' = (tssx_count = 0 \/ ~entries.live)
    /\ UNCHANGED <<open, linked, instance, told, waiting>>

-----------------------------------------------------------------------------
(***************************************************************************)
(* One entry: what _check_epoll_entry reports of a connection found in     *)
(* state r.  A hangup is reported as one, and as readable, whatever was    *)
(* asked for.  The edge flags are written and never help: the condition    *)
(* that reads them has the wrong precedence and is always false.           *)
(***************************************************************************)

_is_level_triggered(e) == "ET" \notin e.events

_is_edge_for(e, op) == FALSE

_is_oneshot(e) == "ONESHOT" \in e.events

_notify_of_epoll_hangup(e) == {"HUP", "IN"} \cup ({"RDHUP"} \cap e.events)

_check_epoll_event(e, op, r) ==
    op \in e.events /\ op \in r /\ (_is_level_triggered(e) \/ _is_edge_for(e, op))

_check_epoll_entry(e, r) ==
    IF ~e.enabled THEN {}
    ELSE IF "HUP" \in r THEN _notify_of_epoll_hangup(e)
    ELSE {op \in {"IN", "OUT"} : _check_epoll_event(e, op, r)}

(* mutant: an entry beyond the maximum is checked, and disabled, all the same *)
FiredPastMaximum(e, r, taken) ==
    [e EXCEPT !.enabled = e.enabled /\ ~(_check_epoll_entry(e, r) # {} /\ _is_oneshot(e))]

\* A one-shot entry is disabled by what it reports, except by a hangup.
Fired(e, r, taken) ==
    [e EXCEPT !.enabled = e.enabled /\ ~(taken /\ _is_oneshot(e) /\ "HUP" \notin r)]

\* Of the entries with an event, those there is room for.
Taken(hits) == {i \in hits : Cardinality({j \in hits : j < i}) < call.size}

(***************************************************************************)
(* One loop over the entries, finding the connections in states found: the *)
(* events of the first call.size entries that have one.                    *)
(***************************************************************************)
Scan(found) ==
    LET R(e)    == found[e.fd]
        hits    == {i \in DOMAIN List : _check_epoll_entry(List[i], R(List[i])) # {}}
        taken   == Taken(hits)
        Next(i) == Fired(List[i], R(List[i]), i \in taken)
    IN  /\ out' = {List[i].fd : i \in taken}
        /\ first' = Next(1)
        /\ entries' = IF tssx_count = 1 THEN entries
                      ELSE With(entries, entries.size,
                                [k \in DOMAIN entries.data |->
                                    IF k < entries.size THEN Next(k + 2) ELSE entries.data[k]])
        /\ UNCHANGED <<tssx_count, normal_count, kernel, miscounted>>

FoundSome == \E found \in [linked -> Readiness] : Scan(found)

-----------------------------------------------------------------------------
(***************************************************************************)
(* epoll_wait.                                                             *)
(***************************************************************************)

TimedOut == call.timeout = "elapsed"

\* number_of_events is not zero; the three paths, the second one in two parts.
epoll_wait ==
    /\ Idle
    /\ \E size \in Sizes, t \in Timeouts :
          LET path == IF tssx_count = 0 THEN "real"
                      ELSE IF normal_count > 0 THEN "concurrent"
                      ELSE IF tssx_count = 1 THEN "single" ELSE "many"
          IN  /\ call' = [path |-> path, size |-> size, timeout |-> t]
              /\ mpc' = IF path = "concurrent" THEN "scan" ELSE "wait"
              /\ npc' = IF path = "concurrent" THEN "start" ELSE "done"
    /\ UNCHANGED <<open, linked, instance, told, aborted, out, nevents, count, result>>

Expire ==
    /\ mpc \notin {"idle", "returned"} /\ call.timeout = "running"
    /\ call' = [call EXCEPT !.timeout = "elapsed"]
    /\ UNCHANGED <<open, linked, instance, told, aborted, mpc, out, npc, nevents, count, result>>

\* Those of some descriptors that have a one-shot registration.
Oneshots(fds) == {List[i].fd : i \in {i \in DOMAIN List : _is_oneshot(List[i]) /\ List[i].fd \in fds}}

Return(value) == mpc' = "returned" /\ result' = value

\* What the kernel says of the descriptors it has: some events, none when the
\* time is up, or an interruption.
KernelEvents == {n \in 0 .. Cardinality(kernel) :
                    n <= call.size /\ (n = 0 => TimedOut)}

RealWait ==
    /\ mpc = "wait" /\ call.path = "real"
    /\ \E n \in KernelEvents \cup {ERROR} : Return(n)
    /\ UNCHANGED <<open, linked, instance, told, aborted, call, out, npc, nevents, count>>

\* _tssx_epoll_wait_for_single_entry: SUCCESS, whatever was found.
SingleWait ==
    /\ mpc = "wait" /\ call.path = "single"
    /\ FoundSome
    /\ IF out' # {} \/ TimedOut THEN Return(0) /\ written' = written \cup Oneshots(out')
       ELSE UNCHANGED <<mpc, result, written>>
    /\ UNCHANGED <<open, linked, aborted, overrun, call, npc, nevents, count>>

\* _simple_tssx_epoll_wait over more than one entry.
ManyWait ==
    /\ mpc = "wait" /\ call.path = "many"
    /\ FoundSome
    /\ IF out' # {} \/ TimedOut
       THEN Return(Cardinality(out')) /\ written' = written \cup Oneshots(out')
       ELSE UNCHANGED <<mpc, result, written>>
    /\ UNCHANGED <<open, linked, aborted, overrun, call, npc, nevents, count>>

-----------------------------------------------------------------------------
(***************************************************************************)
(* _concurrent_epoll_wait: the caller ("main") scans, the second thread    *)
(* ("normal") is in the real epoll_wait.  The descriptor and the array are *)
(* good, so that call fails only with EINTR.                               *)
(***************************************************************************)

MainOnly == UNCHANGED <<open, linked, aborted, call>>

MScan ==
    /\ mpc = "scan"
    /\ FoundSome
    /\ mpc' = "load"
    /\ MainOnly /\ UNCHANGED <<told, npc, nevents, count, result>>

(* mutant: the timeout only counts when there is nothing else to look at *)
AfterScanForever == IF count > 0 THEN "add" ELSE IF out # {} THEN "kill" ELSE "scan"

AfterScan == IF count > 0 THEN "add"
             ELSE IF out # {} THEN "kill"
             ELSE IF TimedOut THEN "add" ELSE "scan"

MLoad ==
    /\ mpc = "load"
    /\ mpc' = AfterScan
    /\ MainOnly /\ UNCHANGED <<instance, told, out, npc, nevents, count, result>>

\* The signal ends the real wait if the thread is in it, and is lost otherwise.
MKill ==
    /\ mpc = "kill"
    /\ mpc' = "add"
    /\ npc' = IF npc = "wait" THEN "done" ELSE npc
    /\ MainOnly /\ UNCHANGED <<instance, told, out, nevents, count, result>>

MAdd ==
    /\ mpc = "add"
    /\ mpc' = "join"
    /\ count' = count + Cardinality(out)
    /\ MainOnly /\ UNCHANGED <<instance, told, out, npc, nevents, result>>

Joined == npc = "done"

\* The TSSX events that still fit when they are copied behind the others.
Ahead(g, f) == \E i, j \in DOMAIN List : i < j /\ List[i].fd = g /\ List[j].fd = f

Fitting == {f \in out : nevents + Cardinality({g \in out : Ahead(g, f)}) < call.size}

\* They are all copied, past the end of the array too.
MJoin ==
    /\ mpc = "join" /\ Joined
    /\ Return(count)
    /\ written' = written \cup Oneshots(Fitting)
    /\ overrun' = overrun \cup Oneshots(out \ Fitting)
    /\ MainOnly /\ UNCHANGED <<instance, out, npc, nevents, count>>

NormalOnly == UNCHANGED <<open, linked, instance, told, aborted, mpc, call, out, result>>

NStart ==
    /\ npc = "start"
    /\ npc' = IF count = 0 THEN "wait" ELSE "add"
    /\ NormalOnly /\ UNCHANGED <<nevents, count>>

NWait ==
    /\ npc = "wait"
    /\ \E n \in KernelEvents : nevents' = n
    /\ npc' = "add"
    /\ NormalOnly /\ UNCHANGED count

\* EINTR from a signal that is not the caller's: it leaves as if it were.
NInterrupted ==
    /\ npc = "wait"
    /\ npc' = "done"
    /\ NormalOnly /\ UNCHANGED <<nevents, count>>

(* mutant: the events of the real wait are not added *)
CountWithout(n) == count

CountWith(n) == count + n

NAdd ==
    /\ npc = "add"
    /\ npc' = "done"
    /\ count' = CountWith(nevents)
    /\ NormalOnly /\ UNCHANGED nevents

\* The caller looks at the events and goes on.
Resume ==
    /\ mpc = "returned"
    /\ mpc' = "idle" /\ call' = NoCall /\ out' = {}
    /\ nevents' = 0 /\ count' = 0 /\ result' = 0
    /\ UNCHANGED <<open, linked, instance, told, aborted, npc>>

-----------------------------------------------------------------------------

Control == \E fd \in Fds : Add(fd) \/ Modify(fd) \/ Delete(fd) \/ ControlUnknown(fd)

Main == SingleWait \/ ManyWait \/ MScan \/ MLoad \/ MKill \/ MAdd \/ MJoin

Normal == NStart \/ NWait \/ NInterrupted \/ NAdd

Next == epoll_create1 \/ Close \/ Control \/ epoll_wait \/ Expire \/ RealWait \/ Main \/ Normal \/ Resume

Spec == Init /\ [][Next]_vars

\* The caller and the second thread run, and time passes.  Nothing is assumed of
\* the kernel's descriptors, but that a real wait ends when its time is up.
FairSpec ==
    /\ Spec
    /\ WF_vars(Main)
    /\ WF_vars(NStart \/ NAdd) /\ WF_vars(TimedOut /\ NWait)
    /\ WF_vars(Expire)

-----------------------------------------------------------------------------
(***************************************************************************)
(* Properties.                                                             *)
(***************************************************************************)

\* Types of the state.
TypeOK ==
    /\ open \in BOOLEAN /\ aborted \in BOOLEAN /\ linked \subseteq Fds /\ kernel \subseteq Fds
    /\ first \in Entry \cup {Junk} /\ (entries.live => IsVector(entries))
    /\ tssx_count \in Nat /\ normal_count \in Nat
    /\ miscounted \in BOOLEAN /\ written \subseteq Fds /\ overrun \subseteq Fds
    /\ mpc \in {"idle", "wait", "scan", "load", "kill", "add", "join", "returned"}
    /\ npc \in {"start", "wait", "add", "done"}
    /\ nevents \in Nat /\ count \in Nat /\ result \in Nat \cup {ERROR}

\* tssx_count counts: with one entry it is in the field, with more the vector
\* is set up and holds all but one, and with none or one a vector that is still
\* there is empty - through first being refilled from the back of the vector,
\* setups again, and closes that leave the vector alone.
EntriesCounted ==
    /\ tssx_count > 0 => first \in Entry
    /\ tssx_count > 1 => entries.live
    /\ entries.live => entries.size = IF tssx_count = 0 THEN 0 ELSE tssx_count - 1

\* What the kernel has is counted: an instance with ordinary descriptors is never
\* waited for on the TSSX path alone, nor abandoned by close, also after a
\* registration the kernel refused.  The one thing that breaks it is a removal
\* the kernel refuses, which is discounted all the same: then the count can be zero,
\* and the assertion on it fail, while the kernel has a descriptor to remove.
KernelCounted == miscounted \/ Cardinality(kernel) <= normal_count

\* The instance is an interest list: the field and the vector together hold each
\* registered descriptor once, with the events and the one-shot state it should
\* have, through every addition, change, removal and delivery.
AsFunction ==
    [fd \in {List[i].fd : i \in DOMAIN List} |->
        LET e == List[CHOOSE i \in DOMAIN List : List[i].fd = fd]
        IN  [events |-> e.events, enabled |-> e.enabled]]

L == INSTANCE InterestList WITH list <- AsFunction

ImplementsInterestList == L!Spec

NoDuplicates == \A i, j \in DOMAIN List : List[i].fd = List[j].fd => i = j

\* An instance is in order at every moment: the numbers it waits by are those of
\* the entries it has and of the kernel's, and no descriptor has two entries.
InstanceInv == TypeOK /\ EntriesCounted /\ KernelCounted /\ NoDuplicates

\* The one-shot registrations that a wait has put an event out for.
Used == written \cup overrun

OneshotUsed == \A i \in DOMAIN List : ~List[i].enabled => List[i].fd \in Used \cup out

OneshotInArray == mpc = "returned" /\ result <= call.size => Oneshots(out) \subseteq written

\* A one-shot registration is used up only by an event that a wait put out, never
\* by one past the maximum of a scan; and when the two threads together have found
\* no more than the caller's array holds, the event is in that array.  When they
\* have found more, those that do not fit are copied behind its end all the same.
OneshotDelivered == OneshotUsed /\ OneshotInArray

\* The assertion after the join: the threads' counts add up to the shared one;
\* the result of a wait over several descriptors is the number of events in the
\* array.
ResultCountsEvents ==
    mpc = "returned" /\ call.path \in {"many", "concurrent"} => result = Cardinality(out) + nevents

\* More events than the caller has room for only when both threads found some,
\* each up to the maximum.
OverrunNeedsBoth ==
    mpc = "returned" /\ result > call.size => nevents > 0 /\ out # {} /\ result <= 2 * call.size

\* Zero means that the time is up, but for an instance with one TSSX descriptor and
\* nothing else: the wait for a single entry returns SUCCESS, which is zero, with the
\* event in the array, where try-epoll.c takes zero for the timeout.
ZeroAmongSeveral ==
    mpc = "returned" /\ result = 0 /\ call.path # "single" => TimedOut

\* What a wait returns is what the two threads found.
ResultIsTrue == ResultCountsEvents /\ OverrunNeedsBoth /\ ZeroAmongSeveral

\* A wait with a timeout returns, whichever thread finds what in which order, and
\* although the signal can be lost.
WaitReturns == (mpc # "idle" /\ call.path # "real" /\ call.timeout # "forever") ~> mpc = "returned"

=============================================================================
