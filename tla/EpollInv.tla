------------------------------ MODULE EpollInv ------------------------------
(***************************************************************************)
(* The inductive invariant of Epoll, in named parts.                       *)
(***************************************************************************)
EXTENDS Epoll

\* The vector holds entries, not memory nobody wrote, and what is not live is
\* a vector that was never set up or was destroyed.
EntriesInv ==
    /\ entries.live \in BOOLEAN
    /\ entries.live => \A k \in 0 .. entries.size - 1 : entries.data[k] \in Entry

\* What is registered is where its session says: with one in the instance,
\* without one with the kernel.
PlacesInv ==
    /\ \A i \in DOMAIN List : List[i].fd \in linked
    /\ kernel \cap linked = {}

\* A one-shot entry that is disabled was reported, to the caller or into the
\* array of the scan that goes on; nothing else is disabled.
OneshotInv ==
    /\ OneshotDelivered
    /\ \A i \in DOMAIN List : ~List[i].enabled => _is_oneshot(List[i])
    /\ out \subseteq Fds
    /\ mpc \in {"idle", "wait", "scan"} => out = {}
    /\ mpc = "returned" =>
          \A i \in DOMAIN List : ~List[i].enabled => List[i].fd \in Used

\* Where a wait is on each of its paths, and what they need: a scan has an entry
\* to look at, the second thread only exists on the concurrent path and has ended
\* when the wait returns.
PathInv ==
    /\ call \in [path : {"none", "real", "single", "many", "concurrent"},
                size : Nat, timeout : {"forever", "running", "elapsed"}]
    /\ mpc = "idle" <=> call.path = "none"
    /\ call.path \in {"single", "many", "concurrent"} => tssx_count > 0
    /\ mpc = "wait" => call.path \in {"real", "single", "many"}
    /\ mpc \in {"scan", "load", "kill", "add", "join"} => call.path = "concurrent"
    /\ call.path # "concurrent" => npc = "done" /\ nevents = 0 /\ count = 0
    /\ mpc = "returned" => npc = "done"
    /\ call.path = "real" => out = {}

\* The shared count holds what each thread has added so far, each no more than
\* the caller has room for; the caller leaves its loop for a reason.
CountInv ==
    /\ npc \in {"start", "wait"} => nevents = 0
    /\ nevents <= call.size /\ Cardinality(out) <= call.size
    /\ call.path = "concurrent" =>
          count = (IF npc = "done" THEN nevents ELSE 0)
                    + (IF mpc \in {"join", "returned"} THEN Cardinality(out) ELSE 0)
    /\ mpc = "kill" => out # {}
    /\ mpc = "add" => count > 0 \/ out # {} \/ TimedOut
    /\ mpc = "join" => count > 0 \/ TimedOut
    /\ mpc = "returned" => result <= call.size \/ call.path = "concurrent"
    /\ mpc = "returned" /\ call.path = "concurrent" => result = count

IInv == /\ InstanceInv /\ EntriesInv /\ PlacesInv
        /\ OneshotInv
        /\ PathInv /\ CountInv /\ ResultIsTrue

=============================================================================
