-------------------------------- MODULE Poll --------------------------------
(***************************************************************************)
(* poll() on a mix of TSSX and ordinary descriptors: _concurrent_poll of   *)
(* poll-overrides.c.  The calling ("main") thread scans the TSSX buffers   *)
(* in a loop while a second ("normal") thread sits in the real poll with   *)
(* the other descriptors.  They share event_count, start with a handshake  *)
(* over a mutex and a condition variable, and the main thread interrupts   *)
(* the normal one with a signal when it finds something.                   *)
(*                                                                         *)
(* The descriptors are alike, so the model counts them.  A scan of the     *)
(* TSSX descriptors is one action: whichever of them become ready during   *)
(* the loop are as good as ready before or after it.                       *)
(***************************************************************************)
EXTENDS Integers

CONSTANTS
  TssxFds,    \* number of TSSX descriptors
  NormalFds,  \* number of other descriptors
  Timeouts,   \* "forever" (-1), "zero" (0), "finite"
  Faults      \* what may go wrong, see FaultsAssumption

ASSUME FdsAssumption == TssxFds \in Nat \ {0} /\ NormalFds \in Nat \ {0}
ASSUME TimeoutsAssumption == Timeouts \subseteq {"forever", "zero", "finite"}
ASSUME FaultsAssumption ==
  Faults \subseteq {"foreignSignal",  \* a handler of the application's runs in
                                      \* the normal thread: EINTR
                    "pollError"}      \* the real poll fails, not with EINTR

ERROR == -1

VARIABLES
  tReady,     \* TSSX descriptors that are ready
  nReady,     \* other descriptors that are ready
  timeout,    \* the argument of the call
  expired,    \* a finite timeout has elapsed
  mpc,        \* where the main thread is
  mlocal,     \* its local_event_count
  woken,      \* it was in pthread_cond_wait when the condition was signalled
  npc,        \* where the normal thread is
  nlocal,     \* its local_event_count
  nerrno,     \* "EINTR" or "other" when nlocal is ERROR
  ready,      \* _normal_thread_ready
  lock,       \* holder of _poll_lock
  count,      \* event_count
  tRevents,   \* TSSX descriptors with revents set
  nRevents,   \* other descriptors with revents set
  result      \* what the last call returned

env    == <<tReady, nReady, expired>>
main   == <<mpc, mlocal, woken, tRevents, timeout, result>>
normal == <<npc, nlocal, nerrno, nRevents>>
vars   == <<env, main, normal, ready, lock, count>>

Init ==
  /\ tReady = 0 /\ nReady = 0 /\ timeout = "zero" /\ expired = FALSE
  /\ mpc = "idle" /\ mlocal = 0 /\ woken = FALSE
  /\ npc = "done" /\ nlocal = 0 /\ nerrno = "none"
  /\ ready = FALSE /\ lock = "free" /\ count = 0
  /\ tRevents = 0 /\ nRevents = 0 /\ result = 0

-----------------------------------------------------------------------------
(* The world: descriptors become ready, time passes; between calls the     *)
(* application deals with what is ready.                                   *)

TssxArrives == /\ tReady < TssxFds
               /\ tReady' = tReady + 1
               /\ UNCHANGED <<nReady, expired, main, normal, ready, lock, count>>

NormalArrives == /\ nReady < NormalFds
                 /\ nReady' = nReady + 1
                 /\ UNCHANGED <<tReady, expired, main, normal, ready, lock, count>>

Expire == /\ mpc # "idle" /\ timeout = "finite" /\ ~expired
          /\ expired' = TRUE
          /\ UNCHANGED <<tReady, nReady, main, normal, ready, lock, count>>

Consume == /\ mpc = "idle" /\ tReady + nReady > 0
           /\ tReady' = 0 /\ nReady' = 0
           /\ UNCHANGED <<expired, main, normal, ready, lock, count>>

TimedOut == timeout = "zero" \/ expired

-----------------------------------------------------------------------------
(* The main thread *)

MGoto(next) == mpc' = next

(* mutants: the flag, or the count, of the previous call is kept *)
FreshKeepsReady == count' = 0 /\ UNCHANGED ready
FreshKeepsCount == ready' = FALSE /\ UNCHANGED count

Fresh == count' = 0 /\ ready' = FALSE

(* The partition clears every revents; the handler for POLL_SIGNAL is      *)
(* installed; the normal thread is created.                                *)
Call ==
  \E t \in Timeouts :
     /\ mpc = "idle"
     /\ timeout' = t /\ expired' = FALSE
     /\ tRevents' = 0 /\ nRevents' = 0
     /\ mlocal' = 0 /\ woken' = FALSE
     /\ Fresh
     /\ npc' = "lock" /\ nlocal' = 0 /\ nerrno' = "none"
     /\ MGoto("lock")
     /\ UNCHANGED <<tReady, nReady, lock, result>>

(* _wait_for_normal_thread *)
MLock ==
  /\ mpc = "lock" \/ (mpc = "sleep" /\ woken)
  /\ lock = "free"
  /\ lock' = "main"
  /\ woken' = FALSE
  /\ MGoto("test")
  /\ UNCHANGED <<env, mlocal, tRevents, timeout, result, normal, ready, count>>

(* pthread_cond_wait may return without a signal *)
MSpuriousWake ==
  /\ mpc = "sleep" /\ ~woken
  /\ woken' = TRUE
  /\ UNCHANGED <<env, mpc, mlocal, tRevents, timeout, result, normal, ready,
                 lock, count>>

MTest ==
  /\ mpc = "test"
  /\ lock' = "free"
  /\ MGoto(IF ready THEN "scan" ELSE "sleep")
  /\ UNCHANGED <<env, mlocal, woken, tRevents, timeout, result, normal, ready,
                 count>>

(* _concurrent_tssx_poll: one loop over the TSSX descriptors *)
MScan ==
  /\ mpc = "scan"
  /\ mlocal' = tReady
  /\ tRevents' = tReady
  /\ MGoto("load")
  /\ UNCHANGED <<env, woken, timeout, result, normal, ready, lock, count>>

(* ... and what follows from the shared count *)
AfterLoop(shared) == IF shared = ERROR THEN "join"
                     ELSE IF shared > 0 THEN "add"
                     ELSE IF mlocal > 0 THEN "kill"
                     ELSE IF TimedOut THEN "add" ELSE "scan"

MLoad ==
  /\ mpc = "load"
  /\ MGoto(AfterLoop(count))
  /\ UNCHANGED <<env, mlocal, woken, tRevents, timeout, result, normal, ready,
                 lock, count>>

(* _kill_normal_thread: the handler does nothing, so the signal matters    *)
(* only to a thread that is inside the system call.                        *)
MKill ==
  /\ mpc = "kill"
  /\ IF npc = "polling"
     THEN npc' = "returned" /\ nlocal' = ERROR /\ nerrno' = "EINTR"
     ELSE UNCHANGED <<npc, nlocal, nerrno>>
  /\ MGoto("add")
  /\ UNCHANGED <<env, mlocal, woken, tRevents, timeout, result, nRevents, ready,
                 lock, count>>

(* mutant: the count of the normal thread is overwritten *)
MAddStores ==
  /\ mpc = "add"
  /\ count' = mlocal
  /\ MGoto("join")
  /\ UNCHANGED <<env, mlocal, woken, tRevents, timeout, result, normal, ready,
                 lock>>

MAdd ==
  /\ mpc = "add"
  /\ count' = count + mlocal
  /\ MGoto("join")
  /\ UNCHANGED <<env, mlocal, woken, tRevents, timeout, result, normal, ready,
                 lock>>

(* mutant: the normal thread is detached, not joined *)
MDetach ==
  /\ mpc = "join"
  /\ result' = count
  /\ MGoto("idle")
  /\ UNCHANGED <<env, mlocal, woken, tRevents, timeout, normal, ready, lock,
                 count>>

(* pthread_join, then _join_poll_partition copies the other revents *)
MJoin ==
  /\ mpc = "join"
  /\ npc = "done"
  /\ result' = count
  /\ MGoto("idle")
  /\ UNCHANGED <<env, mlocal, woken, tRevents, timeout, normal, ready, lock,
                 count>>

-----------------------------------------------------------------------------
(* The normal thread *)

NGoto(next) == npc' = next /\ UNCHANGED <<env, main>>

(* _signal_tssx_thread *)
NLock ==
  /\ npc = "lock" /\ lock = "free"
  /\ lock' = "normal"
  /\ NGoto("ready")
  /\ UNCHANGED <<nlocal, nerrno, nRevents, ready, count>>

(* mutant: the flag is set and nobody is woken *)
NReadySilent ==
  /\ npc = "ready"
  /\ ready' = TRUE
  /\ NGoto("unlock")
  /\ UNCHANGED <<nlocal, nerrno, nRevents, lock, count>>

NReady ==
  /\ npc = "ready"
  /\ ready' = TRUE
  /\ woken' = (mpc = "sleep")
  /\ npc' = "unlock"
  /\ UNCHANGED <<env, mpc, mlocal, tRevents, timeout, result, nlocal, nerrno,
                 nRevents, lock, count>>

NUnlock ==
  /\ npc = "unlock"
  /\ lock' = "free"
  /\ NGoto("check")
  /\ UNCHANGED <<nlocal, nerrno, nRevents, ready, count>>

(* The real poll is skipped if the main thread has found events already *)
NCheck ==
  /\ npc = "check"
  /\ NGoto(IF count = 0 THEN "enter" ELSE "returned")
  /\ UNCHANGED <<nlocal, nerrno, nRevents, ready, lock, count>>

NEnter ==
  /\ npc = "enter"
  /\ NGoto("polling")
  /\ UNCHANGED <<nlocal, nerrno, nRevents, ready, lock, count>>

(* The real poll finds descriptors ready, or times out *)
NPollEnds ==
  /\ npc = "polling"
  /\ nReady > 0 \/ TimedOut
  /\ nlocal' = nReady /\ nRevents' = nReady
  /\ NGoto("returned")
  /\ UNCHANGED <<nerrno, ready, lock, count>>

NPollFails ==
  /\ npc = "polling"
  /\ nlocal' = ERROR
  /\ \/ "foreignSignal" \in Faults /\ nerrno' = "EINTR"
     \/ "pollError" \in Faults /\ nerrno' = "other"
  /\ NGoto("returned")
  /\ UNCHANGED <<nRevents, ready, lock, count>>

NSeesError ==
  /\ npc = "returned"
  /\ NGoto(IF count = ERROR THEN "done" ELSE "report")
  /\ UNCHANGED <<nlocal, nerrno, nRevents, ready, lock, count>>

NReport ==
  /\ npc = "report"
  /\ count' = IF nlocal # ERROR THEN count + nlocal
              ELSE IF nerrno = "EINTR" THEN count ELSE ERROR
  /\ NGoto("done")
  /\ UNCHANGED <<nlocal, nerrno, nRevents, ready, lock>>

-----------------------------------------------------------------------------
MainStep == MLock \/ MTest \/ MScan \/ MLoad \/ MKill \/ MAdd \/ MJoin
NormalStep == NLock \/ NReady \/ NUnlock \/ NCheck \/ NEnter \/ NPollEnds
                \/ NSeesError \/ NReport

Next == \/ TssxArrives \/ NormalArrives \/ Expire \/ Consume
        \/ Call \/ MainStep
        \/ MSpuriousWake
        \/ NormalStep \/ NPollFails

Spec == Init /\ [][Next]_vars

(* Both threads are scheduled, the mutex does not starve the thread that   *)
(* waits for it, the clock runs; descriptors need not become ready and the *)
(* application need not call.                                              *)
FairSpec == /\ Spec
            /\ WF_vars(MainStep) /\ WF_vars(NormalStep) /\ SF_vars(NLock)
            /\ WF_vars(Expire)

-----------------------------------------------------------------------------
(* Every variable keeps its type. *)
TypeOK ==
  /\ tReady \in 0..TssxFds /\ nReady \in 0..NormalFds
  /\ timeout \in {"forever", "zero", "finite"} /\ expired \in BOOLEAN
  /\ mpc \in {"idle", "lock", "test", "sleep", "scan", "load", "kill", "add",
              "join"}
  /\ npc \in {"lock", "ready", "unlock", "check", "enter", "polling", "returned",
              "report", "done"}
  /\ mlocal \in 0..TssxFds /\ nlocal \in ERROR..NormalFds
  /\ woken \in BOOLEAN /\ nerrno \in {"none", "EINTR", "other"}
  /\ ready \in BOOLEAN /\ lock \in {"free", "main", "normal"}
  /\ count \in ERROR..(TssxFds + NormalFds)
  /\ tRevents \in 0..TssxFds /\ nRevents \in 0..NormalFds
  /\ result \in ERROR..(TssxFds + NormalFds)

Returned == mpc = "idle"

(* As long as the real poll does not fail, poll returns the number of      *)
(* descriptors whose revents it has set: each thread's finds are counted   *)
(* once, whichever of them finds first, whether or not the signal arrives, *)
(* and whoever else interrupts the real poll.                              *)
ResultCountsEvents ==
  Returned /\ nerrno # "other" => result = tRevents + nRevents

(* Of the comment at the end of _concurrent_poll: "The timeout expired,    *)
(* then it is 0", for a real poll that does not fail.                      *)
ZeroMeansTimeout ==
  Returned /\ nerrno # "other" /\ result = 0 => timeout = "zero" \/ expired

(* The same comment: "An error occurred in either polling, then it is -1". *)
(* The main thread may have looked at the count before the error and add   *)
(* its finds after it: the result is then one less than these finds.       *)
ErrorIsMinusOne ==
  Returned /\ nerrno = "other" => result = ERROR

(* Together the two threads are a poll: whatever they do in between, the   *)
(* finds are of descriptors that are ready, each kind once, none after the *)
(* call has returned, and the result is their number.                      *)
Answer == INSTANCE PollAnswer
  WITH MayFail <- "pollError" \in Faults, calling <- mpc # "idle"
ImplementsPollAnswer == Answer!Spec

(* The comment before _wait_for_normal_thread: the main thread does not    *)
(* start to look for events before the normal thread of this very call has *)
(* announced itself.                                                       *)
ScansAfterHandshake ==
  mpc \in {"scan", "load", "kill", "add", "join"} => npc \notin {"lock", "ready"}

(* A call with no infinite timeout returns, signals and errors or not. *)
PollReturns == mpc # "idle" /\ timeout # "forever" ~> mpc = "idle"

(* The same comment: thanks to the handshake, and to the second look at    *)
(* the count, events on a TSSX connection end the call even when the other *)
(* descriptors stay silent and there is no timeout.                        *)
TssxEndsPoll == mpc # "idle" /\ tReady > 0 ~> mpc = "idle"

=============================================================================
