----------------------------- MODULE PollAnswer -----------------------------
(***************************************************************************)
(* What poll() promises over descriptors of two kinds, as if one thread    *)
(* looked at each kind once: the revents it sets are of descriptors that   *)
(* are ready, it sets them before it returns and not after, and it returns *)
(* how many there are, none only when the time is up.  When the system     *)
(* call fails it promises less: -1, or one less than what was found.       *)
(***************************************************************************)
EXTENDS Integers

CONSTANTS
  TssxFds, NormalFds,  \* numbers of descriptors
  Timeouts,            \* "forever", "zero", "finite"
  MayFail              \* the system call may fail

VARIABLES
  tReady, nReady,      \* descriptors of each kind that are ready
  timeout, expired,    \* of the call: its argument, and that it has elapsed
  calling,             \* the application is in a call
  tRevents, nRevents,  \* descriptors of each kind with revents set
  result               \* what the last call returned

vars == <<tReady, nReady, timeout, expired, calling, tRevents, nRevents, result>>

Init ==
  /\ tReady = 0 /\ nReady = 0
  /\ timeout = "zero" /\ expired = FALSE /\ calling = FALSE
  /\ tRevents = 0 /\ nRevents = 0 /\ result = 0

(* The world; what is ready during a call stays so until it is over. *)
Arrive ==
  /\ \/ tReady < TssxFds /\ tReady' = tReady + 1 /\ UNCHANGED nReady
     \/ nReady < NormalFds /\ nReady' = nReady + 1 /\ UNCHANGED tReady
  /\ UNCHANGED <<timeout, expired, calling, tRevents, nRevents, result>>

Consume ==
  /\ ~calling
  /\ tReady' = 0 /\ nReady' = 0
  /\ UNCHANGED <<timeout, expired, calling, tRevents, nRevents, result>>

Expire ==
  /\ calling /\ timeout = "finite"
  /\ expired' = TRUE
  /\ UNCHANGED <<tReady, nReady, timeout, calling, tRevents, nRevents, result>>

(* The call: it begins, finds what is ready, once of each kind, returns. *)
Begin ==
  /\ ~calling /\ calling' = TRUE
  /\ timeout' \in Timeouts /\ expired' = FALSE
  /\ tRevents' = 0 /\ nRevents' = 0
  /\ UNCHANGED <<tReady, nReady, result>>

FindTssx ==
  /\ calling /\ tRevents = 0
  /\ tRevents' = tReady
  /\ UNCHANGED <<tReady, nReady, timeout, expired, calling, nRevents, result>>

FindOthers ==
  /\ calling /\ nRevents = 0
  /\ nRevents' = nReady
  /\ UNCHANGED <<tReady, nReady, timeout, expired, calling, tRevents, result>>

(* A call that fails has found none of the others; it returns -1, or one   *)
(* less than what it has found.                                            *)
Return ==
  /\ calling /\ calling' = FALSE
  /\ \/ /\ result' = tRevents + nRevents
        /\ result' = 0 => timeout = "zero" \/ expired
     \/ /\ MayFail /\ nRevents = 0
        /\ result' \in {-1, tRevents - 1}
  /\ UNCHANGED <<tReady, nReady, timeout, expired, tRevents, nRevents>>

Next == Arrive \/ Consume \/ Expire \/ Begin \/ FindTssx \/ FindOthers \/ Return

Spec == Init /\ [][Next]_vars
=============================================================================
