------------------------------ MODULE PollInv -------------------------------
(***************************************************************************)
(* Why the two threads of a poll count right: the inductive invariant of   *)
(* Poll.  The shared count is what each thread has added to it; the flag   *)
(* of the handshake belongs to this call, and the main thread sleeps only  *)
(* while its wake-up is still to come.                                     *)
(***************************************************************************)
EXTENDS Poll

(* One holder of the mutex, and it is where the code has locked it. *)
LockInv ==
  /\ lock = "main" <=> mpc = "test"
  /\ lock = "normal" <=> npc \in {"ready", "unlock"}

(* The flag is set in the call it is read in, by the thread it speaks of;  *)
(* a main thread asleep and not woken has its signal before it.            *)
HandshakeInv ==
  /\ mpc = "idle" => npc = "done"
  /\ npc \in {"lock", "ready"} => ~ready
  /\ npc \notin {"lock", "ready"} /\ mpc # "idle" => ready
  /\ mpc = "sleep" /\ ~woken => npc \in {"lock", "ready"}

(* What the normal thread has in its hands agrees with the revents, and an *)
(* errno is there exactly with an error, one that may happen.              *)
FoundInv ==
  /\ nlocal = ERROR <=> nerrno # "none"
  /\ nerrno = "other" => "pollError" \in Faults
  /\ nRevents = IF nlocal = ERROR THEN 0 ELSE nlocal
  /\ npc \in {"lock", "ready", "unlock", "check", "enter", "polling"} => nlocal = 0
  /\ tRevents = mlocal
  /\ mpc \in {"lock", "test", "sleep", "scan"} => mlocal = 0

FoundByNormal == IF npc = "done" /\ nlocal # ERROR THEN nlocal ELSE 0
FoundByMain   == IF mpc = "join" THEN mlocal ELSE 0

(* The count is the sum of what has been added; an error of the real poll  *)
(* replaces it, and at most the main thread's find is added to the error.  *)
CountInv ==
  mpc # "idle" =>
     IF npc = "done" /\ nerrno = "other"
     THEN IF mpc = "join" THEN count \in {ERROR, ERROR + mlocal} ELSE count = ERROR
     ELSE count = FoundByMain + FoundByNormal

(* The main thread leaves its loop for a reason: it found something, or    *)
(* the other thread did, or failed, or the time is up.                     *)
LeftInv ==
  /\ mpc = "kill" => mlocal > 0
  /\ mpc \in {"add", "join"} /\ mlocal = 0 /\ nerrno # "other" =>
        TimedOut \/ (npc = "done" /\ nlocal > 0)

(* The inductive invariant, and the three properties it carries through    *)
(* the end of a call to the next.                                          *)
IInv == /\ TypeOK /\ LockInv /\ HandshakeInv /\ FoundInv /\ CountInv /\ LeftInv
        /\ ResultCountsEvents /\ ZeroMeansTimeout /\ ScansAfterHandshake
=============================================================================
