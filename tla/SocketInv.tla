----------------------------- MODULE SocketInv ------------------------------
(***************************************************************************)
(* Why poll's answers keep: the inductive invariant of Socket.  Only the   *)
(* side itself takes away what it was told of, since it is the only reader *)
(* of one buffer and the only writer of the other.                         *)
(***************************************************************************)
EXTENDS Socket

(* open_count is the number of sides that have not closed. *)
OpenInv ==
  openCount = (IF pc["client"] = "closed" THEN 0 ELSE 1)
                + (IF pc["server"] = "closed" THEN 0 ELSE 1)

(* A read or a write under way has been cut down to what there is, and the *)
(* application has acted on what it was told.                              *)
MoveInv ==
  \A s \in Sides :
    /\ pc[s] = "take" => arg[s].bytes \in 1..unread[s] /\ "in" \notin told[s]
    /\ pc[s] = "put" => /\ arg[s].bytes \in 1..(Capacity - unread[Peer(s)])
                        /\ "out" \notin told[s]

(* A call of read or write passes a byte count. *)
ArgInv ==
  \A s \in Sides :
    pc[s] \in {"readCheck", "read", "writeCheck", "write"} => arg[s].bytes \in Requests

(* The inductive invariant: the count, the byte counts of the calls under  *)
(* way, and the three properties that rest on them.                        *)
SocketIInv == SocketTypeOK /\ OpenInv /\ MoveInv /\ ArgInv /\ PollIsTrue /\ EofOnlyAfterClose
=============================================================================
