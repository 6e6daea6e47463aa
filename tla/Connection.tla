----------------------------- MODULE Connection -----------------------------
(***************************************************************************)
(* The life of one TSSX connection: the handshake of accept and connect    *)
(* (server-overrides.c, client-overrides.c), the shared-memory segment and *)
(* its reference count open_count (connection.c, shared-memory.c), fork    *)
(* (common-overrides.c), close, exit and signals (bridge.c, session.c).    *)
(*                                                                         *)
(* The processes are the client, the server and the children either of     *)
(* them forks.  There is no lock: every access to the segment and every    *)
(* system call is an action.  The domain socket is still open underneath   *)
(* and carries the segment's id one way and one byte the other way.        *)
(***************************************************************************)
EXTENDS Integers, FiniteSets

CONSTANTS
  Client, Server,  \* the processes that called connect and accept
  Children,        \* the processes they may fork
  CountModulus,    \* open_count wraps at this value (2^64 in the build)
  Worlds           \* what a behaviour may contain, see WorldsAssumption

Procs == {Client, Server} \cup Children

ASSUME ProcsAssumption ==
  /\ Client # Server
  /\ Client \notin Children /\ Server \notin Children
  /\ IsFiniteSet(Children)
ASSUME CountAssumption ==
  /\ CountModulus \in Nat
  /\ CountModulus > 2 * Cardinality(Procs)

FaultKinds == {"crash",      \* a process is killed, or calls _exit
               "signal",     \* SIGINT or SIGTERM, with no handler of the user's
               "forkFails",  \* the real fork returns -1
               "socket"}     \* the client's read of the id fails

(* The faults of a behaviour and the processes it may fork: the whole set  *)
(* of children without faults, fewer with them, is a choice of the bounds. *)
ASSUME WorldsAssumption ==
  Worlds \subseteq [faults : SUBSET FaultKinds, children : SUBSET Children]

VARIABLES
  world,       \* the member of Worlds this behaviour is in
  openCount,   \* *open_count
  created,     \* shmget has made the segment
  removed,     \* IPC_RMID has been done on it
  attached,    \* the processes that have it mapped
  side,        \* which library a process runs
  pc,          \* where a process is
  session,     \* the session of the descriptor: none, a valid connection or
               \* a "stale" one that disconnect has emptied, or freed
  exiting,     \* exit() is running the atexit handlers: "no", "yes", or "twice"
               \* if it was called from a signal handler inside disconnect
  idSent, idRead, synced   \* what has gone over the domain socket

socket == <<idSent, idRead, synced>>
shm    == <<created, removed, attached>>
state  == <<openCount, shm, side, pc, session, exiting, socket>>
vars   == <<world, state>>

(* A segment marked by IPC_RMID lives until its last user detaches. *)
Destroyed == removed /\ attached = {}

(* Between operations or before one; "closed" after close, "failed" when   *)
(* accept or connect has returned an error                                 *)
Resting == {"open", "closed", "failed"}

Ended == {"absent", "gone", "closed", "failed"}

Init ==
  /\ world \in Worlds
  /\ openCount = 0
  /\ created = FALSE /\ removed = FALSE /\ attached = {}
  /\ side = [p \in Procs |-> IF p = Client THEN "client"
                             ELSE IF p = Server THEN "server" ELSE "none"]
  /\ pc = [p \in Procs |-> IF p \in Children THEN "absent" ELSE "start"]
  /\ session = [p \in Procs |-> "none"]
  /\ exiting = [p \in Procs |-> "no"]
  /\ idSent = FALSE /\ idRead = FALSE /\ synced = FALSE

Goto(p, next) == pc' = [pc EXCEPT ![p] = next]
SetSession(p, s) == session' = [session EXCEPT ![p] = s]

(* The kernel unmaps the segment when a process ends, however it ends. *)
Die(p) == Goto(p, "gone") /\ attached' = attached \ {p}

-----------------------------------------------------------------------------
(* accept: _setup_tssx of the server *)

(* create_connection: nobody else knows the segment yet *)
SCreate ==
  /\ pc[Server] = "start"
  /\ created' = TRUE
  /\ attached' = attached \cup {Server}
  /\ openCount' = 1
  /\ Goto(Server, "sendId")
  /\ UNCHANGED <<removed, side, session, exiting, socket>>

(* _send_segment_id_to_client; when the client is gone the write fails and *)
(* the connection, which is in no session yet, is disconnected.            *)
SSendId ==
  /\ pc[Server] = "sendId"
  /\ IF pc[Client] = "gone"
     THEN Goto(Server, "sub") /\ UNCHANGED idSent
     ELSE Goto(Server, "awaitSync") /\ idSent' = TRUE
  /\ UNCHANGED <<openCount, shm, side, session, exiting, idRead, synced>>

SInsert == Goto(Server, "open") /\ SetSession(Server, "valid")

(* mutant: no end-of-file: a client that is gone is waited for *)
SSyncForever ==
  /\ pc[Server] = "awaitSync"
  /\ synced
  /\ SInsert
  /\ UNCHANGED <<openCount, shm, side, exiting, socket>>

(* _synchronize_with_client.  When the client is gone without the byte the *)
(* read returns 0, which counts as success, or fails if the client never   *)
(* read the id (ECONNRESET); accept then leaves the segment as it is.      *)
SSync ==
  /\ pc[Server] = "awaitSync"
  /\ \/ synced /\ SInsert
     \/ ~synced /\ pc[Client] = "gone" /\ idRead /\ SInsert
     \/ /\ ~synced /\ pc[Client] = "gone" /\ ~idRead
        /\ Goto(Server, "failed")
        /\ UNCHANGED session
  /\ UNCHANGED <<openCount, shm, side, exiting, socket>>

-----------------------------------------------------------------------------
(* connect: _setup_tssx of the client *)

(* _read_segment_id_from_server *)
CReadId ==
  /\ pc[Client] = "start"
  /\ idSent
  /\ idRead' = TRUE
  /\ Goto(Client, "attach")
  /\ UNCHANGED <<openCount, shm, side, session, exiting, idSent, synced>>

CReadIdFails ==
  /\ "socket" \in world.faults
  /\ pc[Client] = "start"
  /\ Goto(Client, "failed")
  /\ UNCHANGED <<openCount, shm, side, session, exiting, socket>>

(* End of file: the id is used uninitialised, shmat fails and the process  *)
(* exits.                                                                  *)
CReadIdEnd ==
  /\ pc[Client] = "start"
  /\ pc[Server] = "gone" /\ ~idSent
  /\ Die(Client)
  /\ UNCHANGED <<openCount, created, removed, side, session, exiting, socket>>

(* setup_connection: shmat, then the atomic increment *)
CAttach ==
  /\ pc[Client] = "attach"
  /\ attached' = attached \cup {Client}
  /\ Goto(Client, "increment")
  /\ UNCHANGED <<openCount, created, removed, side, session, exiting, socket>>

(* mutant: the client does not count itself *)
CIncrementForgets ==
  /\ pc[Client] = "increment"
  /\ Goto(Client, "sendSync")
  /\ UNCHANGED <<openCount, shm, side, session, exiting, socket>>

CIncrement ==
  /\ pc[Client] = "increment"
  /\ openCount' = (openCount + 1) % CountModulus
  /\ Goto(Client, "sendSync")
  /\ UNCHANGED <<shm, side, session, exiting, socket>>

(* _synchronize_with_server; a failed write leaves the connection behind *)
CSendSync ==
  /\ pc[Client] = "sendSync"
  /\ IF pc[Server] = "gone"
     THEN Goto(Client, "failed") /\ UNCHANGED <<session, synced>>
     ELSE Goto(Client, "open") /\ SetSession(Client, "valid") /\ synced' = TRUE
  /\ UNCHANGED <<openCount, shm, side, exiting, idSent, idRead>>

-----------------------------------------------------------------------------
(* disconnect: an atomic subtraction, then a separate load *)

Sub(p) ==
  /\ pc[p] = "sub" /\ p \in attached
  /\ openCount' = (openCount + CountModulus - 1) % CountModulus
  /\ Goto(p, "load")
  /\ UNCHANGED <<shm, side, session, exiting, socket>>

(* mutant: the process that leaves one user behind destroys the segment *)
LoadOne(p) ==
  /\ pc[p] = "load"
  /\ Goto(p, IF openCount <= 1 THEN "detachLast" ELSE "detach")
  /\ UNCHANGED <<openCount, shm, side, session, exiting, socket>>

Load(p) ==
  /\ pc[p] = "load"
  /\ Goto(p, IF openCount = 0 THEN "detachLast" ELSE "detach")
  /\ UNCHANGED <<openCount, shm, side, session, exiting, socket>>

(* The open_count is no longer mapped, or the connection has been emptied: *)
(* the subtraction is a segmentation fault.                                *)
SubFaults(p) ==
  /\ pc[p] = "sub" /\ p \notin attached
  /\ Die(p)
  /\ UNCHANGED <<openCount, created, removed, side, session, exiting, socket>>

(* shmdt; the session still points to where the segment was *)
Detach(p) ==
  /\ pc[p] \in {"detach", "detachLast"}
  /\ attached' = attached \ {p}
  /\ Goto(p, IF pc[p] = "detach" THEN "reset" ELSE "resetLast")
  /\ UNCHANGED <<openCount, created, removed, side, session, exiting, socket>>

(* The pointers of the connection are set to NULL.  The connection of a    *)
(* failed accept is in no session.                                         *)
Reset(p) ==
  /\ pc[p] \in {"reset", "resetLast"}
  /\ SetSession(p, IF session[p] = "valid" THEN "stale" ELSE "none")
  /\ Goto(p, IF pc[p] = "reset" THEN "free" ELSE "destroy")
  /\ UNCHANGED <<openCount, shm, side, exiting, socket>>

(* mutant: the last process detaches and does not remove the segment *)
DestroyForgets(p) ==
  /\ pc[p] = "destroy" /\ ~Destroyed
  /\ Goto(p, "free")
  /\ UNCHANGED <<openCount, shm, side, session, exiting, socket>>

(* _destroy_connection, after it has detached: shmctl(IPC_RMID) *)
Destroy(p) ==
  /\ pc[p] = "destroy" /\ ~Destroyed
  /\ removed' = TRUE
  /\ Goto(p, "free")
  /\ UNCHANGED <<openCount, created, attached, side, session, exiting, socket>>

(* It fails when the segment is already gone: throw() exits, and the exit  *)
(* handler follows the NULL open_count of the stale session.               *)
DestroyThrows(p) ==
  /\ pc[p] = "destroy" /\ Destroyed
  /\ Die(p)
  /\ UNCHANGED <<openCount, created, removed, side, session, exiting, socket>>

(* Where disconnect returns to: the exit handler, accept, or close *)
AfterDisconnect(p) == IF exiting[p] # "no" THEN "gone"
                      ELSE IF session[p] = "none" THEN "failed" ELSE "closed"

(* mutant: session_invalidate frees the connection and keeps the pointer *)
FreeKeeps(p) ==
  /\ pc[p] = "free"
  /\ Goto(p, AfterDisconnect(p))
  /\ UNCHANGED <<openCount, shm, side, session, exiting, socket>>

(* session_invalidate frees the connection and clears the session. *)
Free(p) ==
  /\ pc[p] = "free"
  /\ SetSession(p, "none")
  /\ Goto(p, AfterDisconnect(p))
  /\ UNCHANGED <<openCount, shm, side, exiting, socket>>

-----------------------------------------------------------------------------
(* The application's calls *)

Close(p) ==
  /\ pc[p] = "open"
  /\ Goto(p, "sub")
  /\ UNCHANGED <<openCount, shm, side, session, exiting, socket>>

(* disconnect has subtracted and not returned *)
SubtractedPCs == {"load", "detach", "detachLast", "reset", "resetLast",
                  "destroy", "free"}

(* exit(), through _bridge_exit_handler: the session table is emptied, a   *)
(* session in the middle of its disconnect included.                       *)
RunExitHandlers(p) ==
  /\ exiting' = [exiting EXCEPT ![p] = IF pc[p] \in SubtractedPCs THEN "twice"
                                                               ELSE "yes"]
  /\ IF session[p] = "none" THEN Die(p)
                            ELSE Goto(p, "sub") /\ UNCHANGED attached
  /\ UNCHANGED <<openCount, created, removed, side, session, socket>>

Exit(p) == pc[p] \in Resting /\ RunExitHandlers(p)

(* Bounds: a process of Children is left for every fork under way, and     *)
(* forks that fail again and again do not go on until the count wraps.     *)
CanFork ==
  /\ Cardinality({p \in Procs : pc[p] = "fork"})
       < Cardinality({c \in world.children : pc[c] = "absent"})
  /\ openCount + 1 < CountModulus

(* mutant: fork counts nobody *)
ForkAddNobody(p) ==
  /\ pc[p] = "open" /\ CanFork
  /\ Goto(p, "fork")
  /\ UNCHANGED <<openCount, shm, side, session, exiting, socket>>

(* fork: bridge_add_user, before the real fork *)
ForkAdd(p) ==
  /\ pc[p] = "open" /\ CanFork
  /\ openCount' = (openCount + 1) % CountModulus
  /\ Goto(p, "fork")
  /\ UNCHANGED <<shm, side, session, exiting, socket>>

(* The child inherits the mapping and the session table. *)
Fork(p, c) ==
  /\ pc[p] = "fork" /\ pc[c] = "absent"
  /\ pc' = [pc EXCEPT ![p] = "open", ![c] = "open"]
  /\ side' = [side EXCEPT ![c] = side[p]]
  /\ SetSession(c, "valid")
  /\ attached' = attached \cup {c}
  /\ UNCHANGED <<openCount, created, removed, exiting, socket>>

(* The real fork fails: the users bridge_add_user added stay counted. *)
ForkFails(p) ==
  /\ "forkFails" \in world.faults
  /\ pc[p] = "fork"
  /\ Goto(p, "open")
  /\ UNCHANGED <<openCount, shm, side, session, exiting, socket>>

-----------------------------------------------------------------------------
(* Signals and crashes *)

(* _bridge_signal_handler with no user handler calls exit(), wherever the  *)
(* process is.                                                             *)
Signal(p) ==
  /\ "signal" \in world.faults
  /\ pc[p] \notin {"absent", "gone"} /\ exiting[p] = "no"
  /\ RunExitHandlers(p)

Crash(p) ==
  /\ "crash" \in world.faults
  /\ pc[p] \notin {"absent", "gone"}
  /\ Die(p)
  /\ UNCHANGED <<openCount, created, removed, side, session, exiting, socket>>

-----------------------------------------------------------------------------
Accept  == SCreate \/ SSendId \/ SSync
Connect == CReadId \/ CReadIdFails \/ CReadIdEnd \/ CAttach \/ CIncrement
             \/ CSendSync
Disconnect(p) == Sub(p) \/ SubFaults(p) \/ Load(p) \/ Detach(p) \/ Reset(p)
                   \/ Destroy(p) \/ DestroyThrows(p) \/ Free(p)
ForkReturns(p) == ForkFails(p) \/ \E c \in world.children : Fork(p, c)

Next == /\ \/ Accept \/ Connect
           \/ \E p \in Procs :
                \/ Disconnect(p)
                \/ Close(p) \/ Exit(p)
                \/ ForkAdd(p) \/ ForkReturns(p)
                \/ Signal(p) \/ Crash(p)
        /\ UNCHANGED world

Spec == Init /\ [][Next]_vars

(* A process inside a call goes on; every process exits in the end. *)
Fairness == /\ WF_state(Accept) /\ WF_state(Connect)
            /\ \A p \in Procs : /\ WF_state(Disconnect(p))
                                /\ WF_state(ForkReturns(p))
                                /\ WF_state(Exit(p))

FairSpec == Spec /\ Fairness

-----------------------------------------------------------------------------
PCs == {"start", "sendId", "awaitSync", "attach", "increment", "sendSync",
        "open", "fork", "sub", "load", "detach", "detachLast", "reset",
        "resetLast", "destroy", "free", "closed", "failed", "absent", "gone"}

(* Every variable keeps its type; without faults the count never wraps. *)
TypeOK ==
  /\ openCount \in 0..CountModulus-1
  /\ world.faults = {} => openCount <= 2 * Cardinality(Procs)
  /\ created \in BOOLEAN /\ removed \in BOOLEAN /\ attached \subseteq Procs
  /\ side \in [Procs -> {"client", "server", "none"}]
  /\ pc \in [Procs -> PCs]
  /\ session \in [Procs -> {"none", "valid", "stale"}]
  /\ exiting \in [Procs -> {"no", "yes", "twice"}]
  /\ idSent \in BOOLEAN /\ idRead \in BOOLEAN /\ synced \in BOOLEAN

(* The processes that own one count of open_count; one that is forking     *)
(* owns one more, for its child                                            *)
HoldingPCs == {"sendId", "awaitSync", "sendSync", "open", "fork", "sub"}
Holders == {p \in Procs : pc[p] \in HoldingPCs}
Forking == {p \in Procs : pc[p] = "fork"}
References == Cardinality(Holders) + Cardinality(Forking)

(* connection.h: open_count is the "reference count of open connections".  *)
(* Without faults it equals the number of processes that have the          *)
(* connection, through the handshake, forks and closes in any order.       *)
CountIsReferences == world.faults = {} => openCount = References

(* The segment is removed only when nobody has the connection or is about  *)
(* to attach to it.                                                        *)
RemovedOnlyUnused ==
  removed => /\ Holders = {}
             /\ pc[Client] \notin {"attach", "increment"}

(* connection_peer_died(p): open_count is 1 *)
SeesHangup(p) == pc[p] = "open" /\ openCount = 1

OtherSide(p) == {q \in Procs : side[q] \notin {side[p], "none"}}

(* A process is told its peer has died only when nobody on the other side  *)
(* has the connection or is still going to; in particular a server that    *)
(* reads right after accept never mistakes a client that has not yet       *)
(* incremented the count for a dead one (common-overrides.c, in            *)
(* connection_read).                                                       *)
NoFalseHangup ==
  \A p \in Procs : SeesHangup(p) =>
     \A q \in OtherSide(p) :
        pc[q] \notin HoldingPCs \cup {"start", "attach", "increment"}

(* Crashes, exits from signal handlers, failed forks and failed handshakes *)
(* only ever leave the count too high: no process is cut off from a        *)
(* segment it still uses and none is told of a hangup that has not         *)
(* happened.  The exception is a signal inside disconnect, whose exit      *)
(* handler disconnects the session a second time.                          *)
FaultsErrHigh ==
  (\A p \in Procs : exiting[p] # "twice") =>
     openCount >= References /\ RemovedOnlyUnused /\ NoFalseHangup

(* When every process is through with the connection the segment is gone,  *)
(* even when two of them destroyed it: System V segments outlive the       *)
(* processes that forget them.                                             *)
NoSegmentLeft ==
  world.faults = {} /\ created /\ (\A p \in Procs : pc[p] \in Ended) => removed

(* open_count is only touched where the segment is mapped: by the          *)
(* handshake, by a child that has inherited the mapping, by fork, close,   *)
(* exit and the exit handler of a signal wherever it comes (connection.c,  *)
(* session.c).  The exception is a signal inside disconnect, after the     *)
(* subtraction: the exit handler disconnects the same session again, and   *)
(* finds it usable before shmdt, and unmapped or emptied after it.         *)
TouchesMapped ==
  \A p \in Procs :
    /\ pc[p] \in {"increment", "open", "fork", "load", "detach", "detachLast"}
         => p \in attached
    /\ pc[p] = "sub" /\ p \notin attached => exiting[p] = "twice"

-----------------------------------------------------------------------------
(* accept and connect return, or their process is gone, even when the      *)
(* other process dies half-way: end of file takes the place of the answer. *)
HandshakeEnds ==
  /\ pc[Server] = "awaitSync" ~> pc[Server] # "awaitSync"
  /\ pc[Client] = "start" ~> pc[Client] # "start"
=============================================================================
