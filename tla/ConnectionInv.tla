---------------------------- MODULE ConnectionInv ----------------------------
(* The inductive invariant of Connection, in named parts.                   *)
EXTENDS Connection

(* The client has not yet answered the server. *)
ConnectPCs == {"start", "attach", "increment", "sendSync"}

(* Until the client is through, no process has got further than its own    *)
(* half of the handshake: nobody has forked, nobody disconnects, and the   *)
(* count is at most one for each side.  (server-overrides.c and            *)
(* client-overrides.c, _setup_tssx)                                        *)
HandshakeInv ==
  /\ pc[Client] \in ConnectPCs =>
       /\ pc[Server] \in {"start", "sendId", "awaitSync", "gone"}
       /\ ~removed
       /\ openCount <= IF pc[Client] = "sendSync" THEN 2 ELSE 1
  /\ pc[Client] \in ConnectPCs \cup {"failed", "gone"} \/ pc[Server] # "start"
  /\ pc[Client] \in ConnectPCs \/ pc[Server] = "start" =>
       \A c \in Children : pc[c] = "absent"
  /\ pc[Server] = "start" =>
       /\ ~created /\ ~removed /\ openCount = 0 /\ ~idSent
  /\ synced => pc[Client] \notin ConnectPCs
  /\ idRead => idSent
  /\ pc[Client] \in {"attach", "increment", "sendSync"} => idRead
  /\ idSent => pc[Server] # "sendId"
  /\ \A p \in Procs :
       /\ pc[p] \in {"sendId", "awaitSync"} => p = Server
       /\ pc[p] \in {"attach", "increment", "sendSync"} => p = Client
       /\ pc[p] = "start" => p \in {Client, Server}

(* What the session of a process is at each point of its life, and that    *)
(* exit handlers only run where exiting says so (session.c, connection.c)  *)
SessionInv ==
  \A p \in Procs :
    /\ session[p] = "valid" =>
         pc[p] \in {"open", "fork", "sub", "load", "detach", "detachLast",
                    "reset", "resetLast", "gone"}
    /\ session[p] = "stale" => /\ pc[p] \in {"sub", "destroy", "free", "gone"}
                               /\ p \notin attached
    /\ pc[p] \in {"open", "fork"} => session[p] = "valid"
    /\ exiting[p] # "no" => pc[p] \in SubtractedPCs \cup {"sub", "gone"}

(* Who has the segment mapped: the two ends inside their handshake and     *)
(* every process that is about to touch it; nobody after its shmdt         *)
MappedInv ==
  /\ pc[Server] \in {"sendId", "awaitSync"} => Server \in attached
  /\ pc[Client] \in {"increment", "sendSync"} => Client \in attached
  /\ \A p \in Procs :
       pc[p] \in {"reset", "resetLast", "destroy", "free"} => p \notin attached
  /\ TouchesMapped

NoneTwice == \A p \in Procs : exiting[p] # "twice"

(* The count errs high, and whoever has seen it at zero was right: nobody  *)
(* has the connection any more (connection.c, disconnect)                  *)
CountInv ==
  NoneTwice =>
    /\ openCount >= References
    /\ removed \/ (\E p \in Procs : pc[p] \in {"detachLast", "resetLast", "destroy"})
         => Holders = {}

(* Without faults neither side is gone before the client has sent its byte,*)
(* the count is exact, and somebody is on the way to remove the segment    *)
(* when it is zero.                                                        *)
FaultlessInv ==
  world.faults = {} =>
    /\ NoneTwice
    /\ pc[Client] \in ConnectPCs <=> ~synced
    /\ ~synced => pc[Server] \in {"start", "sendId", "awaitSync"}
    /\ synced => pc[Server] \notin {"start", "sendId"}
    /\ openCount = References
    /\ created /\ ~removed /\ openCount = 0 =>
         \E p \in Procs : pc[p] \in {"load", "detachLast", "resetLast", "destroy"}

IInv == /\ world \in Worlds
        /\ TypeOK
        /\ HandshakeInv
        /\ SessionInv
        /\ MappedInv
        /\ CountInv
        /\ FaultlessInv
=============================================================================
