------------------------------ MODULE SetupInv ------------------------------
(***************************************************************************)
(* Why the two sides of Setup agree: its inductive invariant.  With the    *)
(* same USE_TSSX the handshake's bytes are on the socket exactly between   *)
(* the step that sends them and the one that reads them, before any byte   *)
(* of the application's; and the three copies of a side's mode are those   *)
(* of the one process that is changing them.                               *)
(***************************************************************************)
EXTENDS Setup

(* Whether the connection moves to shared memory, when the sides agree.    *)
Moves == check_tssx_usage("server")

(* Where connect and accept can be at the same time, and which of them has *)
(* a session by then.  (client-overrides.c, connect; server-overrides.c,   *)
(* accept)                                                                 *)
PlaceInv ==
  /\ pc["client"] = "start" => pc["server"] = "start"
  /\ Moves => /\ \/ pc["client"] \in {"start", "read"} /\ pc["server"] = "start"
                 \/ pc["client"] \in {"read", "synchronize", "done"} /\ pc["server"] = "synchronize"
                 \/ pc["client"] = "done" /\ pc["server"] = "done"
              /\ \A side \in Sides : session[side] <=> pc[side] = "done"
  /\ ~Moves => \A side \in Sides : pc[side] \in {"start", "done"} /\ ~session[side]

(* The handshake's bytes that are still to be read: the id until the       *)
(* client reads it, the byte in answer until the server does.              *)
Token(side) ==
  IF ~Moves \/ pc["server"] # "synchronize" THEN <<>>
  ELSE IF side = "server" /\ pc["client"] = "read" THEN <<"id">>
  ELSE IF side = "client" /\ pc["client"] = "done" THEN <<"!">>
  ELSE <<>>

(* Behind the token there is data alone, of a side that is through; plain  *)
(* calls leave none there if the connection moves, and the application has *)
(* read none of the tokens.                                                *)
SocketOf(side) ==
  /\ wire[side] = Token(side) \o Data(side)
  /\ Data(side) \in Seq(Range(Payload))
  /\ received[side] \in Seq(Range(Payload))
  /\ pc[side] # "done" => /\ Data(side) = <<>> /\ buffer[side] = <<>>
                          /\ received[side] = <<>> /\ sent[side] = 0
  /\ Moves /\ ~detour => Data(side) = <<>>
  /\ ~Moves => buffer[side] = <<>>

AgreeInv ==
  Agree => PlaceInv /\ (\A side \in Sides : SocketOf(side)) /\ StreamInOrder

(* A session on the client needs an id, and that the server has accepted:  *)
(* nothing is on the socket before.                                        *)
SessionInv ==
  /\ pc["server"] = "start" => /\ wire["server"] = <<>>
                               /\ pc["client"] \in {"start", "read", "done", "failed"}
                               /\ ~session["client"]
  /\ \A side \in Sides : session[side] => pc[side] = "done"
  /\ \A side \in Sides : ~session[side] =>
        /\ Quiet(side)
        /\ ~flag[First(side)] /\ ~flag[Second(side)]

(* The mode of a side is m: that of its buffers, but for the one the       *)
(* process in fcntl has yet to write, and that of its socket if the two    *)
(* are to agree.                                                           *)
ModeIs(side, m) ==
  /\ asked[side] = BOOLEAN \/ (asked[side] = {m} /\ sock[side] = m)
  /\ session[side] /\ Quiet(side) => flag[First(side)] = m /\ flag[Second(side)] = m
  /\ \A p \in Processes : setter[<<side, p>>].at # "no" =>
        /\ setter[<<side, p>>].mode = m
        /\ setter[<<side, p>>].at = "second" => flag[First(side)] = m
        /\ \A q \in Processes \ {p} : setter[<<side, q>>].at = "no"

(* A side has a mode or has set it twice at once; until it has a session   *)
(* only the socket has one.                                                *)
ModeOf(side) ==
  /\ (overlapped[side] /\ asked[side] = BOOLEAN) \/ \E m \in BOOLEAN : ModeIs(side, m)
  /\ ~session[side] /\ pc[side] \notin {"synchronize", "failed"} => asked[side] = {sock[side]}
  /\ side = "server" /\ pc[side] # "done" => asked[side] = {FALSE} /\ ~sock[side]
  /\ side = "client" /\ pc[side] = "synchronize" => ~sock[side]

ModeInv == \A side \in Sides : ModeOf(side)

(* The inductive invariant, and what follows from it.                      *)
Core == TypeOK /\ AgreeInv /\ SessionInv /\ ModeInv

IInv == Core /\ SidesInv /\ HandshakeIsPrivate /\ AbortsOnlyTorn
=============================================================================
