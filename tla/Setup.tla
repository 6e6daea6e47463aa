------------------------------- MODULE Setup -------------------------------
(***************************************************************************)
(* One socket connection from connect and accept on: whether each side     *)
(* moves it to shared memory, the handshake that does, the route its calls *)
(* take from then on, and its blocking mode.                               *)
(*                                                                         *)
(* Each side decides for itself, from USE_TSSX and the socket's address.   *)
(* The handshake goes over the socket, which is a stream like any other.   *)
(* The mode is kept three times for a side: on its socket, and once in     *)
(* each of the two shared buffers, for what that side does with it.        *)
(***************************************************************************)
EXTENDS Integers, Sequences, Functions

CONSTANTS
    Paths,       \* socket addresses
    NULL,        \* no value: an environment variable that is not set
    Processes,   \* the processes of each side; they share the descriptor
    Requests,    \* what the application calls read and write functions with
    Payload,     \* what it sends, in this order
    Modes        \* bound on what it does: "data" (sends), "flags" (calls fcntl)

Sides == {"client", "server"}

\* What the handshake puts on the socket: the segment's id, the byte in answer.
Tokens == {"id", "!"}

\* The messages are told apart from the handshake's by the properties alone.
ASSUME PayloadAssumption ==
    /\ Payload \in Seq(Range(Payload))
    /\ Tokens \cap Range(Payload) = {}

ASSUME RequestsAssumption ==
    Requests \subseteq [fn : {"write", "send", "sendto", "sendmsg"},
                        flags : {"none", "NOSIGNAL", "other"},
                        address : BOOLEAN, buffers : {1, 2}]

ASSUME ModesAssumption == Modes \subseteq {"data", "flags"}

Peer(side) == IF side = "client" THEN "server" ELSE "client"

VARIABLES
    env,         \* USE_TSSX of each side: a set of paths
    domain,      \* the socket is a stream socket of the Unix domain
    path,        \* its address
    does,        \* what the application does in this behaviour
    pc,          \* where connect and accept are
    wire,        \* wire[side]: what side has put on the socket
    buffer,      \* the same for its shared buffer
    session,     \* side has a session for the descriptor
    sent, received,
    detour,      \* a call that is not one of a plain stream was made
    sock,        \* O_NONBLOCK of side's socket
    flag,        \* non_blocking of the buffers, for <<buffer, operation>>
    setter,      \* where each process is in fcntl, and with which mode
    overlapped,  \* side's last fcntl to set a mode began with another under way
    asked,       \* the modes side can expect to be in: one, or both
    aborted      \* the side an assertion failed on; the behaviour ends there

static == <<env, domain, path, does>>
stream == <<wire, buffer, sent, received, detour>>
mode   == <<sock, flag, setter, overlapped, asked, aborted>>
vars   == <<static, pc, session, stream, mode>>

Slots == {"server_buffer", "client_buffer"} \X {"READ", "WRITE"}

NotSetting == [at |-> "no", mode |-> FALSE]

Init ==
    /\ env \in [Sides -> {NULL} \cup SUBSET Paths]
    /\ domain \in BOOLEAN /\ path \in Paths /\ does \in Modes
    /\ pc = [side \in Sides |-> "start"]
    /\ wire = [side \in Sides |-> <<>>] /\ buffer = wire
    /\ session = [side \in Sides |-> FALSE]
    /\ sent = [side \in Sides |-> 0] /\ received = wire /\ detour = FALSE
    /\ sock = [side \in Sides |-> FALSE] /\ asked = [side \in Sides |-> {FALSE}]
    /\ flag = [slot \in Slots |-> FALSE]
    /\ setter = [p \in Sides \X Processes |-> NotSetting]
    /\ overlapped = [side \in Sides |-> FALSE] /\ aborted = "no"

-----------------------------------------------------------------------------
(***************************************************************************)
(* Whether to use TSSX.                                                    *)
(***************************************************************************)

\* The words of the variable; without it the set stays empty.
_parse_tssx_variable(side) == IF env[side] = NULL THEN {} ELSE env[side]

_is_domain_and_stream_socket(side) == domain

\* The client asks for its peer's address, the server for its own: the same.
check_tssx_usage(side) ==
    _is_domain_and_stream_socket(side) /\ path \in _parse_tssx_variable(side)

-----------------------------------------------------------------------------
(***************************************************************************)
(* connect.  A second process of a side comes after the setup.             *)
(***************************************************************************)

Goto(side, next) == pc' = [pc EXCEPT ![side] = next]

Quiet(side) == \A p \in Processes : setter[<<side, p>>].at = "no"

\* Before it connects the client may make its socket non-blocking.
ClientPrepares ==
    /\ pc["client"] = "start" /\ does = "flags"
    /\ sock' = [sock EXCEPT !["client"] = TRUE]
    /\ asked' = [asked EXCEPT !["client"] = {TRUE}]
    /\ UNCHANGED <<static, pc, session, stream, flag, setter, overlapped, aborted>>

connect ==
    /\ pc["client"] = "start"
    /\ Goto("client", IF check_tssx_usage("client") THEN "read" ELSE "done")
    /\ UNCHANGED <<static, session, stream, mode>>

(* mutant: the socket stays as it is during the handshake *)
KeptNonBlocking(side) == UNCHANGED sock

\* The old flags are never put back in place.
unset_socket_non_blocking(side) == sock' = [sock EXCEPT ![side] = FALSE]

\* The blocking read of the segment's id, and setup_connection: what is read is
\* taken for an id, and attaching any other number fails.  A read on a socket
\* that is still non-blocking fails when there is nothing.  The options of the
\* client are not used: the mode the socket had is lost.
_read_segment_id_from_server ==
    /\ pc["client"] = "read"
    /\ unset_socket_non_blocking("client")
    /\ IF wire["server"] = <<>>
       THEN sock'["client"] /\ Goto("client", "failed") /\ UNCHANGED wire
       ELSE /\ wire' = [wire EXCEPT !["server"] = Tail(@)]
            /\ Goto("client", IF Head(wire["server"]) = "id" THEN "synchronize" ELSE "failed")
    /\ asked' = [asked EXCEPT !["client"] = @ \cup {FALSE}]
    /\ UNCHANGED <<static, session, buffer, sent, received, detour, flag, setter, overlapped, aborted>>

_synchronize_with_server ==
    /\ pc["client"] = "synchronize"
    /\ wire' = [wire EXCEPT !["client"] = Append(@, "!")]
    /\ session' = [session EXCEPT !["client"] = TRUE]
    /\ Goto("client", "done")
    /\ UNCHANGED <<static, buffer, sent, received, detour, mode>>

-----------------------------------------------------------------------------
(***************************************************************************)
(* accept.                                                                 *)
(***************************************************************************)

\* create_connection gives the server's slots the mode of the accepted socket.
accept ==
    /\ pc["server"] = "start" /\ pc["client"] # "start"
    /\ IF check_tssx_usage("server")
       THEN /\ flag' = [slot \in Slots |->
                           slot \in {<<"server_buffer", "WRITE">>, <<"client_buffer", "READ">>}
                              /\ sock["server"]]
            /\ wire' = [wire EXCEPT !["server"] = Append(@, "id")]
            /\ Goto("server", "synchronize")
       ELSE Goto("server", "done") /\ UNCHANGED <<flag, wire>>
    /\ UNCHANGED <<static, session, buffer, sent, received, detour, sock, setter, overlapped, asked, aborted>>

(* mutant: the byte is left on the socket *)
SynchronizeUnread == wire["client"] # <<>> /\ UNCHANGED wire

\* One byte, whatever it is.
SynchronizeRead == wire["client"] # <<>> /\ wire' = [wire EXCEPT !["client"] = Tail(@)]

_synchronize_with_client ==
    /\ pc["server"] = "synchronize"
    /\ SynchronizeRead
    /\ unset_socket_non_blocking("server")
    /\ session' = [session EXCEPT !["server"] = TRUE]
    /\ Goto("server", "done")
    /\ UNCHANGED <<static, buffer, sent, received, detour, flag, setter, overlapped, asked, aborted>>

-----------------------------------------------------------------------------
(***************************************************************************)
(* The calls that send and receive, and where they go: to write and read,  *)
(* which know about sessions, or to the socket.                            *)
(***************************************************************************)

send(r) == IF r.flags \in {"none", "NOSIGNAL"} THEN "write" ELSE "socket"

(* mutant: the test of the address is the wrong way round *)
SendtoAddressed(r) == IF r.address THEN send(r) ELSE "socket"

sendto(r) == IF r.address THEN "socket" ELSE send(r)

sendmsg(r) == IF r.buffers = 1 THEN sendto(r) ELSE "socket"

Route(r) == CASE r.fn = "write"  -> "write"
              [] r.fn = "send"   -> send(r)
              [] r.fn = "sendto" -> sendto(r)
              [] OTHER           -> sendmsg(r)

\* What write does on a stream socket without TSSX: no flag changes that, nor
\* does more than one buffer; the address is ignored.
Plain(r) == \/ r.fn = "write"
            \/ r.flags # "other" /\ ~r.address /\ r.buffers = 1

ThroughBuffer(side, r) == session[side] /\ Route(r) = "write"

Talks(side) == pc[side] = "done" /\ does = "data"

Send(side, r) ==
    /\ Talks(side) /\ sent[side] < Len(Payload)
    /\ LET message == Payload[sent[side] + 1]
       IN  IF ThroughBuffer(side, r)
           THEN buffer' = [buffer EXCEPT ![side] = Append(@, message)] /\ UNCHANGED wire
           ELSE wire' = [wire EXCEPT ![side] = Append(@, message)] /\ UNCHANGED buffer
    /\ sent' = [sent EXCEPT ![side] = @ + 1]
    /\ detour' = (detour \/ ~Plain(r))
    /\ UNCHANGED <<static, pc, session, received, mode>>

Receive(side, r) ==
    /\ Talks(side)
    /\ \/ /\ ThroughBuffer(side, r) /\ buffer[Peer(side)] # <<>>
          /\ received' = [received EXCEPT ![side] = Append(@, Head(buffer[Peer(side)]))]
          /\ buffer' = [buffer EXCEPT ![Peer(side)] = Tail(@)] /\ UNCHANGED wire
       \/ /\ ~ThroughBuffer(side, r) /\ wire[Peer(side)] # <<>>
          /\ received' = [received EXCEPT ![side] = Append(@, Head(wire[Peer(side)]))]
          /\ wire' = [wire EXCEPT ![Peer(side)] = Tail(@)] /\ UNCHANGED buffer
    /\ detour' = (detour \/ ~Plain(r))
    /\ UNCHANGED <<static, pc, session, sent, mode>>

-----------------------------------------------------------------------------
(***************************************************************************)
(* fcntl.                                                                  *)
(***************************************************************************)

(* mutant: the client changes the server's side of the second buffer *)
SecondMixed(side) == <<"client_buffer", "READ">>

\* set_non_blocking, of each side: its own operation on either buffer.
First(side) == IF side = "client" THEN <<"server_buffer", "READ">> ELSE <<"server_buffer", "WRITE">>

Second(side) == IF side = "client" THEN <<"client_buffer", "WRITE">> ELSE <<"client_buffer", "READ">>

May(side) == pc[side] = "done" /\ does = "flags" /\ aborted = "no"

\* F_SETFL and F_SETFD: only the first changes the socket's mode, either one that
\* of the buffers, to what the bit of O_NONBLOCK is in the argument.
fcntl_set(side, p, command, m) ==
    /\ May(side) /\ setter[<<side, p>>].at = "no"
    /\ sock' = IF command = "F_SETFL" THEN [sock EXCEPT ![side] = m] ELSE sock
    /\ asked' = [asked EXCEPT ![side] =
                   IF command = "F_SETFL" /\ Quiet(side) THEN {m}
                   ELSE IF session[side] THEN BOOLEAN ELSE @]
    /\ setter' = [setter EXCEPT ![<<side, p>>] =
                   IF session[side] THEN [at |-> "first", mode |-> m] ELSE NotSetting]
    /\ overlapped' = [overlapped EXCEPT ![side] = ~Quiet(side)]
    /\ UNCHANGED <<static, pc, session, stream, flag, aborted>>

SetFirst(side, p) ==
    /\ setter[<<side, p>>].at = "first" /\ aborted = "no"
    /\ flag' = [flag EXCEPT ![First(side)] = setter[<<side, p>>].mode]
    /\ setter' = [setter EXCEPT ![<<side, p>>].at = "second"]
    /\ UNCHANGED <<static, pc, session, stream, sock, overlapped, asked, aborted>>

(* mutant: the other buffer is left alone *)
SetSecondForgets(side, p) ==
    /\ setter[<<side, p>>].at = "second" /\ aborted = "no"
    /\ setter' = [setter EXCEPT ![<<side, p>>] = NotSetting]
    /\ UNCHANGED <<static, pc, session, stream, sock, flag, overlapped, asked, aborted>>

SetSecond(side, p) ==
    /\ setter[<<side, p>>].at = "second" /\ aborted = "no"
    /\ flag' = [flag EXCEPT ![Second(side)] = setter[<<side, p>>].mode]
    /\ setter' = [setter EXCEPT ![<<side, p>>] = NotSetting]
    /\ UNCHANGED <<static, pc, session, stream, sock, overlapped, asked, aborted>>

\* F_GETFL; is_non_blocking asserts that the two flags agree.
fcntl_get(side, p) ==
    /\ May(side) /\ session[side] /\ setter[<<side, p>>].at = "no"
    /\ aborted' = IF flag[First(side)] # flag[Second(side)] THEN side ELSE aborted
    /\ UNCHANGED <<static, pc, session, stream, sock, flag, setter, overlapped, asked>>

-----------------------------------------------------------------------------

Handshake == \/ connect \/ accept
             \/ _read_segment_id_from_server \/ _synchronize_with_server
             \/ _synchronize_with_client

Application ==
    \/ ClientPrepares
    \/ \E side \in Sides, r \in Requests : Send(side, r) \/ Receive(side, r)
    \/ \E side \in Sides, p \in Processes :
          \/ \E command \in {"F_SETFL", "F_SETFD"}, m \in BOOLEAN :
                (command = "F_SETFD" => m = FALSE) /\ fcntl_set(side, p, command, m)
          \/ SetFirst(side, p) \/ SetSecond(side, p) \/ fcntl_get(side, p)

Next == Handshake \/ Application

Spec == Init /\ [][Next]_vars

\* The client connects, the server accepts, and neither stops on the way.
FairSpec == Spec /\ WF_vars(Handshake)

-----------------------------------------------------------------------------
(***************************************************************************)
(* Properties.                                                             *)
(***************************************************************************)

Agree == env["client"] = env["server"]

\* The application's part of what is on the socket.
DataOf(w) == IF w # <<>> /\ Head(w) \in Tokens THEN Tail(w) ELSE w

Data(side) == DataOf(wire[side])

\* Types of the state.
TypeOK ==
    /\ pc \in [Sides -> {"start", "read", "synchronize", "done", "failed"}]
    /\ wire \in [Sides -> Seq(Tokens \cup Range(Payload))]
    /\ buffer \in [Sides -> Seq(Range(Payload))]
    /\ session \in [Sides -> BOOLEAN] /\ sent \in [Sides -> 0 .. Len(Payload)]
    /\ received \in [Sides -> Seq(Tokens \cup Range(Payload))]
    /\ sock \in [Sides -> BOOLEAN] /\ flag \in [Slots -> BOOLEAN]
    /\ asked \in [Sides -> SUBSET BOOLEAN]
    /\ setter \in [Sides \X Processes -> [at : {"no", "first", "second"}, mode : BOOLEAN]]
    /\ overlapped \in [Sides -> BOOLEAN] /\ aborted \in {"no"} \cup Sides

\* With the same USE_TSSX on both sides the two go the same way: both have a
\* session in the end or neither, and the handshake does not fail, whatever mode
\* the socket was in and however early the peer starts to talk.
SidesAgree ==
    Agree => /\ "failed" \notin {pc[side] : side \in Sides}
             /\ pc["client"] = "done" /\ pc["server"] = "done" => session["client"] = session["server"]

\* The handshake shares the socket with the data of an application that does not
\* use TSSX, and takes nothing of it nor leaves anything to it.
HandshakeIsPrivate ==
    Agree => /\ \A side \in Sides : Tokens \cap Range(received[side]) = {}
             /\ (\A side \in Sides : session[side]) /\ ~detour =>
                    \A side \in Sides : wire[side] = <<>>

\* The calls of a plain stream are all routed alike: what one side sends arrives
\* complete and in order, with write here and recvmsg there.
StreamInOrder ==
    Agree /\ ~detour =>
        \A side \in Sides :
            received[Peer(side)] \o buffer[side] \o Data(side)
                = SubSeq(Payload, 1, sent[side])

\* After fcntl the socket and the two flags of a side are in the mode that was
\* asked for, whatever the other side does at the same time; not after F_SETFD, nor
\* when two processes of the side have set it at once, nor when the handshake made a
\* non-blocking socket of the client's blocking, until F_SETFL is called again.
FlagsInSync ==
    \A side \in Sides :
        session[side] /\ Quiet(side) /\ asked[side] # BOOLEAN =>
            {sock[side], flag[First(side)], flag[Second(side)]} = asked[side]

\* The two sides, and the three places of a mode, agree.
SidesInv == TypeOK /\ SidesAgree /\ FlagsInSync

\* The assertion of is_non_blocking stops a process only while another one of its
\* own side is changing the two flags, or after two of them have changed them at
\* once: not for F_SETFD, the handshake or what the other side does.
AbortsOnlyTorn == aborted # "no" => overlapped[aborted] \/ ~Quiet(aborted)

\* With the same USE_TSSX connect and accept return.
BothConnect == Agree ~> (pc["client"] = "done" /\ pc["server"] = "done")

=============================================================================
