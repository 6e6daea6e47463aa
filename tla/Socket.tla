------------------------------- MODULE Socket -------------------------------
(***************************************************************************)
(* What an application sees of an established connection: read, write,     *)
(* poll on the one descriptor, and close, at both ends, with the two       *)
(* buffers and open_count in between (common-overrides.c, the read/write   *)
(* overrides of client and server, _simple_tssx_poll).                     *)
(*                                                                         *)
(* A buffer is the number of bytes in it: that their order and contents    *)
(* survive is Buffer's theorem.  Bytes are published, and room is freed,   *)
(* in parts, as the wrap of the ring does it.  How the count comes to be 2 *)
(* and what happens to the segment at the end is Connection's subject.     *)
(***************************************************************************)
EXTENDS Channel

Sides == {"client", "server"}
Peer(s) == IF s = "client" THEN "server" ELSE "client"

VARIABLES
  openCount,   \* *open_count
  unread,      \* bytes in the buffer side s reads from (server_buffer for
               \* the client, client_buffer for the server)
  pc,          \* where a side is in its call; "idle" or "closed" outside one
  arg,         \* what the call was passed, and what is left of its bytes
  told,        \* revents of the last poll, until the application acts on it
  outcome      \* what the last call of read returned: "data", "again" or "eof"

socketVars == <<openCount, unread, pc, arg, told, outcome>>

PollEvents == {"in", "out"}

(* waits: a blocking descriptor, or the timeout -1 of a poll *)
Arg(n, wanted, w) == [bytes |-> n, events |-> wanted, waits |-> w]
NoArg == Arg(0, {}, FALSE)

SocketInit ==
  /\ openCount = 2
  /\ unread = [s \in Sides |-> 0]
  /\ pc = [s \in Sides |-> "idle"]
  /\ arg = [s \in Sides |-> NoArg]
  /\ told = [s \in Sides |-> {}]
  /\ outcome = [s \in Sides |-> "data"]

Goto(s, next) == pc' = [pc EXCEPT ![s] = next]
Enter(s, next, args) == Goto(s, next) /\ arg' = [arg EXCEPT ![s] = args]
Return(s) == Enter(s, "idle", NoArg)

(* The event is no longer news to the application. *)
Forget(s, event) == told' = [told EXCEPT ![s] = @ \ {event}]

(* mutant: the request is not cut down *)
CutNot(s, next, available) ==
  IF available = 0 THEN Return(s) ELSE Goto(s, next) /\ UNCHANGED arg

(* A buffer call is cut down to what there is, and over if that is nothing; *)
(* it is over, too, when the last part has been moved.                      *)
Cut(s, next, available) ==
  IF available = 0 THEN Return(s)
  ELSE Enter(s, next, Arg(AtMost(arg[s].bytes, available), {}, arg[s].waits))
Moved(s, part) ==
  IF part = arg[s].bytes THEN Return(s)
  ELSE Enter(s, pc[s], Arg(arg[s].bytes - part, {}, arg[s].waits))

(* mutant: any count below three is taken for a hangup *)
HungUpEarly(s) == openCount <= 2

(* mutant: the last user is not told apart *)
HungUpNever(s) == openCount = 0

(* connection_peer_died *)
HungUp(s) == openCount = 1

(* mutant: the wrong buffer of the two *)
WritableOther(s) == unread[s] < Capacity

(* _ready_for of the client and the server *)
Readable(s) == unread[s] > 0
Writable(s) == unread[Peer(s)] < Capacity

-----------------------------------------------------------------------------
(* read *)

CallRead(s) ==
  \E n \in Requests, w \in BOOLEAN :
     /\ pc[s] = "idle"
     /\ Enter(s, "readCheck", Arg(n, {}, w))
     /\ UNCHANGED <<openCount, unread, told, outcome>>

(* connection_read: the peer is looked at once, before the wait *)
ReadCheck(s) ==
  /\ pc[s] = "readCheck"
  /\ IF HungUp(s)
     THEN /\ Return(s)
          /\ outcome' = [outcome EXCEPT ![s] = "eof"]
          /\ Forget(s, "in")
     ELSE Goto(s, "read") /\ UNCHANGED <<arg, told, outcome>>
  /\ UNCHANGED <<openCount, unread>>

(* buffer_read *)
ReadSpace(s) ==
  /\ pc[s] = "read"
  /\ arg[s].waits => unread[s] > 0
  /\ Cut(s, "take", unread[s])
  /\ outcome' = [outcome EXCEPT ![s] = IF unread[s] > 0 THEN "data" ELSE "again"]
  /\ Forget(s, "in")
  /\ UNCHANGED <<openCount, unread>>

ReadTake(s) ==
  /\ pc[s] = "take"
  /\ \E part \in 1..arg[s].bytes :
        unread' = [unread EXCEPT ![s] = @ - part] /\ Moved(s, part)
  /\ UNCHANGED <<openCount, told, outcome>>

-----------------------------------------------------------------------------
(* write *)

CallWrite(s) ==
  \E n \in Requests, w \in BOOLEAN :
     /\ pc[s] = "idle"
     /\ Enter(s, "writeCheck", Arg(n, {}, w))
     /\ UNCHANGED <<openCount, unread, told, outcome>>

(* connection_write *)
WriteCheck(s) ==
  /\ pc[s] = "writeCheck"
  /\ IF HungUp(s) THEN Return(s) /\ Forget(s, "out")
                  ELSE Goto(s, "write") /\ UNCHANGED <<arg, told>>
  /\ UNCHANGED <<openCount, unread, outcome>>

(* buffer_write *)
WriteSpace(s) ==
  LET free == Capacity - unread[Peer(s)] IN
  /\ pc[s] = "write"
  /\ arg[s].waits => free > 0
  /\ Cut(s, "put", free)
  /\ Forget(s, "out")
  /\ UNCHANGED <<openCount, unread, outcome>>

WritePut(s) ==
  /\ pc[s] = "put"
  /\ \E part \in 1..arg[s].bytes :
        unread' = [unread EXCEPT ![Peer(s)] = @ + part] /\ Moved(s, part)
  /\ UNCHANGED <<openCount, told, outcome>>

-----------------------------------------------------------------------------
(* poll *)

CallPoll(s) ==
  \E wanted \in SUBSET PollEvents, w \in BOOLEAN :
     /\ pc[s] = "idle"
     /\ Enter(s, "poll", Arg(0, wanted, w))
     /\ told' = [told EXCEPT ![s] = {}]
     /\ UNCHANGED <<openCount, unread, outcome>>

(* _check_poll_events.  Each of its three loads, once it finds an event,   *)
(* would find it until this side acts, so one step stands for them.        *)
Revents(s) ==
  IF HungUp(s) THEN {"hup", "in"}
  ELSE {e \in arg[s].events : IF e = "in" THEN Readable(s) ELSE Writable(s)}

(* The loop of _simple_tssx_poll: the iteration that ends it *)
PollScan(s) ==
  /\ pc[s] = "poll"
  /\ arg[s].waits => Revents(s) # {}
  /\ told' = [told EXCEPT ![s] = Revents(s)]
  /\ Return(s)
  /\ UNCHANGED <<openCount, unread, outcome>>

-----------------------------------------------------------------------------
(* close: the subtraction of disconnect *)
Close(s) ==
  /\ pc[s] = "idle"
  /\ openCount' = openCount - 1
  /\ Goto(s, "closed")
  /\ UNCHANGED <<unread, arg, told, outcome>>

-----------------------------------------------------------------------------
Call(s) == CallRead(s) \/ CallWrite(s) \/ CallPoll(s) \/ Close(s)
Step(s) == \/ ReadCheck(s) \/ ReadSpace(s) \/ ReadTake(s)
           \/ WriteCheck(s) \/ WriteSpace(s) \/ WritePut(s)
           \/ PollScan(s)

SocketNext == \E s \in Sides : Call(s) \/ Step(s)

SocketSpec == SocketInit /\ [][SocketNext]_socketVars

(* Both processes are scheduled; nothing makes an application call. *)
SocketFairSpec == SocketSpec /\ \A s \in Sides : WF_socketVars(Step(s))

-----------------------------------------------------------------------------
Args == [bytes : 0..Capacity \cup Requests, events : SUBSET PollEvents,
         waits : BOOLEAN]

(* Every variable keeps its type: a write never overfills the other side's *)
(* buffer and a read never takes bytes that are not there.                 *)
SocketTypeOK ==
  /\ openCount \in 0..2
  /\ unread \in [Sides -> 0..Capacity]
  /\ pc \in [Sides -> {"idle", "closed", "readCheck", "read", "take",
                       "writeCheck", "write", "put", "poll"}]
  /\ arg \in [Sides -> Args]
  /\ told \in [Sides -> SUBSET {"in", "out", "hup"}]
  /\ outcome \in [Sides -> {"data", "again", "eof"}]

(* What poll promises: after POLLIN the next read does not block, whatever *)
(* the peer has done since (written more, read, closed), and even on a     *)
(* blocking descriptor; after POLLOUT the same holds of write.             *)
PollIsTrue ==
  \A s \in Sides : pc[s] # "closed" =>
    /\ "in" \in told[s] => openCount = 1 \/ unread[s] > 0
    /\ "out" \in told[s] => openCount = 1 \/ unread[Peer(s)] < Capacity

(* read returns 0 only when the other side has closed. *)
EofOnlyAfterClose ==
  \A s \in Sides : outcome[s] = "eof" => pc[Peer(s)] = "closed"

(* A poll without a timeout ends when the peer closes, even if it asked    *)
(* for no event: "POLLHUP is output only and ignored in events".           *)
PollEndsOnHangup ==
  \A s \in Sides : pc[s] = "poll" /\ pc[Peer(s)] = "closed" ~> pc[s] # "poll"

(* The two buffers, server_buffer and client_buffer, as ByteCount sees them. *)
PeerPuts(s) == IF pc[Peer(s)] = "put" THEN arg[Peer(s)].bytes ELSE 0
Takes(s) == IF pc[s] = "take" THEN arg[s].bytes ELSE 0

ServerBuffer == INSTANCE ByteCount
  WITH unread <- unread["client"], putting <- PeerPuts("client"), taking <- Takes("client")
ClientBuffer == INSTANCE ByteCount
  WITH unread <- unread["server"], putting <- PeerPuts("server"), taking <- Takes("server")

(* README.md: the library "silently replaces domain socket communication". *)
(* A domain socket hands over what the peer wrote before it closed, and    *)
(* only then end of file.                                                  *)
EofAfterLastByte == \A s \in Sides : outcome[s] = "eof" => unread[s] = 0
=============================================================================
