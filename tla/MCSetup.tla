------------------------------ MODULE MCSetup ------------------------------
(* Two addresses, two processes a side, two messages a side; plain and     *)
(* other calls of each kind.                                               *)
EXTENDS SetupInv

Request(fn, flags, address, buffers) ==
    [fn |-> fn, flags |-> flags, address |-> address, buffers |-> buffers]

MCRequests ==
    {Request("write", "none", FALSE, 1), Request("send", "NOSIGNAL", FALSE, 1),
     Request("sendto", "none", FALSE, 1), Request("sendmsg", "none", FALSE, 1),
     Request("send", "other", FALSE, 1), Request("sendto", "none", TRUE, 1),
     Request("sendmsg", "none", FALSE, 2)}

MCPayload == <<"a", "b">>

=============================================================================
