------------------------------ MODULE MCEpoll ------------------------------
(* An instance with three TSSX descriptors, two of them in the vector, and *)
(* ones with two or one of them and one or two ordinary descriptors.       *)
EXTENDS EpollInv

CONSTANTS f1, f2, f3

MCLinked == {{f1, f2, f3}, {f1, f2}, {f1}}
MCInterests == {{"IN", "ONESHOT"}, {"IN", "OUT", "RDHUP"}}
MCElement == [fd : Fds, events : Interests, enabled : BOOLEAN]
MCJunk == [fd |-> "none", events |-> {}, enabled |-> FALSE]
MCReadiness == {{}, {"IN"}, {"OUT", "HUP"}}

=============================================================================
