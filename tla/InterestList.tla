---------------------------- MODULE InterestList ----------------------------
(***************************************************************************)
(* What an epoll instance is to its user: a set of descriptors, each with  *)
(* the events it is registered for and whether it is enabled.  A one-shot  *)
(* registration is disabled when its event is put out, until it is         *)
(* modified.                                                               *)
(***************************************************************************)
CONSTANTS Fds, Interests

VARIABLE list   \* a function on the registered descriptors

Init == list = [fd \in {} |-> 0]

Add(fd) ==
    \E i \in Interests :
        /\ fd \notin DOMAIN list
        /\ list' = [f \in DOMAIN list \cup {fd} |->
                       IF f = fd THEN [events |-> i, enabled |-> TRUE] ELSE list[f]]

Modify(fd) ==
    \E i \in Interests :
        /\ fd \in DOMAIN list
        /\ list' = [list EXCEPT ![fd] = [events |-> i, enabled |-> TRUE]]

Delete(fd) ==
    /\ fd \in DOMAIN list
    /\ list' = [f \in DOMAIN list \ {fd} |-> list[f]]

\* Events of some descriptors are put out; the one-shot ones are disabled.
Deliver ==
    \E fired \in SUBSET DOMAIN list :
        /\ \A fd \in fired : "ONESHOT" \in list[fd].events /\ list[fd].enabled
        /\ list' = [fd \in DOMAIN list |->
                        IF fd \in fired THEN [list[fd] EXCEPT !.enabled = FALSE] ELSE list[fd]]

Close == list' = [fd \in {} |-> 0]

Next == Deliver \/ Close \/ \E fd \in Fds : Add(fd) \/ Modify(fd) \/ Delete(fd)

Spec == Init /\ [][Next]_list

=============================================================================
