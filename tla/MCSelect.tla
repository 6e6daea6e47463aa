------------------------------ MODULE MCSelect ------------------------------
(* Three descriptors, all with sessions, the outer two, the first, none.   *)
(* The calls give the read set, the write set or all three, about each     *)
(* subset, with nfds just past the last descriptor or one more; one has    *)
(* descriptors beyond nfds.                                                *)
EXTENDS SelectInv

MCFds == 3 .. 5
MCLinked == {{3, 4, 5}, {3, 5}, {3}, {}}
MCCalls ==
    {[read |-> s, write |-> NULL, error |-> NULL, nfds |-> n] : s \in SUBSET MCFds, n \in {5, 6}}
    \cup {[read |-> NULL, write |-> s, error |-> NULL, nfds |-> 6] : s \in {{5}, {3, 5}}}
    \cup {[read |-> r, write |-> w, error |-> e, nfds |-> 6] :
             r \in {{}, {4, 5}, {5}}, w \in {{3}, {5}}, e \in {{}, {5}}}
    \cup {[read |-> {5}, write |-> {}, error |-> {3}, nfds |-> 4]}

=============================================================================
