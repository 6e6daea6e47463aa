------------------------------- MODULE MCPoll -------------------------------
(* Bounds for Poll: two TSSX descriptors and two others, over any number   *)
(* of calls.                                                               *)
EXTENDS PollInv

MCTssxFds == 2
MCNormalFds == 2
=============================================================================
