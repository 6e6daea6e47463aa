SPECIFICATION Spec
CONSTANTS
    NULL = NULL
    Fds <- MCFds
    Linked <- MCLinked
    Calls <- MCCalls
    Timeouts = {"forever", "running", "elapsed"}
    Conditions = {"IN", "OUT", "HUP", "ERR", "NVAL"}
    MaxArrivals = 2
INVARIANT HangupIsReadable
CHECK_DEADLOCK FALSE
