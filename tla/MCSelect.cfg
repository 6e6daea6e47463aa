SPECIFICATION FairSpec
CONSTANTS
    NULL = NULL
    Fds <- MCFds
    Linked <- MCLinked
    Calls <- MCCalls
    Timeouts = {"forever", "running", "elapsed"}
    Conditions = {"IN", "OUT", "HUP", "ERR", "NVAL"}
    MaxArrivals = 2
INVARIANT IInv
INVARIANT BitsAskedAndTrue
INVARIANT TameNeverAborts
PROPERTY SelectReturns
PROPERTY ReadyEndsSelect
CHECK_DEADLOCK FALSE
