SPECIFICATION FairSpec
CONSTANTS
    f1 = f1  f2 = f2  f3 = f3
    Fds = {f1, f2, f3}
    Linked <- MCLinked
    Interests <- MCInterests
    Element <- MCElement
    Junk <- MCJunk
    Readiness <- MCReadiness
    Sizes = {1, 2}
    Timeouts = {"forever", "running", "elapsed"}
    INITIAL_INSTANCE_CAPACITY = 1
    MaxRefused = 1
INVARIANT IInv
INVARIANT OneshotDelivered
INVARIANT ResultIsTrue
PROPERTY ImplementsInterestList
PROPERTY WaitReturns
CHECK_DEADLOCK FALSE
