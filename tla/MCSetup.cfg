SPECIFICATION FairSpec
CONSTANTS
    NULL = NULL
    Paths = {"p", "q"}
    Processes = {1, 2}
    Requests <- MCRequests
    Payload <- MCPayload
    Modes = {"data", "flags"}
INVARIANT IInv
INVARIANT HandshakeIsPrivate
INVARIANT StreamInOrder
INVARIANT AbortsOnlyTorn
PROPERTY BothConnect
CHECK_DEADLOCK FALSE
