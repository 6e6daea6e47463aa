CONSTANTS
  Capacity <- MCCapacity
  Requests <- MCRequests
SPECIFICATION SocketFairSpec
INVARIANT SocketIInv
INVARIANT PollIsTrue
INVARIANT EofOnlyAfterClose
PROPERTY PollEndsOnHangup
CHECK_DEADLOCK FALSE
