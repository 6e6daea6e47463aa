CONSTANTS
  Capacity <- MCCapacity
  Requests <- MCRequests
SPECIFICATION SocketSpec
INVARIANT EofAfterLastByte
CHECK_DEADLOCK FALSE
