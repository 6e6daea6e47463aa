CONSTANTS
  Capacity <- MCCapacity
  Requests <- MCRequests
  MaxBytes <- MCMaxBytes
SPECIFICATION FairSpec
INVARIANT IInv
INVARIANT NoOverlap
PROPERTY ImplementsStream
PROPERTY WriteReturns
PROPERTY SentIsDelivered
CHECK_DEADLOCK FALSE
