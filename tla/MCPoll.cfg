CONSTANTS
  TssxFds <- MCTssxFds
  NormalFds <- MCNormalFds
  Timeouts = {"forever", "zero", "finite"}
  Faults = {"foreignSignal", "pollError"}
SPECIFICATION FairSpec
INVARIANT IInv
INVARIANT ResultCountsEvents
INVARIANT ScansAfterHandshake
PROPERTY ImplementsPollAnswer
PROPERTY PollReturns
