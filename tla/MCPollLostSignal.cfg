CONSTANTS
  TssxFds <- MCTssxFds
  NormalFds <- MCNormalFds
  Timeouts = {"forever"}
  Faults = {}
SPECIFICATION FairSpec
PROPERTY TssxEndsPoll
