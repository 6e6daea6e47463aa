CONSTANTS
  TssxFds <- MCTssxFds
  NormalFds <- MCNormalFds
  Timeouts = {"zero", "finite"}
  Faults = {"pollError"}
SPECIFICATION Spec
INVARIANT ErrorIsMinusOne
