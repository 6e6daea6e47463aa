CONSTANTS
  client = client
  server = server
  child1 = child1
  child2 = child2
  Client <- client
  Server <- server
  Children <- TwoChildren
  CountModulus <- MCModulus
  Worlds <- MCWorlds
SPECIFICATION FairSpec
INVARIANT IInv
INVARIANT CountIsReferences
INVARIANT NoSegmentLeft
INVARIANT FaultsErrHigh
INVARIANT TouchesMapped
PROPERTY HandshakeEnds
CHECK_DEADLOCK FALSE
