SPECIFICATION Spec
CONSTANTS
    e1 = e1  e2 = e2
    s1 = s1  s2 = s2  s3 = s3  s4 = s4  s5 = s5  s6 = s6
    Kinds = {"vector", "two vectors", "table", "set", "list"}
    Element = {e1, e2}
    Junk = Junk
    Unset = Unset
    MaxSize = 5
    MaxPair = 2
    MaxCapacity = 5
    Key = {0, 1, 2, 3, 4, 5}
    Value = {0, 1}
    String = {s1, s2, s3, s4, s5, s6}
    Hash <- MCHash
    MinCapacity = 1
    LoadFactor = 5
    Alloc = {TRUE, FALSE}
INVARIANT IInv
INVARIANT VectorIsSequence
INVARIANT TableIsMap
INVARIANT SetKeepsStrings
INVARIANT PopsLastFreed
CHECK_DEADLOCK FALSE
