SPECIFICATION FairSpec
CONSTANTS
    Node <- MCNode
    Data <- MCData
    Key = {"a", "b"}
    Unset = Unset
    UnknownCode <- MCUnknown
    Heaps <- MCHeaps
    Roots = {0, 5}
INVARIANTS TypeOK NoLeak ResultIsReference
PROPERTY WalkEnds
