CONSTANTS
    Goroutines = {g1, g2}
    Span = {1}
    NoSpan = NoSpan
    Nil = Nil
    Errors <- MCErrors
    Info <- MCInfo
    MaxInt = 7
    Limit = 4
    MaxEvents = 2
SPECIFICATION Spec
INVARIANTS CodeOnEvents AttrsAsLogged FaultsMarked StatusExplained
SYMMETRY Symmetry
CHECK_DEADLOCK FALSE
