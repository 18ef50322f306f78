SPECIFICATION CSpec
CONSTANTS
    Goroutines = {g1}
    Data = {"x", "y"}
    Unset = Unset
    Ops <- MCOps
    Depth = 1
    MaxInt = 15
    MaxErrors = 3
    MaxSlack = 1
    Collectors = {c1, c2}
    Given = {"attrs", "violations"}
    MaxResults = 1
INVARIANTS ResultsOwned
PROPERTIES ErrorsImmutable
SYMMETRY Symmetry
