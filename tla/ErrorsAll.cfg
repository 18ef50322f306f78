SPECIFICATION Spec
CONSTANTS
    Goroutines = {g1}
    Data = {"c", "x", "y"}
    Unset = Unset
    Ops <- AllOps
    Depth = 2
    MaxInt = 15
    MaxErrors = 3
    MaxSlack = 1
PROPERTY ImplementsValues
