SPECIFICATION Spec
CONSTANTS
    Goroutines = {g1, g2}
    Data = {"c", "x", "y"}
    Unset = Unset
    Ops <- AppendOps
    Depth = 2
    MaxInt = 15
    MaxErrors = 3
    MaxSlack = 2
PROPERTIES WritesArePrivate ImplementsValues
SYMMETRY Symmetry
