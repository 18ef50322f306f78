CONSTANTS
    Absent = Absent
    Key <- MCKey
    Errors <- MCErrors
    Value <- MCValue
    Options <- MCOptions
    Title <- MCTitle
    TypeURL = "about"
    Unencodable = Unencodable
    Panicking = Panicking
SPECIFICATION Spec
INVARIANTS MembersIntact ExplicitWins ResponseAgrees
CHECK_DEADLOCK FALSE
