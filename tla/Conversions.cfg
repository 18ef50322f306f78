CONSTANTS
    Code <- MCCode
    Name <- MCName
    ValidName <- MCValidName
    Builtins <- MCBuiltins
    Absent = Absent
    Unset = Unset
    Writers = {w1, w2}
    Calls <- MCCalls
    Goroutines = {p1}
    Errors <- MCErrors
    Statuses <- MCStatuses
    Trusted <- MCTrusted
    Domain = "ours"
    StatusText <- MCStatusText
SPECIFICATION FairSpec
INVARIANTS NeverOK ReasonIsRegistered TitleIsWorded OneCut RecoveredFits
PROPERTY ConversionEnds
