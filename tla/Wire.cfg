SPECIFICATION Spec
CONSTANTS
    Absent = Absent
    Code <- MCCode
    Name <- MCName
    ValidName <- MCName
    Builtins <- MCBuiltins
    Final = 3
    Configs <- MCConfigs
    Added <- MCAdded
    Foreign <- MCForeign
    ValidDomain = {"ours", "theirs"}
    MaxDuration = 10
    MaxProto = 20
    MaxLayers = 2
INVARIANTS
    DetailsIsolated
    NothingForwarded
    DelaySurvives
    DelayIsSound
PROPERTIES
    CodeSurvives
    NumericPreserved
