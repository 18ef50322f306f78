CONSTANTS
    Code <- MCCode
    Name <- MCName
    ValidName <- MCGoodName
    Builtins <- MCBuiltins
    Absent = Absent
    Nobody = Nobody
    Writers = {w1, w2}
    Readers = {}
    Calls <- AllCalls
SPECIFICATION FairSpec
INVARIANT EntriesSound
PROPERTY RegisterEnds
