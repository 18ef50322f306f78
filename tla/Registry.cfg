CONSTANTS
    Code <- MCCode
    Name <- MCGoodName
    ValidName <- MCGoodName
    Builtins <- MCBuiltins
    Absent = Absent
    Nobody = Nobody
    Writers = {w1, w2}
    Readers = {r1}
    Calls <- Rivals
SPECIFICATION ReadersFairSpec
INVARIANT SnapshotsConsistent
PROPERTIES SnapshotsFrozen EntriesPermanent ImplementsTable LookupEnds
