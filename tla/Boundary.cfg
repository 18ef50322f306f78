CONSTANTS
    Unset = Unset
    Contents <- MCContents
    Info <- MCInfo
    RetryAfter = {100}
    Titled <- MCTitled
    MaxErrors = 4
SPECIFICATION BSpec
INVARIANTS OneCode ClientsSeeTheirOwn ShownIsSent TextMatchesTrace
