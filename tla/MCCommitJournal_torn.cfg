SPECIFICATION FaultySpec
CONSTANTS
    Paths = {"x", "y", "root"}
    Values = {"a", "b"}
    Absent = Absent
    Batches <- MCBatches
    NoJournal = NoJournal
    Truncated = Truncated
    Unparsable = Unparsable
    MaxCrashes = 1
INVARIANT
    FamiliesAgree
CHECK_DEADLOCK FALSE
