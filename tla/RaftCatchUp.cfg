CONSTANTS
    Server = {s1, s2, s3}
    Value = {a}
    Nil = Nil
    DummyNode = DummyNode
    MayTimeout = {s2}
    MaxTerm = 2
    MaxIndex = 3
    MaxInFlight = 1
    Crashable = {}
    MaxQueue = 1
    FirstLeader = s1
    Lossy = FALSE
    Snapshots = TRUE
SYMMETRY Symmetry
SPECIFICATION LeftBehindSpec
INVARIANTS AssertionsHold
CHECK_DEADLOCK FALSE
