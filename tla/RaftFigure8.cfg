CONSTANTS
    Server = {s1, s2, s3}
    Value = {a, b}
    Nil = Nil
    DummyNode = DummyNode
    MayTimeout = {s2}
    MaxTerm = 4
    MaxIndex = 2
    MaxInFlight = 1
    Crashable = {}
    MaxQueue = 1
    FirstLeader = s1
    Lossy = FALSE
    Snapshots = FALSE
SYMMETRY Symmetry
SPECIFICATION ReelectedSpec
INVARIANTS NewestLeaderHasCommitted
CHECK_DEADLOCK FALSE
