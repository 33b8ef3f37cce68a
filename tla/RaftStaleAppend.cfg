CONSTANTS
    Server = {s1, s2, s3}
    Value = {a, b}
    Nil = Nil
    DummyNode = DummyNode
    MayTimeout = {s3}
    MaxTerm = 2
    MaxIndex = 1
    MaxInFlight = 2
    Crashable = {}
    MaxQueue = 1
    FirstLeader = s1
    Lossy = FALSE
    Snapshots = FALSE
SYMMETRY Symmetry
SPECIFICATION LedSpec
INVARIANTS StateMachineSafety
CHECK_DEADLOCK FALSE
