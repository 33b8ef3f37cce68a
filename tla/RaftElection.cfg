CONSTANTS
    Server = {s1, s2, s3}
    Value = {a}
    Nil = Nil
    DummyNode = DummyNode
    MayTimeout = {s1, s2}
    MaxTerm = 2
    MaxIndex = 0
    MaxInFlight = 0
    Crashable = {s1, s2, s3}
    MaxQueue = 1
    FirstLeader = Nil
    Lossy = TRUE
    Snapshots = FALSE
SYMMETRY Symmetry
SPECIFICATION Spec
INVARIANTS OneVotePerTerm ElectionSafety PersistedIsCurrent ElectionInv
CHECK_DEADLOCK FALSE
