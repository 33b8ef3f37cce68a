CONSTANTS
    Server = {s1, s2, s3}
    Value = {a}
    Nil = Nil
    DummyNode = DummyNode
    MayTimeout = {}
    MaxTerm = 2
    MaxIndex = 2
    MaxInFlight = 1
    Crashable = {s1, s2, s3}
    MaxQueue = 1
    FirstLeader = s1
    Lossy = TRUE
    Snapshots = TRUE
SYMMETRY Symmetry
SPECIFICATION CompactionSpec
INVARIANTS LogShape SnapshotHeadsLog CompactedWasCommitted
CHECK_DEADLOCK FALSE
