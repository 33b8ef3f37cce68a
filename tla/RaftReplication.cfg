CONSTANTS
    Server = {s1, s2, s3}
    Value = {a, b}
    Nil = Nil
    DummyNode = DummyNode
    MayTimeout = {s3}
    MaxTerm = 2
    MaxIndex = 2
    MaxInFlight = 2
    Crashable = {s1}
    MaxQueue = 1
    FirstLeader = s1
    Lossy = TRUE
    Snapshots = FALSE
SYMMETRY Symmetry
CONSTRAINT FewCalls
ACTION_CONSTRAINT PromptServices
SPECIFICATION ReplicationSpec
INVARIANTS TypeOK LogShape LogMatching MatchInLog LogInv
PROPERTIES AcknowledgedIsHeld LeaderAppendOnly
CHECK_DEADLOCK FALSE
