CONSTANTS
    Server = {s1, s2}
    Clerk = {c1, c2}
    Key = {k}
    Value = {v, w}
    Op <- AppendOps
    Nil = Nil
    MaxCommand <- TwoEach
    MaxRepeats = 1
    Crashable = {s1, s2}
    Lossy = TRUE
    Snapshots = TRUE
SYMMETRY Symmetry
CONSTRAINT OneClerkOrNoSnapshot
SPECIFICATION Spec
INVARIANTS TypeOK ReplicasAgree KVInv
PROPERTIES Linearizable
CHECK_DEADLOCK FALSE
