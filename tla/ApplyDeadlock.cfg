CONSTANTS
    RaftRPC = {r1, r2}
    Handler = {h1, h2}
    Capacity = 2
    MaxIndex = 4
    Installed = {}
    MayKill = FALSE
    Nil = Nil
SPECIFICATION Spec
PROPERTY StartReturns
CHECK_DEADLOCK FALSE
