CONSTANTS
    c1 = c1
    c2 = c2
    Gid = {1, 2, 3}
    NShards = 3
    Server = {s1, s2}
    Clerk = {c1, c2}
    Script <- ChangeAndLook
    Nil = Nil
    MaxLog = 3
    Crashable = {s2}
SPECIFICATION Spec
INVARIANTS TypeOK ShardInv ConfigsUnique QueryFresh SharesCover StopsTogether
CHECK_DEADLOCK FALSE
