CONSTANTS
    MaxOps = 3
    HasTimeout = TRUE
    Histories <- MCHistories
    Nil = Nil
SPECIFICATION Spec
INVARIANTS SearchConsistent VerdictRight PartialsLongest CheckerInv
PROPERTY CheckReturns
CHECK_DEADLOCK FALSE
