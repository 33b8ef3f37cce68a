CONSTANTS
    Server = {0, 1}
    Client = {ck}
    Call = {c1}
    MaxGen = 2
    Nil = Nil
SPECIFICATION Spec
INVARIANTS TesterInv PositiveReplyDurable OldInstanceSilent
PROPERTY CallReturns
CHECK_DEADLOCK FALSE
