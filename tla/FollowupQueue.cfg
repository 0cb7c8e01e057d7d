SPECIFICATION FairSpec
CONSTANTS
    Nil = Nil
    c1 = c1
    c2 = c2
    m1 = m1
    m2 = m2
    Clients = {c1}
    Messages = {m1}
    Errors = TRUE
    MaxTries = 2
    MaxTurn = 3
    MaxFault = 1
    MaxSeq = 1
    MaxCrash = 1
INVARIANTS
    MessageInOnePlace
    RunningRowOwned
PROPERTIES
    ImplementsMailbox
    CallsReturn
CHECK_DEADLOCK FALSE
