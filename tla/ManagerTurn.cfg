SPECIFICATION FairSpec
CONSTANTS
    Nil = Nil
    c1 = c1
    m1 = m1
    Clients = {c1}
    Steers = {m1}
    MaxTurn = 2
INVARIANTS
    OneOwner
    DoneTurnReadSteers
    RetractedUnread
    PreemptNotFailure
PROPERTIES
    PreemptLands
    StopEnds
CHECK_DEADLOCK FALSE
