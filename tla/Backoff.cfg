SPECIFICATION FairSpec
CONSTANTS
    Nil = Nil
    a = a
    b = b
    Calls = {a, b}
    Persistent = {a, b}
    Initial = 2
    Max = 5
    Attempts = 3
INVARIANT
    SingleProbe
PROPERTIES
    ImplementsBreaker
    EveryCallEnds
CHECK_DEADLOCK FALSE
