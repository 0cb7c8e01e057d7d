SPECIFICATION FairSpec
CONSTANTS
    Nil = Nil
    w1 = w1
    m1 = m1
    c1 = c1
    c2 = c2
    Workers = {w1}
    Messages = {m1}
    Calls = {c1, c2}
INVARIANTS
    EffectsAccounted
    FinishedIsReal
    ReadyKeepsFinished
    SteeringKeptWhenSettled
PROPERTY
    HandoffEnds
CHECK_DEADLOCK FALSE
