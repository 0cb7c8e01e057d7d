SPECIFICATION Spec
CONSTANTS
    Nil = Nil
    Ticker = Ticker
    w1 = w1
    w2 = w2
    th1 = th1
    c1 = c1
    c2 = c2
    ThreadOf <- Mixed
    OneShots = {w2}
    Waits = {w1, w2}
    Threads = {th1}
    Clients = {c1}
    Cap = 1
    StartErrors = FALSE
    MaxRun = 2
    MaxTurn = 2
    MaxCrash = 1
INVARIANTS
    RunningRunHasOwner
CHECK_DEADLOCK FALSE
