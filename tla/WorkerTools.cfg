SPECIFICATION FairSpec
CONSTANTS
    a1 = a1
    a2 = a2
    b1 = b1
    h1 = h1
    h2 = h2
    h3 = h3
    c1 = c1
    c2 = c2
    c3 = c3
    A = A
    B = B
    Nil = Nil
    Ids = {a1}
    Roles = {A}
    RoleOf <- OneId
    Handles = {h1}
    Callers = {c1, c2}
    Tools = {"spawn", "resume", "wait", "close", "send", "observe", "shutdown", "reset"}
    Cap = 1
    Budget = 1
    ArchiveLimit = 1
    MaxGen = 2
INVARIANT
    TimeoutBudgetKept
PROPERTIES
    ClosedWorkerEnds
    SettledFreesObservers
