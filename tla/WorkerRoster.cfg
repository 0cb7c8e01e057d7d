SPECIFICATION Spec
CONSTANTS
    a1 = a1
    a2 = a2
    b1 = b1
    h1 = h1
    h2 = h2
    h3 = h3
    c1 = c1
    c2 = c2
    c3 = c3
    A = A
    B = B
    Nil = Nil
    Ids = {a1}
    Roles = {A}
    RoleOf <- OneId
    Handles = {h1, h2}
    Callers = {c1, c2}
    Tools = {"spawn", "resume", "wait", "close", "stats", "shutdown"}
    Cap = 1
    Budget = 1
    ArchiveLimit = 1
    MaxGen = 2
SYMMETRY Symmetry
INVARIANTS
    OneLifePerId
    Owed
    CollectedHasEnded
PROPERTIES
    DebtKept
    ImplementsLedger
