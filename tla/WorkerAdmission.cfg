SPECIFICATION Spec
CONSTANTS
    a1 = a1
    a2 = a2
    b1 = b1
    h1 = h1
    h2 = h2
    h3 = h3
    c1 = c1
    c2 = c2
    c3 = c3
    A = A
    B = B
    Nil = Nil
    Ids = {a1, b1}
    Roles = {A, B}
    RoleOf <- TwoRoles
    Handles = {h1, h2}
    Callers = {c1, c2}
    Tools = {"spawn", "resume", "cleanup"}
    Cap = 1
    Budget = 2
    ArchiveLimit = 1
    MaxGen = 2
SYMMETRY Symmetry
PROPERTY
    CapRespected
