SPECIFICATION FairSpec
CONSTANTS
    Nil = Nil
    s1 = s1
    s2 = s2
    old = old
    new = new
    Shells = {s1, s2}
    BuildOf <- TwoBuilds
    MaxEngine = 3
    MaxFault = 1
INVARIANTS
    OneDatabase
    ServingIsPublished
PROPERTIES
    ImplementsService
    ShellSettles
    UnusedEngineExits
CHECK_DEADLOCK FALSE
