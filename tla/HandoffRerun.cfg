SPECIFICATION Spec
CONSTANTS
    Nil = Nil
    w1 = w1
    m1 = m1
    c1 = c1
    c2 = c2
    Workers = {w1}
    Messages = {}
    Calls = {}
INVARIANT
    FinishedNotRerun
CHECK_DEADLOCK FALSE
