SPECIFICATION FairSpec
CONSTANTS
    w1 = w1
    w2 = w2
    w3 = w3
    w4 = w4
    s1 = s1
    s2 = s2
    Workers = {w1, w2, w3, w4}
    Setters = {s1, s2}
    Requests <- MCRequests
    Default = 2
    NoRequest = NoRequest
INVARIANT
    NoLostWakeup
PROPERTIES
    EveryWorkerAdmitted
    ImplementsSemaphore
