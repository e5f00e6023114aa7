CONSTANTS
    c1 = c1
    c2 = c2
    c3 = c3
    c4 = c4
    l1 = l1
    l2 = l2
    Callers <- Three
    Locks <- OneLock
    MaxList = 5

SPECIFICATION FairSpec
PROPERTIES
    NoOvertaking
    ImplementsRWLock
    EveryRequestGranted
