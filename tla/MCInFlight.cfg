CONSTANTS
    f1 = f1
    f2 = f2
    t1 = t1
    g1 = g1
    g2 = g2
    Files <- TwoFiles
    Clients <- OneClient
    Goroutines <- TwoGoroutines
    Users <- Contexts
    Nobody = nobody
    poolCapacity = 1
    MaxReloads = 1
    MaxEntries = 2
    MaxSegments = 2
    MaxMishaps = 1

SPECIFICATION Spec
SYMMETRY Symmetry
CHECK_DEADLOCK FALSE
INVARIANTS
    SlotsExact
    StarversMatch
    ListInMap
    UnflushedIsKnown
