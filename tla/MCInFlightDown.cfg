CONSTANTS
    f1 = f1
    f2 = f2
    t1 = t1
    g1 = g1
    g2 = g2
    Files <- TwoFiles
    Clients <- OneClient
    Goroutines <- TwoGoroutines
    Users <- Contexts
    Nobody = nobody
    poolCapacity = 1
    MaxReloads = 0
    MaxEntries = 2
    MaxSegments = 2
    MaxMishaps = 0

SPECIFICATION Spec
CHECK_DEADLOCK FALSE
INVARIANT DownFlushesAll
