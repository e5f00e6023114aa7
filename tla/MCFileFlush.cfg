CONSTANTS
    t1 = t1
    t2 = t2
    i1 = i1
    i2 = i2
    i3 = i3
    n1 = n1
    n2 = n2
    n3 = n3
    n4 = n4
    n5 = n5
    none = none
    Threads <- TwoThreads
    Inodes <- TwoInodes
    Numbers <- FourNumbers
    None = none
    MaxErrors = 0
SPECIFICATION Spec
SYMMETRY Symmetry
INVARIANTS
    DurableSegmentsKept
    SegmentsNotShared
    CleanMatchesStore
    DataReadable
    PayloadKept
