CONSTANTS
    p1 = p1
    p2 = p2
    v1 = v1
    noValue = noValue
    NumTrees = 1
    Pages <- OnePage
    Values <- OneValue
    NoValue = noValue
    NonceValuesToReserve = 2
    MaxFlushNodes = 2
    MaxNonce = 5
    MaxErrors = 1

SPECIFICATION FairSpec
CHECK_DEADLOCK FALSE
INVARIANTS
    NoncesFresh
PROPERTIES
    WaitGroupSignalled
