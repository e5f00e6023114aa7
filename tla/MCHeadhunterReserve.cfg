CONSTANTS
    p1 = p1
    p2 = p2
    v1 = v1
    noValue = noValue
    NumTrees = 2
    Pages <- OnePage
    Values <- OneValue
    NoValue = noValue
    NonceValuesToReserve = 2
    MaxFlushNodes = 2
    MaxNonce = 7
    MaxErrors = 0
SPECIFICATION Spec
INVARIANTS
    DurableReadable
