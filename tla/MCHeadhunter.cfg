CONSTANTS
    p1 = p1
    p2 = p2
    v1 = v1
    noValue = noValue
    NumTrees = 2
    Pages <- OnePage
    Values <- OneValue
    NoValue = noValue
    NonceValuesToReserve = 9
    MaxFlushNodes = 3
    MaxNonce = 5
    MaxErrors = 0

SPECIFICATION Spec
INVARIANTS
    DurableReadable
    CleanNodesExist
    LayoutExact
    CheckpointDurable
PROPERTIES
    ImplementsDurableStore
