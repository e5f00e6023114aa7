SPECIFICATION Spec
CONSTANTS
    Names = {1, 2}
    Values = {"h"}
    MaxNodes = 8
    Conns = {1, 2, 3}
    ChaosRate <- MCChaosRate
    Long = {2}
    Configs <- MCConfigs
    MaxBreaks = 1
    Workers = {1, 2}
    Starts <- MCStarts
    RetryLimit = 1
    PoolSize = 1
    CopySizes = {1, 3}
CHECK_DEADLOCK FALSE
INVARIANTS
    ClosedMeansStored
    ConnectionsAccounted
    ReadsBack
    GivesUpLast
    FormatEmpties
    StaysStored
PROPERTIES
    CallsReturn
