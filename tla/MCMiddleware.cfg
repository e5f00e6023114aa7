SPECIFICATION Spec
CONSTANTS
    Names = {2, 3}
    MaxInode = 8
    Targets <- MCTargets
    Clients = {c1, c2}
    Volumes <- MCVolumes
    MaxCalls = 2
    Paths <- MCPaths
    Merges <- MCMerges
    MaxSymlinks = 2
INVARIANTS
    LinkCountsMatch
    EntriesRefer
    NoInodeLost
    DotDotIsParent
    NoLockLeft
    LockOrderIsDownward
PROPERTIES
    OnlyHoldersChange
    NonEmptyDirsStayOtherwise
SYMMETRY MCSymmetry
CHECK_DEADLOCK FALSE
