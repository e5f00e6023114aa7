CONSTANTS
    t1 = t1
    t2 = t2
    i1 = i1
    i2 = i2
    i3 = i3
    n1 = n1
    n2 = n2
    n3 = n3
    n4 = n4
    n5 = n5
    none = none
    Threads <- OneThread
    Inodes <- OneInode
    Numbers <- ThreeNumbers
    None = none
    MaxErrors = 1
SPECIFICATION FairSpec
PROPERTIES
    OperationsReturn
    DeletesHappen
