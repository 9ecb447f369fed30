SPECIFICATION FairSpec
CONSTANTS
    master = master
    a = a
    b = b
    c = c
    Procs = {p1, p2}
    Projects = {master, a, b, c}
    Master = master
    PrimaryPortMin = 50000
    PrimaryPortMax = 50002
    Inodes = {i1, i2, i3, i4, i5}
    Settings <- Both
    NoProc = NoProc
    NoPort = NoPort
    NoInode = NoInode
    NoProject = NoProject
INVARIANT TypeOK
INVARIANT MasterPortReserved
INVARIANT SerialUniquePorts
PROPERTY RefinesPortRegistry
PROPERTY LockGranted
