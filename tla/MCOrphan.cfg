SPECIFICATION RunSpec
CONSTANTS
    NINODES = 6
    FSSIZE = 14
    NMETA = 2
    BSIZE = 2
    NDIRECT = 1
    DIRSIZ = 2
    p1 = p1
    p2 = p2
    Procs = {p1, p2}
    NoProc = NoProc
    NINODE = 5
    Files0 <- MCFiles0
    MAXWRITE = 2
    Programs <- MCPrograms
INVARIANTS NoOrphan
CHECK_DEADLOCK FALSE
