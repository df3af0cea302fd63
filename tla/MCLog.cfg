CONSTANTS
    p1 = p1  p2 = p2  p3 = p3
    Procs <- ThreeProcs
    Blocks = {A, B, C}
    Vals = {0, 1}
    InitVal = 0
    MAXOPBLOCKS = 2
    OpBlocks = 1
    LOGSIZE = 4
    NLOG = 4
SPECIFICATION FairSpec
INVARIANT LogInv
PROPERTIES ImplementsAtomicDisk SleeperIsWoken
