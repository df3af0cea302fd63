CONSTANTS
    p1 = p1  p2 = p2  p3 = p3
    f1 = f1  f2 = f2  f3 = f3  f4 = f4
    Procs <- MCProcs
    initproc = p1
    Frames <- MCFrames
    NPAGES = 2
    InitPages = 1
    Guard <- NoPages
    Far = Far
    Touched <- BothPages
    Vals = {a, Zero}
    Zero = Zero
    Junk = Junk
    NCPU = 2
    NONE = NONE
SPECIFICATION Spec
SYMMETRY Symmetric
PROPERTY ImplementsFork
CHECK_DEADLOCK FALSE
