CONSTANTS
    p1 = p1  p2 = p2
    NONE = NONE
    Procs = {p1, p2}
    NBUF = 3
    Blocks = {1, 2, 3, 4}
    Values = {0, 1}
    Zero = 0
    Written = {1}
    MaxHeld <- OneEach
    MaxPinned = 1
SPECIFICATION FairSpec
INVARIANT BufInv
PROPERTIES ImplementsBlockStore RequestsComplete
CHECK_DEADLOCK FALSE
