CONSTANTS
    p1 = p1  p2 = p2
    a = a  b = b
    NONE = NONE
    Procs = {p1, p2}
    Names = {a, b}
    Ninodes = 3
    NINODE = 3
    ROOTINO = 1
    Paths <- Cycle
SPECIFICATION Spec
INVARIANTS NoWaitCycle
CHECK_DEADLOCK FALSE
