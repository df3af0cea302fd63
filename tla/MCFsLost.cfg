CONSTANTS
    p1 = p1  p2 = p2
    a = a  b = b
    NONE = NONE
    Procs = {p1, p2}
    Names = {a, b}
    Ninodes = 3
    NINODE = 3
    ROOTINO = 1
    Paths <- Lost
SPECIFICATION Spec
INVARIANT NoInodeLost
CHECK_DEADLOCK FALSE
