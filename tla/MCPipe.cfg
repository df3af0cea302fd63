CONSTANTS
    p1 = p1  p2 = p2
    a = a  b = b
    Procs <- TwoProcs
    Bytes = {a, b}
    PIPESIZE = 2
    UINT = 4
    Messages <- MCMessages
    ReadSizes = {1, 2}
SPECIFICATION FairSpec
INVARIANTS PipeInv FreedIsUnused
PROPERTIES ImplementsByteQueue ReaderReturns
CHECK_DEADLOCK FALSE
