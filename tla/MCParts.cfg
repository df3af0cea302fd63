CONSTANTS
    p1 = p1  p2 = p2
    f1 = f1  f2 = f2  f3 = f3  f4 = f4  f5 = f5
    NULL = NULL  NONE = NONE  LAZY = LAZY
    Procs = {p1, p2}
    PAGESIZE = 10
    MINALLOC = 2
    Sizes <- PositiveSizes
    ElasticPage = 6
    ElasticMin = 2
    NPAGES = 2
    ElasticSizes = {1, 2, 4, 8}
    HeapCore = 4
    HeapLimit = 10
    HeapRequests = {0, 1, 4}
    HeapSbrk = 1
    LazyFrames = {f1, f2, f3}
    LazyVals = {1}
    LazyZero = 0
    LazyJunk = 1
    PGSIZE = 2
    LazyPages = 2
    Sbrks <- HalfPages
    Mmaps = {2, 3}
    INPUT_BUF = 2
    UINT = 4
    Chars = {"a"}
    ReadSizes = {1, 2}
    CPUs = {p1, p2}
    NLOCKS = 3
    Files = {1, 2}
    NDIRECT = 1
    NINDIRECT = 3
    MAXOPBLOCKS = 6
    BSIZE = 2
    NBLOCKS = 5
    FileVals <- TwoFileVals
    FileSizes <- TwoFileSizes
    ExecFrames = {f1, f2, f3, f4, f5}
    ExecPages = 2
    ExecSegs = 2
SYMMETRY Symmetric
SPECIFICATION PartsSpec
INVARIANTS BitmapMatchesTable NoDoubleBooking RefusedOnlyWhenFull
           EallocBytesMatchChunks UmallocBlocksTileHeap LazyFramesAccounted
           ConsoleReadersHaveReason FileBlocksAccounted FilePartFitsTransaction
           SpinlockExclusive SpinlockInterruptsNested ExecLeaksNothing
PROPERTIES EallocGrowsOnlyWhenFull LazyImplementsEagerMem ConsoleImplementsLineQueue FileImplementsFileStore
CHECK_DEADLOCK FALSE
