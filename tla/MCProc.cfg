CONSTANTS
    c1 = c1  c2 = c2
    NPROC = 4
    CPUs <- TwoCPUs
    MaxPid = 4
    MaxSpawn = 2
    MaxSleep = 0
    KillPids = {1, 2}
    TICKS = TICKS
    NONE = NONE
SPECIFICATION Spec
INVARIANTS OneProcessorEach EmbryoHasOneCreator ProcInv
