CONSTANTS
    c1 = c1  c2 = c2
    NPROC = 3
    CPUs <- TwoCPUs
    MaxPid = 3
    MaxSpawn = 1
    MaxSleep = 1
    KillPids = {2}
    TICKS = TICKS
    NONE = NONE
SPECIFICATION FairSpec
PROPERTIES NoStarvation OrphanReaped KilledExits
