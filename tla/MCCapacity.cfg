SPECIFICATION Spec
CONSTANTS
    N = 2
    GuestRam = 2
    GuestDisk = 2
    BuilderRam = 1
    BuilderDisk = 2
    ImageMax = 1
    TotalRam = 4
    RamReserve = 1
    TotalDisk = 7
    DiskReserve = 1
    ForeignDisk = 1
    DiskBudget = 5
    CacheMax = 2
    MaxMoves = 4
    Wrap = 16
INVARIANTS
    MemoryPromisesFit
    DiskGrowthReserved
