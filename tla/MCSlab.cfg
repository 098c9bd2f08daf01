SPECIFICATION Spec
CONSTANTS
    POWER_LARGEST = 5
    POWER_BLOCK = 32
    CHUNK_ALIGN_BYTES = 4
    TINY_SIZE = 12
    FactorNum = 4
    FactorDen = 3
    Threads = {t1, t2}
    Sizes = {8, 13, 29}
    HEAD_SIZE = 4
    mem_limit = 64
    LIST_SIZE = 1
    SLOTS_SIZE = 2
    Faults = {"malloc", "list", "slots"}
    MaxPages = 3
    MaxMallocs = 1
    MaxLive = 3
    MaxDropped = 1
    None = None
SYMMETRY ThreadSymmetry
INVARIANTS TypeOK ChunksPartitioned SmallestClassServes ReallocCopies
PROPERTY GrowthWithinLimit
