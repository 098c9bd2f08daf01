SPECIFICATION Spec
CONSTANTS
    BEGINNING_SIZE = 1
    LARGEST_SIZE = 2
    MAX_BLOCK_CNT = 3
    largest_size = 1
    INT_MAX = 7
    Workers = {w1, w2}
    Buckets = {b1, b2}
    Keys = {k1}
    s1 = s1
    s2 = s2
    l1 = l1
    x1 = x1
    h1 = h1
    Data = {s1, h1}
    DataSize <- MCDataSize
    None = None
    Torn = Torn
    Ops = {"get", "set", "del"}
    MAX_FREE_SLOTS = 1
    Faults = {"find", "put", "del", "pwrite", "pread", "nomem"}
    MaxSlot = 3
    MaxHolds = 0
SYMMETRY WorkerSymmetry
INVARIANTS TypeOK NoSharedSlot LocksReturned
CHECK_DEADLOCK FALSE
