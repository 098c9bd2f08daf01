SPECIFICATION FairSpec
CONSTANTS
    BEGINNING_SIZE = 1
    LARGEST_SIZE = 2
    MAX_BLOCK_CNT = 3
    largest_size = 2
    INT_MAX = 7
    Workers = {w1, w2}
    Buckets = {b1}
    Keys = {k1}
    s1 = s1
    s2 = s2
    l1 = l1
    x1 = x1
    h1 = h1
    Data = {s1, l1}
    DataSize <- MCDataSize
    None = None
    Torn = Torn
    Ops = {"get", "set", "del"}
    MAX_FREE_SLOTS = 2
    Faults = {"journal"}
    MaxSlot = 4
    MaxHolds = 0
INVARIANTS IndexedDataIntact
PROPERTIES Linearizable CallsFinish
