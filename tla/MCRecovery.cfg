SPECIFICATION RSpec
CONSTANTS
    BEGINNING_SIZE = 1
    LARGEST_SIZE = 2
    MAX_BLOCK_CNT = 3
    largest_size = 2
    INT_MAX = 7
    Workers = {w1}
    Buckets = {b1}
    Keys = {k1, k2}
    s1 = s1
    l1 = l1
    Data = {s1, l1}
    DataSize <- MCDataSize
    None = None
    Torn = Torn
    Ops = {"get", "set", "del"}
    MAX_FREE_SLOTS = 2
    Faults = {}
    MaxSlot = 3
    MaxHolds = 0
    OpenFaults = {"data", "index", "journal"}
    MaxStops = 1
    MaxCalls = 4
SYMMETRY KeySymmetry
INVARIANTS RestartIsSafe JournalMatchesOpenedIndex HaltKeepsAll
CHECK_DEADLOCK FALSE
