SPECIFICATION FairSpec
CONSTANTS
    Conns = {c1, c2}
    k1 = k1
    Keys = {k1}
    Requests <- KVRequests
    worker_thread_cnt = 1
    PIPE_BUF = 1
    HEAD_BUF = 3
    ClientMoves = {"close", "stall"}
    Faults = {}
    None = None
PROPERTIES ServesKVStore ConnectionsEnd
CHECK_DEADLOCK FALSE
