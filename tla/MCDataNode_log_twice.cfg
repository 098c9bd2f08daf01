SPECIFICATION Spec
CONSTANTS
    Conns = {c1}
    k1 = k1
    Keys = {k1}
    Requests <- GetOnly
    worker_thread_cnt = 1
    PIPE_BUF = 1
    HEAD_BUF = 3
    ClientMoves = {"reset"}
    Faults = {}
    None = None
SYMMETRY ConnSymmetry
INVARIANTS AssertionsHold
CHECK_DEADLOCK FALSE
