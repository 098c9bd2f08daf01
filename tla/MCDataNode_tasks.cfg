SPECIFICATION Spec
CONSTANTS
    Conns = {c1, c2}
    k1 = k1
    Keys = {k1}
    Requests <- TaskRequests
    worker_thread_cnt = 2
    PIPE_BUF = 2
    HEAD_BUF = 3
    ClientMoves = {"close", "reset"}
    Faults = {"nomem", "find", "read", "update"}
    None = None
SYMMETRY ConnSymmetry
INVARIANTS TypeOK OneOwner  LoggedTasksLeave
PROPERTIES DropsJustified
CHECK_DEADLOCK FALSE
