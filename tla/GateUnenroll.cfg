CONSTANTS
    Machines = {m1}
    Conns = {c1}
    Deleters = {d1}
    ReqBuf = 1
    None = None
SPECIFICATION Spec
INVARIANT UnenrolledIsOffline
CHECK_DEADLOCK FALSE
