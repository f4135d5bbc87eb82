\* Two workers, one caller and two processes, from insmod to rmmod.
CONSTANTS
    Pids = {p1, p2}
    Callers = {c1}
    Workers = {k1, k2}
    BUFS = 1
    BLOCKS = 2
    LINES = 1
    NoOne = NoOne
    MaxWork = 2
SYMMETRY Symmetry
SPECIFICATION Spec
INVARIANTS
    WalksAreCurrent
    RegisteredStaysListed
    ExitIsClean
\* After rmmod, or once the kernel has stopped, nothing is left to do.
CHECK_DEADLOCK FALSE
