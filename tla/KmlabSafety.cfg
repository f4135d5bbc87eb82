\* Two processes, two callers and a worker, from insmod to rmmod; a report of two lines
\* does not fit.
CONSTANTS
    Pids = {p1, p2}
    Callers = {c1, c2}
    Workers = {k1}
    BUFS = 2
    BLOCKS = 2
    LINES = 1
    NoOne = NoOne
    MaxWork = 1
SYMMETRY Symmetry
SPECIFICATION Spec
INVARIANTS
    TypeOK
    NoPidTwice
    WalksAreCurrent
    RegisteredStaysListed
    ExitIsClean
    BuffersAreOwn
\* After rmmod, or once the kernel has stopped, nothing is left to do.
CHECK_DEADLOCK FALSE
