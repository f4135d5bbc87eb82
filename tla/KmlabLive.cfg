\* The fair specification: a caller, two workers and rmmod contend for the lock; every
\* report with a line goes past its buffer.
CONSTANTS
    Pids = {p1}
    Callers = {c1}
    Workers = {k1, k2}
    BUFS = 1
    BLOCKS = 2
    LINES = 0
    NoOne = NoOne
    MaxWork = 2
SPECIFICATION FairSpec
PROPERTIES
    EndedAreDropped
    RmmodReturns
CHECK_DEADLOCK FALSE
