\* One line that a shorter object gets after a longer one, and a hit on it.
CONSTANTS
    Threads = {t1, t2}
    Requests <- TwoRequests
    NUM_CACHE_LINE = 1
    MAX_OBJECT_SIZE = 2
    Junk = Junk
    None = None
    MaxTime = 3
SPECIFICATION Spec
INVARIANTS
    SentIsTheObject
