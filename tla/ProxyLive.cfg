\* The fair specification: three threads compete for mutex, w and one line.
CONSTANTS
    Threads = {t1, t2, t3}
    Requests <- OneRequest
    NUM_CACHE_LINE = 1
    MAX_OBJECT_SIZE = 2
    Junk = Junk
    None = None
    MaxTime = 3
SPECIFICATION FairSpec
PROPERTIES
    EveryRequestEnds
