\* Three threads, three requests for two keys, two lines and objects of two sizes: two
\* threads that miss the same key fill both lines and evict both, an object gets the
\* line of a longer one, and a line is touched after it was given to another key.
CONSTANTS
    Threads = {t1, t2, t3}
    Requests <- ThreeRequests
    NUM_CACHE_LINE = 2
    MAX_OBJECT_SIZE = 2
    Junk = Junk
    None = None
    MaxTime = 4
SYMMETRY Symmetry
SPECIFICATION Spec
INVARIANTS
    TypeOK
    WriterAlone
    ServesWhatWasAsked
    StampsDistinct
PROPERTIES
    EvictsOldest
    ImplementsObjectCache
