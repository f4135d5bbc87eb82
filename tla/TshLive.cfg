\* Liveness with two children and no signals from outside.
CONSTANTS
    Pids = {1, 2}
    MAXJOBS = 2
    Outside = {}
    JidBound = 2
SPECIFICATION FairSpec
PROPERTIES
    ZombiesReaped
    WaitfgReturns
