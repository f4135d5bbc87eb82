\* fg on a job that ends before do_bgfg reads its pid.
CONSTANTS
    Pids = {1}
    MAXJOBS = 1
    Outside = {}
    JidBound = 2
SPECIFICATION FairSpec
PROPERTIES
    WaitfgAlwaysReturns
