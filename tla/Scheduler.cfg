\* Three processes, all four algorithms.  Where the loop never ends under "block"
\* (SchedulerStuck), TimeBound stops the clock and with it the model.
CONSTANTS
    countPrime = 3
    TimeBound = 40
    Calls <- AllCalls
SPECIFICATION FairSpec
CHECK_DEADLOCK FALSE
INVARIANTS
    TypeOK
    EveryoneSomewhere
    TimesAddUp
    NoOverrun
    WorkConserving
    LatenessBounded
    OneAtATimeTogether
PROPERTIES
    ImplementsCpuQueue
    ListoutputsReturns
