\* FCFS with the arrivals of input-5.
CONSTANTS
    countPrime = 3
    TimeBound = 40
    Calls <- LateCalls
SPECIFICATION Spec
INVARIANTS
    WokenInTime
