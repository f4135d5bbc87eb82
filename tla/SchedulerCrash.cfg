\* "block" with four processes that arrive together.
CONSTANTS
    countPrime = 4
    TimeBound = 40
    Calls <- TogetherCalls
SPECIFICATION Spec
INVARIANTS
    NeverCrashes
