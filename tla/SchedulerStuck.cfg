\* "block" with three processes that arrive at any of three times.
CONSTANTS
    countPrime = 3
    TimeBound = 40
    Calls <- BlockCalls
SPECIFICATION Spec
INVARIANTS
    SomethingLeftToDo
