\* Two children, a list with room for both, every signal.
CONSTANTS
    Pids = {1, 2}
    MAXJOBS = 2
    Outside = {"INT", "TSTP", "CONT"}
    JidBound = 2
SPECIFICATION Spec
INVARIANTS
    TypeOK
    AtMostOneFG
    PromptHasNoFG
    ListedAreChildren
    ChildrenAreListed
    HandlerReapsAllListed
    NoMissedWakeup
