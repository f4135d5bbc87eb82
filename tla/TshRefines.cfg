\* Three children, two slots: a child that the full list does not hold.
CONSTANTS
    Pids = {1, 2, 3}
    MAXJOBS = 2
    Outside = {}
    JidBound = 2
SPECIFICATION Spec
PROPERTIES
    ImplementsJobControl
