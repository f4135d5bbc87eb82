\* Two server threads with three reports, and two presses of the button.
CONSTANTS
    HOLD = 3
    Presses = 2
    Threads = {t1, t2}
    MaxReports = 3
SPECIFICATION Spec
INVARIANTS
    FiledInOrder
    AlertAfterHold
\* The presses and reports come to an end.
CHECK_DEADLOCK FALSE
