\* One server thread, so that no requests overlap.
CONSTANTS
    HOLD = 3
    Presses = 2
    Threads = {t1}
    MaxReports = 3
SPECIFICATION Spec
INVARIANT FiledReportsStay
\* The presses and reports come to an end.
CHECK_DEADLOCK FALSE
