\* ctrl-c while the foreground job starts or ends.
CONSTANTS
    Pids = {1}
    MAXJOBS = 1
    Outside = {"INT"}
    JidBound = 2
SPECIFICATION Spec
PROPERTIES
    ShellSurvivesKeys
