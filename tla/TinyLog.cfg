\* The clients and the files of Tiny.cfg.
CONSTANTS
    Conns = {c1, c2}
    NoConn = NoConn
    EOL = "lf"
    RIO_BUFSIZE = 3
    MAXLINE = 5
    Requests <- RequestsOf
    c1 = c1
    c2 = c2
    Disks <- SomeDisks
SPECIFICATION Spec
INVARIANT ClientsGetNoLog
\* The clients may all have been served, or the server have ended.
CHECK_DEADLOCK FALSE
