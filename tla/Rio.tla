--------------------------------- MODULE Rio ---------------------------------
(***************************************************************************)
(* The buffered reader of csapp.c, rio_readinitb and rio_readlineb over    *)
(* rio_read, and rio_writen, on the connections of a server that serves    *)
(* one at a time.  The module has the variables and the steps; Tiny        *)
(* composes them with the server that calls them.                          *)
(*                                                                         *)
(* A step is one read or one write, which may move any part of what is     *)
(* asked for, or one byte moved to the caller.  A read interrupted by a    *)
(* signal (EINTR) leaves rio_cnt at -1; an interrupted write changes       *)
(* nothing.  Any other error ends the process in the wrappers.             *)
(***************************************************************************)
EXTENDS Integers, Sequences

CONSTANTS
    Conns,          \* connections, named for the clients
    NoConn,         \* none
    EOL,            \* the byte that ends a line
    RIO_BUFSIZE,    \* size of rio_buf
    MAXLINE         \* size of the caller's buffer

ASSUME RioAssumption ==
    /\ NoConn \notin Conns
    /\ RIO_BUFSIZE \in Nat \ {0}
    /\ MAXLINE \in Nat \ {0, 1}

VARIABLES
    wire,       \* for each connection, what has been sent and not been read
    shut,       \* for each connection, whether the client has closed it
    rio,        \* the rio_t: rio_fd, rio_cnt, rio_bufptr (an index) and rio_buf
    usrbuf,     \* the caller's buffer, as far as the current call has filled it
    reading,    \* rio_readlineb has been called and has not returned
    line,       \* what it returned last, empty for 0 (the end of the connection)
    got         \* for each connection, what the client has received

readVars == <<rio, usrbuf, reading, line>>
rioVars  == <<wire, shut, readVars, got>>

InitKeepsCount(c) == [rio EXCEPT !.fd = c]        \* mutant: rio_cnt not reset
rio_readinitb(c) == [fd |-> c, cnt |-> 0, bufptr |-> 1, buf |-> <<>>]

RioInit ==
    /\ wire = [c \in Conns |-> <<>>] /\ shut = [c \in Conns |-> FALSE]
    /\ rio = [fd |-> NoConn, cnt |-> 0, bufptr |-> 1, buf |-> <<>>]
    /\ usrbuf = <<>> /\ reading = FALSE /\ line = <<>>
    /\ got = [c \in Conns |-> <<>>]

\* The bytes of rio_buf that are still to be handed out.
Unread == SubSeq(rio.buf, rio.bufptr, rio.bufptr + rio.cnt - 1)

Smaller(a, b) == IF a < b THEN a ELSE b

\* The reader after a read that brought s.
Refilled(s) == [rio EXCEPT !.cnt = Len(s), !.buf = s, !.bufptr = 1]

Refill(k) ==
    /\ reading /\ rio.cnt <= 0
    /\ k \in 1 .. Smaller(Len(wire[rio.fd]), RIO_BUFSIZE)
    /\ rio' = Refilled(SubSeq(wire[rio.fd], 1, k))
    /\ wire' = [wire EXCEPT ![rio.fd] = SubSeq(@, k + 1, Len(@))]
    /\ UNCHANGED <<shut, usrbuf, reading, line, got>>

Interrupted ==
    /\ reading /\ rio.cnt <= 0
    /\ rio' = [rio EXCEPT !.cnt = -1]
    /\ UNCHANGED <<wire, shut, usrbuf, reading, line, got>>

\* rio_readlineb returns s.
Return(s) == reading' = FALSE /\ line' = s /\ usrbuf' = <<>>

FullAtSize(s) == Len(s) = MAXLINE                 \* mutant: n <= maxlen
\* The caller's buffer has room for the final 0 only.
Full(s) == Len(s) = MAXLINE - 1

\* One turn of the loop of rio_readlineb with a byte in rio_buf.
TakeByte ==
    LET c == rio.buf[rio.bufptr]
        s == Append(usrbuf, c)
    IN  /\ reading /\ rio.cnt > 0
        /\ rio' = [rio EXCEPT !.cnt = @ - 1, !.bufptr = @ + 1]
        /\ IF c = EOL \/ Full(s)
           THEN Return(s)
           ELSE usrbuf' = s /\ UNCHANGED <<reading, line>>
        /\ UNCHANGED <<wire, shut, got>>

PartialDropped == <<>>                            \* mutant: 0 although some data was read
\* What rio_readlineb returns at the end of the connection.
LastLine == usrbuf

\* read returns 0: the last line may lack its end.
EndOfFile ==
    /\ reading /\ rio.cnt <= 0
    /\ wire[rio.fd] = <<>> /\ shut[rio.fd]
    /\ rio' = [rio EXCEPT !.cnt = 0]
    /\ Return(LastLine)
    /\ UNCHANGED <<wire, shut, got>>

ReadStep == (\E k \in 1 .. RIO_BUFSIZE : Refill(k)) \/ TakeByte \/ EndOfFile

-----------------------------------------------------------------------------
\* What is left of s when write has taken k bytes.
Left(s, k) == SubSeq(s, k + 1, Len(s))

\* One write of rio_writen to client c, of s.
Written(c, s, k) == got' = [got EXCEPT ![c] = @ \o SubSeq(s, 1, k)]

-----------------------------------------------------------------------------
\* The bytes on the way, those in rio_buf and those already in the caller's buffer
\* are what the abstract stream has not given out.
Ahead(c) == IF c = rio.fd THEN usrbuf \o Unread \o wire[c] ELSE wire[c]
=============================================================================
