----------------------------- MODULE LineStream -----------------------------
(***************************************************************************)
(* What the buffered reader of csapp.c promises: the bytes of each         *)
(* connection come out in order, each once, a line at a time, whatever     *)
(* the sizes in which they arrive.                                         *)
(***************************************************************************)
EXTENDS Naturals, Sequences

CONSTANTS
    Conns,      \* connections
    Bytes,      \* what a connection carries
    EOL,        \* the byte that ends a line
    MAXLINE     \* size of the caller's buffer, the final 0 included

VARIABLES
    rest,       \* for each connection, what has been sent and not been given out
    ended,      \* for each connection, whether the sender has closed it
    line        \* the line given out last, empty at the end of a connection

vars == <<rest, ended, line>>

Smaller(a, b) == IF a < b THEN a ELSE b

HasEOL(s)   == \E i \in 1 .. Len(s) : s[i] = EOL
FirstEOL(s) == CHOOSE i \in 1 .. Len(s) : s[i] = EOL /\ \A j \in 1 .. i - 1 : s[j] # EOL

\* The length of the line that s begins with: up to the end of line, as far as the
\* caller's buffer goes.
LineLen(s) == Smaller(IF HasEOL(s) THEN FirstEOL(s) ELSE Len(s), MAXLINE - 1)

\* The line is there: no byte that may still come can belong to it.
LineReady(s, end) == end \/ HasEOL(s) \/ Len(s) >= MAXLINE - 1

Init ==
    /\ rest = [c \in Conns |-> <<>>]
    /\ ended = [c \in Conns |-> FALSE]
    /\ line = <<>>

\* Bytes are added at the end.
Send(c) ==
    LET more == rest'[c]
    IN  /\ ~ended[c]
        /\ more \in Seq(Bytes) /\ Len(more) > Len(rest[c])
        /\ SubSeq(more, 1, Len(rest[c])) = rest[c]
        /\ rest' = [rest EXCEPT ![c] = more]
        /\ UNCHANGED <<ended, line>>

End(c) == ended' = [ended EXCEPT ![c] = TRUE] /\ UNCHANGED <<rest, line>>

Give(c) ==
    LET n == LineLen(rest[c])
    IN  /\ LineReady(rest[c], ended[c])
        /\ line' = SubSeq(rest[c], 1, n)
        /\ rest' = [rest EXCEPT ![c] = SubSeq(@, n + 1, Len(@))]
        /\ UNCHANGED ended

\* The receiver closes the connection; what it has not read is lost.
Drop(c) == rest' = [rest EXCEPT ![c] = <<>>] /\ UNCHANGED <<ended, line>>

Next ==
    \E c \in Conns : Send(c) \/ End(c) \/ Give(c) \/ Drop(c)

Spec == Init /\ [][Next]_vars
=============================================================================
