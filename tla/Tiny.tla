-------------------------------- MODULE Tiny --------------------------------
(***************************************************************************)
(* The Tiny web server (tiny.c), which serves one connection at a time,    *)
(* with the reader and writer of csapp.c (module Rio), its clients, the    *)
(* files it serves, and the CGI program adder (cgi-bin/adder.c).           *)
(*                                                                         *)
(* A byte of the model is a word of a line, a carriage return or a line    *)
(* feed.  The text of an answer is its status, its headers and its body.   *)
(* Tiny does not ignore SIGPIPE and its wrappers exit on errors: either    *)
(* way the process ends (Exit).                                            *)
(***************************************************************************)
EXTENDS Rio

CONSTANTS
    Requests,   \* for each client, what it may send
    Disks       \* states of the files when the server starts

VARIABLES
    toSend,     \* for each client, what it has still to send
    asked,      \* for each client, all it means to send
    queue,      \* connections waiting for accept
    pc,         \* where the server is
    uri,        \* the uri of the request
    hdr,        \* buf of read_requesthdrs holds the blank line
    out,        \* what Rio_writen is writing, and what is to be written after it
    after,      \* where the server goes when that is written
    disk,       \* the state of each file
    child,      \* the CGI program
    served      \* connections the server has closed

clientVars == <<toSend, asked, queue>>
serverVars == <<pc, uri, hdr, out, after, child, served>>
vars == <<rioVars, clientVars, serverVars, disk>>

CR    == "cr"
Blank == <<CR, EOL>>
GET   == "get"

Methods == {GET, "post"}
Uris    == {"/", "cgi-bin/adder?1&2", "cgi-bin/adder"}
Files   == {"home.html", "cgi-bin/adder"}
Kinds   == {"none", "unreadable", "empty", "data"}

\* What printf still holds of the lines it logs, of this request and of earlier ones.
Log == "log"

\* A directory stands for its home.html; what follows the '?' is the argument string.
parse_uri(u) ==
    CASE u = "/"                 -> [static |-> TRUE,  filename |-> "home.html",     args |-> ""]
      [] u = "cgi-bin/adder?1&2" -> [static |-> FALSE, filename |-> "cgi-bin/adder", args |-> "1&2"]
      [] u = "cgi-bin/adder"     -> [static |-> FALSE, filename |-> "cgi-bin/adder", args |-> ""]
Static(u) == parse_uri(u).static
File(u)   == parse_uri(u).filename
HasAmp(u) == parse_uri(u).args = "1&2"

\* sscanf of the request line; what it does not find is whatever the buffers held.
Words(s)   == SelectSeq(s, LAMBDA w : w \notin {CR, EOL})
MethodsIn(s) == IF Len(Words(s)) >= 1 THEN {Words(s)[1]} ELSE Methods
UrisIn(s)    == IF Len(Words(s)) >= 2 THEN {Words(s)[2]} ELSE Uris

\* What a connection carries; "h" is a word of a header.  The second word of a request
\* is a uri, however short the buffer cuts it.
Bytes == {CR, EOL, "h"} \cup Methods \cup Uris

ASSUME TinyAssumption ==
    /\ \A c \in Conns : \A s \in Requests[c] :
          s \in Seq(Bytes) /\ \A n \in 0 .. Len(s) : UrisIn(SubSeq(s, 1, n)) \subseteq Uris
    /\ Disks \subseteq [Files -> Kinds]

TinyInit ==
    /\ RioInit
    /\ asked \in [Conns -> UNION {Requests[c] : c \in Conns}]
    /\ \A c \in Conns : asked[c] \in Requests[c]
    /\ toSend = asked
    /\ queue = <<>> /\ pc = "accept" /\ uri = "/" /\ hdr = FALSE
    /\ out = <<>> /\ after = "accept" /\ child = "none" /\ served = {}
    /\ disk \in Disks

-----------------------------------------------------------------------------
(* The clients and the files. *)

Connected(c) == pc # "exited" /\ c \in {queue[i] : i \in 1 .. Len(queue)} \cup {rio.fd}

Connect(c) ==
    /\ ~Connected(c) /\ c \notin served /\ pc # "exited"
    /\ queue' = Append(queue, c)
    /\ UNCHANGED <<rioVars, toSend, asked, serverVars, disk>>

\* A client sends a line at a time.
ClientSends(c) ==
    LET s == toSend[c]
        n == CHOOSE i \in 1 .. Len(s) :
                /\ s[i] = EOL \/ i = Len(s)
                /\ \A j \in 1 .. i - 1 : s[j] # EOL
    IN  /\ Connected(c) /\ ~shut[c] /\ s # <<>>
        /\ wire' = [wire EXCEPT ![c] = @ \o SubSeq(s, 1, n)]
        /\ toSend' = [toSend EXCEPT ![c] = SubSeq(s, n + 1, Len(s))]
        /\ UNCHANGED <<shut, readVars, got, asked, queue, serverVars, disk>>

\* A client closes its connection, at the end or before.
ClientCloses(c) ==
    /\ Connected(c) /\ ~shut[c]
    /\ shut' = [shut EXCEPT ![c] = TRUE]
    /\ UNCHANGED <<wire, readVars, got, clientVars, serverVars, disk>>

\* Somebody removes a file.
FileGone(f) ==
    /\ disk[f] = "data" /\ pc # "exited"
    /\ disk' = [disk EXCEPT ![f] = "none"]
    /\ UNCHANGED <<rioVars, clientVars, serverVars>>

-----------------------------------------------------------------------------
(* The server: main, doit and what they call. *)

At(p)  == pc = p
GoTo(p) == pc' = p
Call   == reading' = TRUE /\ UNCHANGED <<wire, shut, rio, usrbuf, line, got>>

\* Accept, Getnameinfo, Rio_readinitb and the first call of Rio_readlineb.
Accept ==
    /\ At("accept") /\ queue # <<>>
    /\ queue' = Tail(queue)
    /\ rio' = rio_readinitb(Head(queue))
    /\ reading' = TRUE
    /\ GoTo("request")
    /\ UNCHANGED <<wire, shut, usrbuf, line, got, toSend, asked, uri, hdr, out, after, child,
                   served, disk>>

\* Any wrapper whose system call fails, or SIGPIPE.
Exit ==
    /\ pc \notin {"exited", "stat"}
    /\ GoTo("exited")
    /\ UNCHANGED <<rioVars, clientVars, uri, hdr, out, after, child, served, disk>>

\* Answer with the pieces of ps, then go to p.
Answer(ps, p) == out' = ps /\ after' = p /\ GoTo("write")

clienterror(status) == <<<<status, "headers">>, <<"page">>>>
ServeStatic         == <<<<"200", "headers">>>>
ServeDynamic        == <<<<"200", "headers">>>>

\* The request line has been read.  read_requesthdrs is called with an uninitialized
\* buf.
DoRequest ==
    /\ At("request") /\ ~reading
    /\ \E m \in MethodsIn(line), u \in UrisIn(line) :
          \/ /\ line = <<>> /\ GoTo("close")
             /\ UNCHANGED <<rioVars, uri, hdr, out, after>>
          \/ /\ line # <<>> /\ m # GET /\ Answer(clienterror("501"), "close")
             /\ UNCHANGED <<rioVars, uri, hdr>>
          \/ /\ line # <<>> /\ m = GET /\ GoTo("headers")
             /\ uri' = u /\ hdr' \in BOOLEAN
             /\ Call
             /\ UNCHANGED <<out, after>>
    /\ UNCHANGED <<clientVars, child, served, disk>>

BlankIsEmpty(s) == s = <<EOL>>                    \* mutant: compared with "\n"
IsBlank(s) == s = Blank

\* A turn of read_requesthdrs: at the end of the connection buf stays as it is.
ReadHeaders ==
    LET blank == IF line = <<>> THEN hdr ELSE IsBlank(line)
    IN  /\ At("headers") /\ ~reading
        /\ hdr' = blank
        /\ IF blank THEN GoTo("stat") /\ UNCHANGED rioVars ELSE Call /\ UNCHANGED pc
        /\ UNCHANGED <<clientVars, uri, out, after, child, served, disk>>

\* stat, the tests of the mode, and the first Rio_writens of the answer.
Stat ==
    LET kind == disk[File(uri)]
    IN  /\ At("stat")
        /\ CASE kind = "none"       -> Answer(clienterror("404"), "close")
             [] kind = "unreadable" -> Answer(clienterror("403"), "close")
             [] OTHER               -> IF Static(uri) THEN Answer(ServeStatic, "open")
                                                      ELSE Answer(ServeDynamic, "fork")
        /\ UNCHANGED <<rioVars, clientVars, uri, hdr, child, served, disk>>

\* One write of Rio_writen.
Write ==
    /\ At("write")
    /\ IF out = <<>>
       THEN GoTo(after) /\ UNCHANGED <<out, rioVars>>
       ELSE \E k \in 1 .. Len(Head(out)) :
              LET left == Left(Head(out), k)
              IN  /\ Written(rio.fd, Head(out), k)
                  /\ out' = IF left = <<>> THEN Tail(out) ELSE <<left>> \o Tail(out)
                  /\ UNCHANGED <<wire, shut, readVars, pc>>
    /\ UNCHANGED <<clientVars, uri, hdr, after, child, served, disk>>

\* Open, Mmap and the body.  Mmap of an empty file fails, and so does Open of one
\* that is gone since stat.
OpenFile ==
    /\ At("open")
    /\ IF disk[File(uri)] = "data" THEN Answer(<<<<"body", uri>>>>, "close")
                             ELSE GoTo("exited") /\ UNCHANGED <<out, after>>
    /\ UNCHANGED <<rioVars, clientVars, uri, hdr, child, served, disk>>

Fork ==
    /\ At("fork")
    /\ child' = "running" /\ GoTo("wait")
    /\ UNCHANGED <<rioVars, clientVars, uri, hdr, out, after, served, disk>>

\* The child: Dup2, Execve and adder, which writes its answer and exits, takes an
\* argument string without '&' apart and crashes, or has nobody left to write to.  If
\* there is no program any more, Execve ends the child with exit(0), which flushes
\* the log that it has inherited, if there is any, and its stdout is the client.
ChildRuns ==
    /\ child = "running"
    /\ child' = "dead"
    /\ \/ /\ disk[File(uri)] = "data" /\ HasAmp(uri)
          /\ got' = [got EXCEPT ![rio.fd] = @ \o <<"sum", uri>>]
       \/ /\ disk[File(uri)] # "data"
          /\ got' = [got EXCEPT ![rio.fd] = @ \o <<Log>>]
       \/ /\ disk[File(uri)] # "data" \/ ~HasAmp(uri) \/ shut[rio.fd]
          /\ UNCHANGED got
    /\ UNCHANGED <<wire, shut, readVars, clientVars, pc, uri, hdr, out, after, served, disk>>

Wait ==
    /\ At("wait") /\ child = "dead"
    /\ child' = "none" /\ GoTo("close")
    /\ UNCHANGED <<rioVars, clientVars, uri, hdr, out, after, served, disk>>

\* Close in main: what the client has sent and nobody has read is lost.  The locals of
\* doit are gone; the bytes on the stack are not, and rio keeps them.
CloseConn ==
    /\ At("close")
    /\ served' = served \cup {rio.fd}
    /\ wire' = [wire EXCEPT ![rio.fd] = <<>>]
    /\ rio' = [rio EXCEPT !.fd = NoConn]
    /\ GoTo("accept") /\ uri' = "/" /\ hdr' = FALSE /\ after' = "accept"
    /\ UNCHANGED <<shut, usrbuf, reading, line, got, clientVars, out, child, disk>>

ServerStep ==
    \/ Accept \/ DoRequest \/ ReadHeaders \/ Stat \/ Write \/ OpenFile \/ Fork \/ Wait \/ CloseConn

\* The reader runs in the server.
Reader(step) == pc # "exited" /\ step /\ UNCHANGED <<clientVars, serverVars, disk>>

Next ==
    \/ \E c \in Conns : Connect(c) \/ ClientSends(c) \/ ClientCloses(c)
    \/ \E f \in Files : FileGone(f)
    \/ Reader(ReadStep) \/ Reader(Interrupted)
    \/ ServerStep \/ ChildRuns \/ Exit

Spec == TinyInit /\ [][Next]_vars

\* The server and its child run, and clients send what they mean to.
FairSpec ==
    /\ Spec
    /\ WF_vars(Reader(ReadStep)) /\ WF_vars(ServerStep) /\ WF_vars(ChildRuns)
    /\ \A c \in Conns : WF_vars(ClientSends(c))

-----------------------------------------------------------------------------
Stream == INSTANCE LineStream WITH
    rest  <- [c \in Conns |-> Ahead(c)],
    ended <- shut

\* The buffered reader gives the server each connection's bytes in order, each once,
\* a line at a time (csapp.c:794-882).
ImplementsLineStream == Stream!Spec

-----------------------------------------------------------------------------
(* What a request asks for, taken apart by the promise of the reader alone. *)

\* The lines of s, and empty ones after them.
LinesOf(s) ==
    LET rest[k \in 0 .. Len(s)] ==
            IF k = 0 THEN s
            ELSE SubSeq(rest[k - 1], Stream!LineLen(rest[k - 1]) + 1, Len(rest[k - 1]))
    IN  [k \in 1 .. Len(s) |-> SubSeq(rest[k - 1], 1, Stream!LineLen(rest[k - 1]))]

HeadersEnd(s) == \E k \in 2 .. Len(s) : LinesOf(s)[k] = Blank

\* What c has sent, or will send unless it closes the connection.
Sent(c)   == SubSeq(asked[c], 1, Len(asked[c]) - Len(toSend[c]))
Coming(c) == IF shut[c] THEN Sent(c) ELSE asked[c]

Page(status) == <<status, "headers", "page">>
When(p, a)   == {x \in {a} : p}

\* The complete answers to a GET of u by c, as the files are.  Only a program that crashes
\* or is gone, or a client that has closed, explains headers without a sum.
GetAnswers(c, u) ==
    LET kind == disk[File(u)]
        static  == kind # "unreadable" /\ Static(u)
        dynamic == kind # "unreadable" /\ ~Static(u)
    IN  When(kind = "unreadable", Page("403"))
        \cup When(kind = "none", Page("404"))
        \cup When(static, <<"200", "headers", "body", u>>)
        \cup When(dynamic /\ HasAmp(u), <<"200", "headers", "sum", u>>)
        \cup When(dynamic /\ (~HasAmp(u) \/ kind # "data" \/ shut[c]), <<"200", "headers">>)
        \cup When(dynamic /\ kind # "data", <<"200", "headers", Log>>)

\* The complete answers to c's request.
RequestLine(c) == SubSeq(asked[c], 1, Stream!LineLen(asked[c]))
Answers(c) ==
    {Page("501") : m \in MethodsIn(RequestLine(c)) \ {GET}}
    \cup UNION {GetAnswers(c, u) :
                u \in {v \in UrisIn(RequestLine(c)) : GET \in MethodsIn(RequestLine(c))}}

\* Whatever is left in the buffers from the connection before, each client is sent the
\* answer to its own request line, in order, once, and all of it before the
\* server closes the connection; a client that has closed may find no answer
\* (tiny.c:50-95).  When the CGI program is gone, the answer ends with its headers or goes
\* on with the server's log.
AnswersOwnRequest ==
    \A c \in Conns :
        /\ got[c] # <<>> =>
              \E a \in Answers(c) : Len(got[c]) <= Len(a) /\ SubSeq(a, 1, Len(got[c])) = got[c]
        /\ c \in served => got[c] \in Answers(c) \/ (got[c] = <<>> /\ shut[c])

\* "Redirect stdout to client", for the CGI program (tiny.c:211): the server's own output
\* goes elsewhere.  It does not hold: an Execve that fails sends the log to the client.
ClientsGetNoLog == \A c \in Conns : \A i \in 1 .. Len(got[c]) : got[c][i] # Log

\* The server waits for a line that will not come, or reads the end of the connection
\* again and again.
EndlessHeaders == pc = "headers" /\ ~HeadersEnd(Coming(rio.fd))

\* Every client is served in its turn, unless the process ends or a client before it
\* leaves the server in its header lines for ever (tiny.c:34-42, 106-111).
EveryClientServed ==
    \A c \in Conns : (Connected(c) ~> (c \in served \/ pc = "exited")) \/ <>[]EndlessHeaders

TypeOK ==
    /\ rio.fd \in Conns \cup {NoConn}
    /\ rio.cnt \in -1 .. RIO_BUFSIZE /\ rio.bufptr \in 1 .. RIO_BUFSIZE + 1
    /\ Len(usrbuf) < MAXLINE - 1 /\ Len(line) < MAXLINE
    /\ reading => pc \in {"request", "headers", "exited"}
    /\ reading => rio.cnt <= 0 \/ rio.bufptr + rio.cnt - 1 = Len(rio.buf)
    /\ pc \in {"accept", "request", "headers", "stat", "write", "open", "fork", "wait",
               "close", "exited"}
    /\ child # "none" => pc \in {"wait", "exited"}
    /\ uri \in Uris /\ hdr \in BOOLEAN /\ disk \in [Files -> Kinds]
=============================================================================
