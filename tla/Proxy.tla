------------------------------- MODULE Proxy -------------------------------
(***************************************************************************)
(* The caching proxy of Computer_Science-360/lab5/proxy.c: one detached    *)
(* thread per connection, a cache of NUM_CACHE_LINE lines shared by all,   *)
(* and the readers/writers protocol of two semaphores that protects it.    *)
(*                                                                         *)
(* The program's main thread only accepts connections.  A thread that has  *)
(* finished stands for the next one that is created.  The client and the   *)
(* end server are the environment: a request arrives, a connection fails,  *)
(* an answer is cachable, too large or empty.  The error wrappers of       *)
(* csapp.c and the parser end the whole process (exit).                    *)
(*                                                                         *)
(* A line's payload is the memory it is: strcpy fills it up to the end of  *)
(* the object and leaves the rest as it was, and a hit sends all of it.    *)
(***************************************************************************)
EXTENDS Integers, FiniteSets, FiniteSetsExt

CONSTANTS
    Threads,            \* connections served at the same time
    Requests,           \* records [key, port]: host and path, and the port
    NUM_CACHE_LINE,     \* lines of the cache (proxy.c:5)
    MAX_OBJECT_SIZE,    \* size of a payload, in parts that can be told apart
    Junk,               \* what uninitialized memory happens to hold
    None,               \* no name, or no answer
    MaxTime             \* bound of the model: requests that may move gtime

ASSUME LinesAssumption == NUM_CACHE_LINE \in Nat \ {0}
ASSUME SizeAssumption == MAX_OBJECT_SIZE \in Nat \ {0}
ASSUME MaxTimeAssumption == MaxTime \in Nat
ASSUME ThreadsAssumption == IsFiniteSet(Threads)
ASSUME RequestsAssumption == Requests # {} /\ Junk \notin Requests

VARIABLES
    cache,      \* the lines: [name, payload, timestamp]
    usedcnt,    \* lines in use
    readcnt,    \* threads that read the cache
    gtime,      \* the clock of the timestamps
    mutex,      \* semaphore that protects readcnt
    w,          \* semaphore held by the writer or by the readers together
    thr,        \* each thread: where it is and its locals
    up          \* the process has not ended

shared == <<cache, usedcnt, readcnt, gtime, mutex, w>>
vars   == <<cache, usedcnt, readcnt, gtime, mutex, w, thr, up>>

Lines   == 1 .. NUM_CACHE_LINE
Keys    == {r.key : r \in Requests}
Parts   == 1 .. MAX_OBJECT_SIZE
Objects == Requests \cup {Junk}         \* an object is known by who asked for it

\* object_buf: a text of some size, up to the first zero byte.
Texts == [of : Objects, size : Parts]

\* The memory of a payload: the size of the text in it, and what each part holds.
Payloads == [size : Parts, cells : [Parts -> Objects]]
ASSUME NoneAssumption == None \notin Keys /\ None \notin Payloads

Malloced == [size |-> 1, cells |-> [i \in Parts |-> Junk]]

\* strcpy: what is behind the end of the text stays.
Strcpy(payload, text) ==
    [size  |-> text.size,
     cells |-> [i \in Parts |-> IF i <= text.size THEN text.of ELSE payload.cells[i]]]

\* The locals of doit: the request, cache_i (0 for -1, and the target line in
\* writer), object_buf, and what the client has been sent from the cache.
IdleThread(r) == [pc |-> "idle", req |-> r, line |-> 0,
                  buf |-> [of |-> Junk, size |-> 1], sent |-> None]
NewThread     == IdleThread(CHOOSE r \in Requests : TRUE)

At(t, pc) == up /\ thr[t].pc = pc

\* Thread t goes to pc, or changes its locals.
Goto(t, pc)         == thr' = [thr EXCEPT ![t].pc = pc]
GotoWith(t, pc, i)  == thr' = [thr EXCEPT ![t].pc = pc, ![t].line = i]

\* Thread t ends; the next one starts with a stack of its own.
Ends(t) == thr' = [thr EXCEPT ![t] = NewThread]

\* initialize_cache (proxy.c:182-194); timestamp -1 is the largest unsigned.
Init ==
    /\ cache = [i \in Lines |-> [name |-> None, payload |-> Malloced, timestamp |-> -1]]
    /\ usedcnt = 0
    /\ readcnt = 0
    /\ gtime = 0
    /\ mutex = 1
    /\ w = 1
    /\ thr = [t \in Threads |-> NewThread]
    /\ up = TRUE

\* exit from any thread ends them all.
Exit == up' = FALSE /\ UNCHANGED <<shared, thr>>

-----------------------------------------------------------------------------
(* thread, doit and parse_request up to the lookup (proxy.c:60-83, 105-148).*)

Busy == {t \in Threads : thr[t].pc # "idle"}

Accept(t, r) ==
    /\ At(t, "idle")
    /\ gtime + Cardinality(Busy) < MaxTime
    /\ thr' = [thr EXCEPT ![t] = [IdleThread(r) EXCEPT !.pc = "enter"]]
    /\ UNCHANGED <<shared, up>>

\* An uri or a header that does not parse.  (A client that closes at once leaves
\* line uninitialized, proxy.c:119-120: the rest of an earlier request, which is
\* Accept, or bytes that are no host, which is FetchFails.  So does one that sends more
\* headers than headers[20] has room for: the rest of them is written over line, or
\* over the canary of the stack, which ends the process.)
ParseFails(t) ==
    /\ At(t, "idle")
    /\ Exit

(* reader (proxy.c:196-218).*)

\* P(&mutex); readcnt++
ReaderEnter(t) ==
    /\ At(t, "enter")
    /\ mutex > 0
    /\ mutex' = mutex - 1
    /\ readcnt' = readcnt + 1
    /\ Goto(t, IF readcnt + 1 = 1 THEN "first" ELSE "entered")
    /\ UNCHANGED <<cache, usedcnt, gtime, w, up>>

\* The first reader takes w for all of them, and keeps mutex meanwhile.
ReaderFirst(t) ==
    /\ At(t, "first")
    /\ w > 0
    /\ w' = w - 1
    /\ Goto(t, "entered")
    /\ UNCHANGED <<cache, usedcnt, readcnt, gtime, mutex, up>>

ReaderEntered(t) ==
    /\ At(t, "entered")
    /\ mutex' = mutex + 1
    /\ Goto(t, "scan")
    /\ UNCHANGED <<cache, usedcnt, readcnt, gtime, w, up>>

Matches(k) == {i \in 1 .. usedcnt : cache[i].name = k}

ScanToTheEnd(t) ==            \* mutant: no break, the last match is kept
    /\ At(t, "scan")
    /\ IF Matches(thr[t].req.key) = {}
       THEN Goto(t, "leave")
       ELSE GotoWith(t, "send", Max(Matches(thr[t].req.key)))
    /\ UNCHANGED <<shared, up>>

Scan(t) ==
    /\ At(t, "scan")
    /\ IF Matches(thr[t].req.key) = {}
       THEN Goto(t, "leave")
       ELSE GotoWith(t, "send", Min(Matches(thr[t].req.key)))
    /\ UNCHANGED <<shared, up>>

\* Rio_writen of MAX_OBJECT_SIZE bytes, whatever the size of the object: all that the
\* payload holds.  A client that has gone ends the process.
Send(t) ==
    /\ At(t, "send")
    /\ \/ /\ thr' = [thr EXCEPT ![t].pc = "leave",
                                ![t].sent = cache[thr[t].line].payload]
          /\ UNCHANGED <<shared, up>>
       \/ Exit

ReaderLeaveIsLast(t) ==       \* mutant: every reader releases w
    /\ At(t, "leave")
    /\ mutex > 0
    /\ mutex' = mutex - 1
    /\ readcnt' = readcnt - 1
    /\ Goto(t, "last")
    /\ UNCHANGED <<cache, usedcnt, gtime, w, up>>

ReaderLeaveTestsFirst(t) ==   \* mutant: readcnt is tested before it is decremented
    /\ At(t, "leave")
    /\ mutex > 0
    /\ mutex' = mutex - 1
    /\ readcnt' = readcnt - 1
    /\ Goto(t, IF readcnt = 0 THEN "last" ELSE "left")
    /\ UNCHANGED <<cache, usedcnt, gtime, w, up>>

\* P(&mutex); readcnt--
ReaderLeave(t) ==
    /\ At(t, "leave")
    /\ mutex > 0
    /\ mutex' = mutex - 1
    /\ readcnt' = readcnt - 1
    /\ Goto(t, IF readcnt - 1 = 0 THEN "last" ELSE "left")
    /\ UNCHANGED <<cache, usedcnt, gtime, w, up>>

ReaderLast(t) ==
    /\ At(t, "last")
    /\ w' = w + 1
    /\ Goto(t, "left")
    /\ UNCHANGED <<cache, usedcnt, readcnt, gtime, mutex, up>>

\* V(&mutex), and back to doit: a hit goes on to touch its line.
ReaderLeft(t) ==
    /\ At(t, "left")
    /\ mutex' = mutex + 1
    /\ Goto(t, IF thr[t].line = 0 THEN "fetch" ELSE "lock")
    /\ UNCHANGED <<cache, usedcnt, readcnt, gtime, w, up>>

-----------------------------------------------------------------------------
(* doit on a miss (proxy.c:91-102) and send_to_server.                     *)

\* The answer is forwarded, and what strcpy makes of it kept: a binary one ends at its
\* first zero byte, and an empty one leaves object_buf as it was.
Fetch(t) ==
    /\ At(t, "fetch")
    /\ \E object \in {thr[t].req, Junk}, n \in Parts :
          thr' = [thr EXCEPT ![t].pc = "lock", ![t].buf = [of |-> object, size |-> n]]
    /\ UNCHANGED <<shared, up>>

\* An answer of MAX_OBJECT_SIZE or more is not cached.  It has been copied into
\* object_buf before its size is looked at (line 96): if it reaches beyond the padding
\* of the stack, over the canary, the process ends.
FetchLarge(t) ==
    /\ At(t, "fetch")
    /\ \/ Ends(t) /\ UNCHANGED <<shared, up>>
       \/ Exit

\* Open_clientfd, Rio_readlineb or Rio_writen fails.
FetchFails(t) ==
    /\ At(t, "fetch")
    /\ Exit

-----------------------------------------------------------------------------
(* writer (proxy.c:220-247). *)

WriterDoesNotLock(t) ==       \* mutant: no P(&w)
    /\ At(t, "lock")
    /\ Goto(t, IF thr[t].line = 0 THEN "name" ELSE "touch")
    /\ UNCHANGED <<shared, up>>

\* P(&w)
WriterLock(t) ==
    /\ At(t, "lock")
    /\ w > 0
    /\ w' = w - 1
    /\ Goto(t, IF thr[t].line = 0 THEN "name" ELSE "touch")
    /\ UNCHANGED <<cache, usedcnt, readcnt, gtime, mutex, up>>

\* The line a hit was found in, whatever it holds by now.
Touch(t) ==
    /\ At(t, "touch")
    /\ cache' = [cache EXCEPT ![thr[t].line].timestamp = gtime]
    /\ Goto(t, "unlock")
    /\ UNCHANGED <<usedcnt, readcnt, gtime, mutex, w, up>>

Newest == {i \in Lines : \A j \in Lines : cache[i].timestamp >= cache[j].timestamp} \* mutant

\* The next free line, or the first of the least recently used ones.
Oldest == {i \in Lines : \A j \in Lines : cache[i].timestamp <= cache[j].timestamp}
Target == IF usedcnt < NUM_CACHE_LINE THEN usedcnt + 1 ELSE Min(Oldest)

WriteName(t) ==
    /\ At(t, "name")
    /\ cache' = [cache EXCEPT ![Target].name = thr[t].req.key]
    /\ GotoWith(t, "payload", Target)
    /\ UNCHANGED <<usedcnt, readcnt, gtime, mutex, w, up>>

WritePayload(t) ==
    /\ At(t, "payload")
    /\ cache' = [cache EXCEPT ![thr[t].line].payload = Strcpy(@, thr[t].buf)]
    /\ Goto(t, "stamp")
    /\ UNCHANGED <<usedcnt, readcnt, gtime, mutex, w, up>>

WriteStampCountsAlways(t) ==  \* mutant: usedcnt++ for a replaced line too
    /\ At(t, "stamp")
    /\ cache' = [cache EXCEPT ![thr[t].line].timestamp = gtime]
    /\ usedcnt' = usedcnt + 1
    /\ Goto(t, "unlock")
    /\ UNCHANGED <<readcnt, gtime, mutex, w, up>>

WriteStamp(t) ==
    /\ At(t, "stamp")
    /\ cache' = [cache EXCEPT ![thr[t].line].timestamp = gtime]
    /\ usedcnt' = IF usedcnt < NUM_CACHE_LINE THEN usedcnt + 1 ELSE usedcnt
    /\ Goto(t, "unlock")
    /\ UNCHANGED <<readcnt, gtime, mutex, w, up>>

WriterUnlockNoTick(t) ==      \* mutant: no gtime++
    /\ At(t, "unlock")
    /\ w' = w + 1
    /\ Ends(t)
    /\ UNCHANGED <<cache, usedcnt, readcnt, gtime, mutex, up>>

\* gtime++; V(&w), and the thread ends.
WriterUnlock(t) ==
    /\ At(t, "unlock")
    /\ gtime' = gtime + 1
    /\ w' = w + 1
    /\ Ends(t)
    /\ UNCHANGED <<cache, usedcnt, readcnt, mutex, up>>

-----------------------------------------------------------------------------
Reader(t) ==
    \/ ReaderEnter(t) \/ ReaderFirst(t) \/ ReaderEntered(t) \/ Scan(t) \/ Send(t)
    \/ ReaderLeave(t) \/ ReaderLast(t) \/ ReaderLeft(t)

Writer(t) ==
    \/ WriterLock(t) \/ Touch(t) \/ WriteName(t) \/ WritePayload(t)
    \/ WriteStamp(t) \/ WriterUnlock(t)

\* The steps of a thread that serves a connection.
Step(t) == Reader(t) \/ Fetch(t) \/ FetchLarge(t) \/ FetchFails(t) \/ Writer(t)

\* Nothing left to serve within the bound, or no process.
Quiet ==
    /\ ~up \/ (Busy = {} /\ gtime >= MaxTime)
    /\ UNCHANGED vars

Next ==
    \/ \E t \in Threads :
          Step(t) \/ ParseFails(t) \/ \E r \in Requests : Accept(t, r)
    \/ Quiet

Spec == Init /\ [][Next]_vars

\* Every thread is scheduled, and every server answers or fails in the end.
FairSpec == Spec /\ \A t \in Threads : WF_vars(Step(t))

-----------------------------------------------------------------------------
(* What the proxy promises. *)

ReadPcs  == {"scan", "send", "leave"}
WritePcs == {"touch", "name", "payload", "stamp", "unlock"}
Pcs      == {"idle", "enter", "first", "entered", "last", "left", "fetch", "lock"}
                \cup ReadPcs \cup WritePcs

Writing == {t \in Threads : thr[t].pc \in WritePcs}
Reading == {t \in Threads : thr[t].pc \in ReadPcs}

LineType   == [name : Keys \cup {None}, payload : Payloads, timestamp : Nat \cup {-1}]
ThreadType == [pc : Pcs, req : Requests, line : Lines \cup {0}, buf : Texts,
               sent : Payloads \cup {None}]

\* The variables have their types.
TypeOK ==
    /\ cache \in [Lines -> LineType]
    /\ usedcnt \in 0 .. NUM_CACHE_LINE
    /\ readcnt \in Nat
    /\ gtime \in Nat
    /\ mutex \in {0, 1}
    /\ w \in {0, 1}
    /\ thr \in [Threads -> ThreadType]
    /\ up \in BOOLEAN

\* A thread that writes the cache is alone with it: P(&w) keeps out the other
\* writers, and the readers as long as readcnt is not zero (proxy.c:198-221).
WriterAlone ==
    \A t \in Writing : Writing = {t} /\ Reading = {}

\* The text in a payload is a whole object of the key, or what object_buf held when
\* the answer was empty.
IsObjectOf(k, payload) ==
    \E o \in Objects :
        /\ o = Junk \/ o.key = k
        /\ \A i \in 1 .. payload.size : payload.cells[i] = o

\* What a client is sent from the cache begins with the whole object that its host and
\* path name, and never with a part of one that is being replaced or with another's
\* (proxy.c:206-207 and 240-241).  Of what follows the object this says nothing: see
\* SentIsTheObject.
ServesWhatWasAsked ==
    \A t \in Threads :
        thr[t].pc = "send" =>
            /\ cache[thr[t].line].name = thr[t].req.key
            /\ IsObjectOf(thr[t].req.key, cache[thr[t].line].payload)

\* A client that is answered from the cache reads a copy of the object it asked for, and
\* nothing of another one: "storing local copies of objects from servers then responding
\* to future requests by reading them out of its cache" (lab5_documentation.pdf, page 1).
SentIsTheObject ==
    \A t \in Threads :
        thr[t].sent # None =>
            \A i \in Parts :
                thr[t].sent.cells[i] = Junk \/ thr[t].sent.cells[i].key = thr[t].req.key

\* No two lines in use were used last at the same time, so that there is one
\* least recently used line; all of them were used before now.
StampsDistinct ==
    Writing = {} =>
        \A i \in 1 .. usedcnt :
            /\ cache[i].timestamp \in 0 .. gtime - 1
            /\ \A j \in 1 .. usedcnt : cache[i].timestamp = cache[j].timestamp => i = j

\* A line in use is given up only when all are, and only the one whose last use
\* is longest ago (proxy.c:232-240).
EvictsOldest ==
    [][\A i \in 1 .. usedcnt :
          cache'[i].name # cache[i].name =>
              /\ usedcnt = NUM_CACHE_LINE
              /\ \A j \in Lines \ {i} : cache[i].timestamp < cache[j].timestamp]_vars

\* The lookups, insertions and touches of all threads appear to happen one at a
\* time: an insertion at its first write, for a line that is being written is
\* seen by nobody before it is finished.  An object is the text of it.
Text(payload) == [i \in 1 .. payload.size |-> payload.cells[i]]
Whole(text)   == [i \in 1 .. text.size |-> text.of]

Pending  == {t \in Threads : thr[t].pc \in {"payload", "stamp"}}
Inserted == {t \in Pending : thr[t].line > usedcnt}
LineSeen(i) ==
    IF \E t \in Pending : thr[t].line = i
    THEN LET t == CHOOSE t \in Pending : thr[t].line = i IN
         [key |-> cache[i].name, object |-> Whole(thr[t].buf), stamp |-> gtime]
    ELSE [key |-> cache[i].name, object |-> Text(cache[i].payload),
          stamp |-> cache[i].timestamp]

\* What a thread with locals d is to the cache: a client that asks, has hit or missed
\* its object, is done with the cache, or is away.
Stage(d) ==
    CASE d.pc = "idle"                                          -> "away"
      [] d.pc \in {"enter", "first", "entered", "scan", "send"} -> "asks"
      [] d.pc \in {"payload", "stamp", "unlock"}                -> "done"
      [] OTHER -> IF d.line = 0 THEN "missed" ELSE "hit"
ClientSeen(d) ==
    [at     |-> Stage(d),
     key    |-> IF Stage(d) = "away" THEN None ELSE d.req.key,
     line   |-> IF Stage(d) = "hit" THEN d.line ELSE 0,
     answer |-> IF d.sent = None THEN None ELSE Text(d.sent)]

OC == INSTANCE ObjectCache WITH
          Clients <- Threads, Size <- NUM_CACHE_LINE, Nothing <- None,
          Objects <- {Whole(text) : text \in Texts},
          lines   <- [i \in 1 .. usedcnt + Cardinality(Inserted) |-> LineSeen(i)],
          clock   <- gtime + Cardinality({t \in Threads :
                                 thr[t].pc \in {"payload", "stamp", "unlock"}}),
          client  <- [t \in Threads |-> ClientSeen(thr[t])]

ImplementsObjectCache == OC!Spec

\* Every connection is served to the end, unless an error ends the process: no
\* thread waits for ever on mutex or w. This is so as long as connections do not
\* keep coming for ever: readers that overlap without end keep the writers out.
ConnectionsStop ==
    <>[][\A t \in Threads : thr[t].pc = "idle" => thr'[t].pc = "idle"]_vars

EveryRequestEnds ==
    ConnectionsStop =>
        \A t \in Threads : thr[t].pc # "idle" ~> thr[t].pc = "idle" \/ ~up
=============================================================================
