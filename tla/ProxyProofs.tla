---------------------------- MODULE ProxyProofs ----------------------------
(***************************************************************************)
(* Proofs about Proxy, for any number of threads, lines and requests: that *)
(* the two semaphores keep a writer of the cache alone with it, that a     *)
(* client is sent the object it asked for, that the lines in use have      *)
(* distinct stamps and only the oldest is given up, and that the whole     *)
(* implements ObjectCache, where every operation is one step.              *)
(***************************************************************************)
EXTENDS Proxy, Extrema, SequenceTheorems

-----------------------------------------------------------------------------
(* What the semaphores mean at each point of the code. *)

\* Between P(&mutex) and V(&mutex) of reader (proxy.c:198-201, 213-217).
MutexPcs   == {"first", "entered", "last", "left"}
HoldsMutex == {t \in Threads : thr[t].pc \in MutexPcs}

\* Between readcnt++ and readcnt--.
CountedPcs == {"first", "entered"} \cup ReadPcs
Counted    == {t \in Threads : thr[t].pc \in CountedPcs}

\* The readers for which w is held: from the first one's P(&w) to the last
\* one's V(&w).
HeldForPcs == {"entered", "last"} \cup ReadPcs
HeldFor    == {t \in Threads : thr[t].pc \in HeldForPcs}

MutexInv ==
    /\ mutex \in {0, 1}
    /\ mutex = 1 <=> HoldsMutex = {}
    /\ \A t, u \in HoldsMutex : t = u

CountInv ==
    /\ readcnt = Cardinality(Counted)
    /\ \A t \in Threads : thr[t].pc = "first" => Counted = {t}
    /\ \A t \in Threads : thr[t].pc = "last" => Counted = {}

WInv ==
    /\ w \in {0, 1}
    /\ w = 0 <=> Writing \cup HeldFor # {}
    /\ \A t \in Writing : Writing = {t} /\ HeldFor = {}

SemInv == MutexInv /\ CountInv /\ WInv

\* The line a thread is at, and what the lines hold: a line's payload answers to
\* the line's name except between the two copies of writer (proxy.c:240-241).
LineInv ==
    \A t \in Threads :
        /\ thr[t].buf.of \in {thr[t].req, Junk}
        /\ thr[t].pc \in {"send", "touch", "payload", "stamp"} => thr[t].line \in Lines
        /\ thr[t].pc \in {"send", "payload"} => cache[thr[t].line].name = thr[t].req.key

PayloadInv ==
    \A i \in Lines :
        \/ IsObjectOf(cache[i].name, cache[i].payload)
        \/ \E t \in Threads : thr[t].pc = "payload" /\ thr[t].line = i

CacheInv == LineInv /\ PayloadInv

-----------------------------------------------------------------------------
(* Types. *)

\* What a step of one thread does to it, and that it leaves the others alone.
Moves(t, p, q) ==
    /\ thr[t].pc = p
    /\ thr'[t].pc = q
    /\ \A u \in Threads \ {t} : thr'[u].pc = thr[u].pc

\* The line a scan stops at, the first that matches, and the line an insertion takes,
\* the next free one or a least recently used one, are lines.
LEMMA LineChosen ==
    ASSUME TypeOK
    PROVE  /\ \A k : Matches(k) # {} => Min(Matches(k)) \in Matches(k)
           /\ \A k : Matches(k) \subseteq Lines
           /\ \A k : \A j \in Matches(k) : Min(Matches(k)) <= j
           /\ Target \in Lines
           /\ IF usedcnt < NUM_CACHE_LINE THEN Target = usedcnt + 1 ELSE Target \in Oldest
<1>1. \A k : Matches(k) \subseteq Nat
  BY DEF TypeOK, Matches
<1>2. \A k : Matches(k) # {} =>
          Min(Matches(k)) \in Matches(k) /\ \A j \in Matches(k) : Min(Matches(k)) <= j
  BY <1>1, NatMin
<1>3. \A k : Matches(k) \subseteq Lines
  BY LinesAssumption DEF TypeOK, Matches, Lines
<1>4. /\ Target \in Lines
      /\ IF usedcnt < NUM_CACHE_LINE THEN Target = usedcnt + 1 ELSE Target \in Oldest
  <2>1. CASE usedcnt < NUM_CACHE_LINE
    BY <1>2, <1>3, <2>1, LinesAssumption DEF TypeOK, Target, Lines
  <2>2. CASE ~(usedcnt < NUM_CACHE_LINE)
    <3> DEFINE ages == {cache[i].timestamp + 1 : i \in Lines}
    <3>1. \A i \in Lines : cache[i].timestamp \in Nat \cup {-1}
      BY DEF TypeOK, LineType
    <3>2. 1 \in Lines /\ Lines \subseteq Nat
      BY LinesAssumption DEF Lines
    <3>3. ages \subseteq Nat /\ ages # {}
      BY <3>1, <3>2
    <3>4. PICK i \in Lines : \A a \in ages : cache[i].timestamp + 1 <= a
      <4> HIDE DEF ages
      <4>1. Min(ages) \in ages /\ \A a \in ages : Min(ages) <= a
        BY <3>3, NatMin
      <4> QED BY <4>1 DEF ages
    <3>5. \A j \in Lines : cache[i].timestamp + 1 <= cache[j].timestamp + 1
      BY <3>4
    <3>6. i \in Oldest
      BY <3>1, <3>5 DEF Oldest
    <3>7. Min(Oldest) \in Oldest
      BY <3>2, <3>6, NatMin DEF Oldest
    <3> QED BY <2>2, <3>7 DEF Target, Oldest
  <2> QED BY <2>1, <2>2
<1> QED BY <1>2, <1>3, <1>4

\* strcpy of a text makes a payload of a payload, of which the text is what it reads.
LEMMA StrcpyMakes ==
    ASSUME NEW payload \in Payloads, NEW text \in Texts
    PROVE  /\ Strcpy(payload, text) \in Payloads
           /\ \A k : \A o \in Objects : text.of = o /\ (o = Junk \/ o.key = k) =>
                 IsObjectOf(k, Strcpy(payload, text))
           /\ Text(Strcpy(payload, text)) = Whole(text)
<1>1. /\ text.of \in Objects /\ text.size \in Parts
      /\ payload.cells \in [Parts -> Objects]
  BY DEF Payloads, Texts
<1>2. PICK cells : cells = [i \in Parts |-> IF i <= text.size THEN text.of ELSE payload.cells[i]]
  OBVIOUS
<1>3. cells \in [Parts -> Objects]
  BY <1>1, <1>2
<1>4. Strcpy(payload, text) = [size |-> text.size, cells |-> cells]
  BY <1>2 DEF Strcpy
<1>5. \A i \in 1 .. text.size : i \in Parts /\ cells[i] = text.of
  <2>1. PICK size : size = text.size
    OBVIOUS
  <2>2. size \in Nat /\ size <= MAX_OBJECT_SIZE /\ MAX_OBJECT_SIZE \in Nat
    BY <1>1, <2>1, SizeAssumption DEF Parts
  <2>3. \A i \in 1 .. size : i \in Parts /\ i <= size
    BY <2>2 DEF Parts
  <2> QED BY <1>2, <2>1, <2>3
<1>6. Strcpy(payload, text) \in Payloads
  BY <1>1, <1>3, <1>4 DEF Payloads
<1>7. \A k : \A o \in Objects : text.of = o /\ (o = Junk \/ o.key = k) =>
         IsObjectOf(k, Strcpy(payload, text))
  BY <1>1, <1>4, <1>5 DEF IsObjectOf
<1>8. Text(Strcpy(payload, text)) = Whole(text)
  BY <1>4, <1>5 DEF Text, Whole
<1> QED BY <1>6, <1>7, <1>8

\* The thread that stands for the next connection.
LEMMA NewThreadIs ==
    /\ NewThread \in ThreadType
    /\ NewThread.pc = "idle" /\ NewThread.line = 0 /\ NewThread.sent = None
    /\ NewThread.buf.of = Junk
<1>1. (CHOOSE r \in Requests : TRUE) \in Requests
  BY RequestsAssumption
<1> QED BY <1>1, SizeAssumption DEF NewThread, IdleThread, ThreadType, Pcs, Texts, Parts, Objects

\* The part of TypeOK that does not depend on the semaphores.
DataType ==
    /\ cache \in [Lines -> LineType]
    /\ usedcnt \in 0 .. NUM_CACHE_LINE
    /\ gtime \in Nat
    /\ thr \in [Threads -> ThreadType]
    /\ up \in BOOLEAN

\* Every step of a thread keeps the types of the cache, of the counters and of
\* the threads' locals.
LEMMA DataStep ==
    ASSUME TypeOK, [Next]_vars
    PROVE  DataType'
<1>1. DataType
  BY DEF TypeOK, DataType
<1> USE LinesAssumption
<1>2. \A t \in Threads : thr[t] \in ThreadType
  BY <1>1 DEF DataType
<1>3. \A t \in Threads, pc \in Pcs : [thr EXCEPT ![t].pc = pc] \in [Threads -> ThreadType]
  BY <1>1 DEF DataType, ThreadType
<1>4. \A t \in Threads, pc \in Pcs, i \in Lines :
          [thr EXCEPT ![t].pc = pc, ![t].line = i] \in [Threads -> ThreadType]
  <2> SUFFICES ASSUME NEW t \in Threads, NEW pc \in Pcs, NEW i \in Lines
               PROVE  [thr EXCEPT ![t].pc = pc, ![t].line = i] \in [Threads -> ThreadType]
    OBVIOUS
  <2>1. PICK r : r = [thr[t] EXCEPT !.pc = pc, !.line = i]
    OBVIOUS
  <2>2. r \in ThreadType
    BY <1>2, <2>1 DEF ThreadType
  <2>3. thr \in [Threads -> ThreadType]
    BY <1>1 DEF DataType
  <2>4. [thr EXCEPT ![t] = r] \in [Threads -> ThreadType]
    BY <2>2, <2>3
  <2>5. [thr EXCEPT ![t].pc = pc, ![t].line = i] = [thr EXCEPT ![t] = r]
    BY <2>1, <2>3
  <2> QED BY <2>4, <2>5
<1>5. CASE UNCHANGED vars
  BY <1>1, <1>5 DEF DataType, vars
<1>6. ASSUME NEW t \in Threads, NEW r \in Requests, Accept(t, r)
      PROVE  DataType'
  <2>1. thr' \in [Threads -> ThreadType]
    BY <1>1, <1>6, SizeAssumption DEF Accept, IdleThread, DataType, ThreadType, Pcs, Objects, Texts, Parts
  <2> QED BY <1>1, <1>6, <2>1 DEF Accept, DataType, shared
<1>7. ASSUME NEW t \in Threads, ReaderEnter(t)
      PROVE  DataType'
  <2>1. thr' \in [Threads -> ThreadType]
    BY <1>1, <1>7, <1>3 DEF ReaderEnter, Goto, Pcs, ReadPcs, WritePcs
  <2> QED BY <1>1, <1>7, <2>1 DEF ReaderEnter, DataType, shared
<1>8. ASSUME NEW t \in Threads, ReaderFirst(t)
      PROVE  DataType'
  <2>1. thr' \in [Threads -> ThreadType]
    BY <1>1, <1>8, <1>3 DEF ReaderFirst, Goto, Pcs, ReadPcs, WritePcs
  <2> QED BY <1>1, <1>8, <2>1 DEF ReaderFirst, DataType, shared
<1>9. ASSUME NEW t \in Threads, ReaderEntered(t)
      PROVE  DataType'
  <2>1. thr' \in [Threads -> ThreadType]
    BY <1>1, <1>9, <1>3 DEF ReaderEntered, Goto, Pcs, ReadPcs, WritePcs
  <2> QED BY <1>1, <1>9, <2>1 DEF ReaderEntered, DataType, shared
<1>10. ASSUME NEW t \in Threads, Scan(t)
      PROVE  DataType'
  <2>1. thr' \in [Threads -> ThreadType]
    <3> DEFINE found == Matches(thr[t].req.key)
    <3>1. found = {} => thr' = [thr EXCEPT ![t].pc = "leave"]
      BY <1>10 DEF Scan, Goto
    <3>2. found # {} => thr' = [thr EXCEPT ![t].pc = "send", ![t].line = Min(found)]
      BY <1>10 DEF Scan, GotoWith
    <3>3. found # {} => Min(found) \in Lines
      BY LineChosen
    <3>4. "leave" \in Pcs /\ "send" \in Pcs
      BY DEF Pcs, ReadPcs
    <3> HIDE DEF found
    <3>5. CASE found = {}
      <4>1. [thr EXCEPT ![t].pc = "leave"] \in [Threads -> ThreadType]
        BY <1>3, <3>4, Zenon
      <4> QED BY <3>1, <3>5, <4>1, Zenon
    <3>6. CASE found # {}
      <4>1. [thr EXCEPT ![t].pc = "send", ![t].line = Min(found)] \in [Threads -> ThreadType]
        BY <1>4, <3>3, <3>4, <3>6, Zenon
      <4> QED BY <3>2, <3>6, <4>1, Zenon
    <3> QED BY <3>5, <3>6
  <2> QED BY <1>1, <1>10, <2>1 DEF Scan, DataType, shared
<1>11. ASSUME NEW t \in Threads, Send(t)
      PROVE  DataType'
  <2>1. thr' \in [Threads -> ThreadType]
    BY <1>1, <1>2, <1>11 DEF Send, Exit, DataType, LineType, ThreadType, Objects, Pcs, ReadPcs, WritePcs
  <2> QED BY <1>1, <1>11, <2>1 DEF Send, Exit, DataType, shared
<1>12. ASSUME NEW t \in Threads, ReaderLeave(t)
      PROVE  DataType'
  <2>1. thr' \in [Threads -> ThreadType]
    BY <1>1, <1>12, <1>3 DEF ReaderLeave, Goto, Pcs, ReadPcs, WritePcs
  <2> QED BY <1>1, <1>12, <2>1 DEF ReaderLeave, DataType, shared
<1>13. ASSUME NEW t \in Threads, ReaderLast(t)
      PROVE  DataType'
  <2>1. thr' \in [Threads -> ThreadType]
    BY <1>1, <1>13, <1>3 DEF ReaderLast, Goto, Pcs, ReadPcs, WritePcs
  <2> QED BY <1>1, <1>13, <2>1 DEF ReaderLast, DataType, shared
<1>14. ASSUME NEW t \in Threads, ReaderLeft(t)
      PROVE  DataType'
  <2>1. thr' \in [Threads -> ThreadType]
    BY <1>1, <1>14, <1>3 DEF ReaderLeft, Goto, Pcs, ReadPcs, WritePcs
  <2> QED BY <1>1, <1>14, <2>1 DEF ReaderLeft, DataType, shared
<1>15. ASSUME NEW t \in Threads, Fetch(t)
      PROVE  DataType'
  <2>1. thr' \in [Threads -> ThreadType]
    <3>1. \A pc \in Pcs, b \in Texts :
             [thr EXCEPT ![t].pc = pc, ![t].buf = b] \in [Threads -> ThreadType]
      BY <1>1 DEF DataType, ThreadType
    <3>2. \A o \in {thr[t].req, Junk}, n \in Parts : [of |-> o, size |-> n] \in Texts
      BY <1>2 DEF ThreadType, Objects, Texts
    <3>3. "lock" \in Pcs
      BY DEF Pcs
    <3>4. PICK o \in {thr[t].req, Junk}, n \in Parts :
             thr' = [thr EXCEPT ![t].pc = "lock", ![t].buf = [of |-> o, size |-> n]]
      BY <1>15 DEF Fetch
    <3>5. PICK b : b = [of |-> o, size |-> n]
      OBVIOUS
    <3> QED BY <3>1, <3>2, <3>3, <3>4, <3>5
  <2> QED BY <1>1, <1>15, <2>1 DEF Fetch, DataType, shared
<1>16. ASSUME NEW t \in Threads, FetchLarge(t)
      PROVE  DataType'
  <2>1. thr' \in [Threads -> ThreadType]
    BY <1>1, <1>16, NewThreadIs DEF FetchLarge, Ends, Exit, DataType
  <2> QED BY <1>1, <1>16, <2>1 DEF FetchLarge, Exit, DataType, shared
<1>17. ASSUME NEW t \in Threads, FetchFails(t)
      PROVE  DataType'
  BY <1>1, <1>17 DEF FetchFails, Exit, shared, DataType
<1>18. ASSUME NEW t \in Threads, WriterLock(t)
      PROVE  DataType'
  <2>1. thr' \in [Threads -> ThreadType]
    BY <1>1, <1>18, <1>3 DEF WriterLock, Goto, Pcs, ReadPcs, WritePcs
  <2> QED BY <1>1, <1>18, <2>1 DEF WriterLock, DataType, shared
<1>19. ASSUME NEW t \in Threads, Touch(t)
      PROVE  DataType'
  <2>1. thr' \in [Threads -> ThreadType]
    BY <1>1, <1>19, <1>3 DEF Touch, Goto, Pcs, ReadPcs, WritePcs
  <2>2. cache' \in [Lines -> LineType]
    BY <1>1, <1>2, <1>19 DEF Touch, DataType, LineType, ThreadType
  <2> QED BY <1>1, <1>19, <2>1, <2>2 DEF Touch, DataType
<1>20. ASSUME NEW t \in Threads, WriteName(t)
      PROVE  DataType'
  <2>1. thr' \in [Threads -> ThreadType]
    BY <1>1, <1>20, <1>4, LineChosen DEF WriteName, GotoWith, Pcs, ReadPcs, WritePcs
  <2>2. cache' \in [Lines -> LineType]
    <3>1. thr[t].req.key \in Keys
      BY <1>2 DEF ThreadType, Keys
    <3> QED BY <1>1, <1>20, <3>1 DEF WriteName, DataType, LineType
  <2> QED BY <1>1, <1>20, <2>1, <2>2 DEF WriteName, DataType
<1>21. ASSUME NEW t \in Threads, WritePayload(t)
      PROVE  DataType'
  <2>1. thr' \in [Threads -> ThreadType]
    BY <1>1, <1>21, <1>3 DEF WritePayload, Goto, Pcs, ReadPcs, WritePcs
  <2>2. cache' \in [Lines -> LineType]
    <3>1. PICK k, x : k = thr[t].line /\ x = Strcpy(cache[k].payload, thr[t].buf)
      OBVIOUS
    <3>2. cache' = [cache EXCEPT ![k].payload = x]
      BY <1>21, <3>1 DEF WritePayload
    <3>3. CASE k \in Lines
      <4>1. cache[k].payload \in Payloads /\ thr[t].buf \in Texts
        BY <1>1, <1>2, <3>3 DEF DataType, LineType, ThreadType
      <4>2. x \in Payloads
        BY <3>1, <4>1, StrcpyMakes
      <4> QED BY <1>1, <3>2, <4>2 DEF DataType, LineType
    <3>4. CASE k \notin Lines
      BY <1>1, <3>2, <3>4 DEF DataType
    <3> QED BY <3>3, <3>4
  <2> QED BY <1>1, <1>21, <2>1, <2>2 DEF WritePayload, DataType
<1>22. ASSUME NEW t \in Threads, WriteStamp(t)
      PROVE  DataType'
  <2>1. thr' \in [Threads -> ThreadType]
    BY <1>1, <1>22, <1>3 DEF WriteStamp, Goto, Pcs, ReadPcs, WritePcs
  <2>2. cache' \in [Lines -> LineType]
    BY <1>1, <1>2, <1>22 DEF WriteStamp, DataType, LineType, ThreadType
  <2> QED BY <1>1, <1>22, <2>1, <2>2 DEF WriteStamp, DataType
<1>23. ASSUME NEW t \in Threads, WriterUnlock(t)
      PROVE  DataType'
  <2>1. thr' \in [Threads -> ThreadType]
    BY <1>1, <1>23, NewThreadIs DEF WriterUnlock, Ends, DataType
  <2> QED BY <1>1, <1>23, <2>1 DEF WriterUnlock, DataType, shared
<1>24. ASSUME NEW t \in Threads, ParseFails(t)
      PROVE  DataType'
  BY <1>1, <1>24 DEF ParseFails, Exit, shared, DataType
<1> QED
  BY <1>5, <1>6, <1>7, <1>8, <1>9, <1>10, <1>11, <1>12, <1>13, <1>14, <1>15, <1>16, <1>17, <1>18, <1>19, <1>20, <1>21, <1>22, <1>23, <1>24
     DEF Next, Step, Reader, Writer, Quiet

-----------------------------------------------------------------------------
(* The semaphores. *)

\* The two places of a thread are alike in all that SemInv speaks of.
SameRole(p, q) ==
    \A S \in {MutexPcs, CountedPcs, HeldForPcs, WritePcs, {"first"}, {"last"}} :
        p \in S <=> q \in S

\* How a move of one thread changes the set that readcnt counts.
LEMMA CountMoves ==
    ASSUME NEW t \in Threads, NEW p, NEW q, Moves(t, p, q)
    PROVE  /\ IsFiniteSet(Counted) /\ Cardinality(Counted) \in Nat
           /\ (p \in CountedPcs <=> q \in CountedPcs) => Counted' = Counted
           /\ p \notin CountedPcs /\ q \in CountedPcs =>
                 /\ Counted' = Counted \cup {t}
                 /\ Cardinality(Counted') = Cardinality(Counted) + 1
           /\ p \in CountedPcs /\ q \notin CountedPcs =>
                 /\ Counted' = Counted \ {t}
                 /\ Cardinality(Counted') = Cardinality(Counted) - 1
<1>1. IsFiniteSet(Counted) /\ Cardinality(Counted) \in Nat
  BY ThreadsAssumption, FS_Subset, FS_CardinalityType DEF Counted
<1>2. t \in Counted <=> p \in CountedPcs
  BY DEF Counted, Moves
<1>3. (p \in CountedPcs <=> q \in CountedPcs) => Counted' = Counted
  BY DEF Counted, Moves
<1>4. ASSUME p \notin CountedPcs, q \in CountedPcs
      PROVE  Counted' = Counted \cup {t} /\ Cardinality(Counted') = Cardinality(Counted) + 1
  <2>1. Counted' = Counted \cup {t}
    BY <1>4 DEF Counted, Moves
  <2> QED BY <1>1, <1>2, <1>4, <2>1, FS_AddElement
<1>5. ASSUME p \in CountedPcs, q \notin CountedPcs
      PROVE  Counted' = Counted \ {t} /\ Cardinality(Counted') = Cardinality(Counted) - 1
  <2>1. Counted' = Counted \ {t}
    BY <1>5 DEF Counted, Moves
  <2> QED BY <1>1, <1>2, <1>5, <2>1, FS_RemoveElement
<1> QED BY <1>1, <1>3, <1>4, <1>5

\* A move between like places, with the semaphores left alone.
LEMMA NeutralMove ==
    ASSUME SemInv, NEW t \in Threads, NEW p, NEW q, Moves(t, p, q), SameRole(p, q),
           UNCHANGED <<readcnt, mutex, w>>
    PROVE  SemInv'
<1>1. Counted' = Counted /\ HoldsMutex' = HoldsMutex /\ HeldFor' = HeldFor /\ Writing' = Writing
  BY DEF Counted, HoldsMutex, HeldFor, Writing, Moves, SameRole
<1>2. (q = "first" => p = "first") /\ (q = "last" => p = "last")
  <2>1. p \in {"first"} <=> q \in {"first"}
    BY DEF SameRole
  <2>2. p \in {"last"} <=> q \in {"last"}
    BY DEF SameRole
  <2> QED BY <2>1, <2>2
<1>3. \A u \in Threads : thr'[u].pc \in {"first", "last"} => thr'[u].pc = thr[u].pc
  BY <1>2 DEF Moves
<1>4. MutexInv'
  BY <1>1 DEF SemInv, MutexInv
<1>5. CountInv'
  BY <1>1, <1>3 DEF SemInv, CountInv
<1>6. WInv'
  BY <1>1 DEF SemInv, WInv
<1> QED BY <1>4, <1>5, <1>6 DEF SemInv

\* P(&mutex); readcnt++: the first reader is alone, and a later one finds w held.
LEMMA ReaderEnterSem ==
    ASSUME TypeOK, SemInv, NEW t \in Threads, ReaderEnter(t)
    PROVE  SemInv'
<1> DEFINE q == thr'[t].pc
<1>1. Moves(t, "enter", q) /\ q = IF readcnt + 1 = 1 THEN "first" ELSE "entered"
  BY DEF ReaderEnter, Goto, At, Moves, TypeOK, ThreadType
<1> HIDE DEF q
<1>2. "enter" \notin CountedPcs /\ q \in CountedPcs
  BY <1>1 DEF CountedPcs, ReadPcs
<1>3. Counted' = Counted \cup {t} /\ Cardinality(Counted') = Cardinality(Counted) + 1
  BY <1>1, <1>2, CountMoves
<1>4. HoldsMutex = {} /\ mutex = 1 /\ mutex' = 0
  BY DEF SemInv, MutexInv, ReaderEnter
<1>5. MutexInv'
  <2>1. HoldsMutex' = {t}
    BY <1>1, <1>4 DEF HoldsMutex, MutexPcs, Moves
  <2> QED BY <1>4, <2>1 DEF MutexInv
<1>6. \A u \in Threads : thr[u].pc # "first" /\ thr[u].pc # "last"
  BY <1>4 DEF HoldsMutex, MutexPcs
<1>7. readcnt = 0 <=> Counted = {}
  <2>1. IsFiniteSet(Counted)
    BY ThreadsAssumption, FS_Subset DEF Counted
  <2> QED BY <2>1, FS_EmptySet DEF SemInv, CountInv
<1>8. CountInv'
  <2>1. readcnt' = Cardinality(Counted')
    BY <1>3 DEF SemInv, CountInv, ReaderEnter
  <2>2. q = "first" => Counted' = {t}
    BY <1>1, <1>3, <1>7 DEF SemInv, CountInv, TypeOK
  <2>3. \A u \in Threads : thr'[u].pc = "first" => u = t
    BY <1>1, <1>6 DEF Moves
  <2>4. \A u \in Threads : thr'[u].pc # "last"
    BY <1>1, <1>6 DEF Moves
  <2> QED BY <1>1, <2>1, <2>2, <2>3, <2>4 DEF CountInv, Moves
<1>9. WInv'
  <2>1. Writing' = Writing /\ w' = w
    BY <1>1 DEF Writing, WritePcs, Moves, ReaderEnter
  <2>2. CASE q = "first"
    <3>1. HeldFor' = HeldFor
      BY <1>1, <2>2 DEF HeldFor, HeldForPcs, ReadPcs, Moves
    <3> QED BY <2>1, <3>1 DEF SemInv, WInv
  <2>3. CASE q = "entered"
    <3>1. HeldFor' = HeldFor \cup {t}
      BY <1>1, <2>3 DEF HeldFor, HeldForPcs, ReadPcs, Moves
    <3>2. PICK u \in Counted : TRUE
      BY <1>1, <1>7, <2>3
    <3>3. u \in HeldFor
      BY <1>6 DEF Counted, CountedPcs, HeldFor, HeldForPcs
    <3>4. w = 0 /\ Writing = {}
      BY <3>3 DEF SemInv, WInv
    <3> QED BY <2>1, <3>1, <3>4 DEF SemInv, WInv
  <2> QED BY <1>1, <2>2, <2>3
<1> QED BY <1>5, <1>8, <1>9 DEF SemInv

\* P(&w) of the first reader, which keeps mutex.
LEMMA ReaderFirstSem ==
    ASSUME TypeOK, SemInv, NEW t \in Threads, ReaderFirst(t)
    PROVE  SemInv'
<1>1. Moves(t, "first", "entered")
  BY DEF ReaderFirst, Goto, At, Moves, TypeOK, ThreadType
<1>2. Counted' = Counted
  BY <1>1 DEF Counted, CountedPcs, Moves
<1>3. HoldsMutex' = HoldsMutex
  BY <1>1 DEF HoldsMutex, MutexPcs, Moves
<1>4. \A u \in Threads : thr'[u].pc \in {"first", "last"} => thr'[u].pc = thr[u].pc
  BY <1>1 DEF Moves
<1>5. w = 1 /\ w' = 0 /\ Writing = {} /\ HeldFor = {}
  BY DEF SemInv, WInv, ReaderFirst
<1>6. Writing' = {} /\ HeldFor' = {t}
  BY <1>1, <1>5 DEF Writing, WritePcs, HeldFor, HeldForPcs, ReadPcs, Moves
<1>7. MutexInv'
  BY <1>3 DEF SemInv, MutexInv, ReaderFirst
<1>8. CountInv'
  BY <1>2, <1>4 DEF SemInv, CountInv, ReaderFirst
<1>9. WInv'
  BY <1>5, <1>6 DEF WInv
<1> QED BY <1>7, <1>8, <1>9 DEF SemInv

\* V(&mutex): the reader goes on to the cache.
LEMMA ReaderEnteredSem ==
    ASSUME TypeOK, SemInv, NEW t \in Threads, ReaderEntered(t)
    PROVE  SemInv'
<1>1. Moves(t, "entered", "scan")
  BY DEF ReaderEntered, Goto, At, Moves, TypeOK, ThreadType
<1>2. Counted' = Counted /\ HeldFor' = HeldFor /\ Writing' = Writing
  BY <1>1 DEF Counted, CountedPcs, HeldFor, HeldForPcs, Writing, ReadPcs, WritePcs, Moves
<1>3. HoldsMutex = {t} /\ mutex = 0
  BY <1>1 DEF SemInv, MutexInv, HoldsMutex, MutexPcs, Moves
<1>4. HoldsMutex' = {} /\ mutex' = 1
  BY <1>1, <1>3 DEF HoldsMutex, MutexPcs, Moves, ReaderEntered
<1>5. \A u \in Threads : thr'[u].pc \in {"first", "last"} => thr'[u].pc = thr[u].pc
  BY <1>1 DEF Moves
<1>6. MutexInv'
  BY <1>4 DEF MutexInv
<1>7. CountInv'
  BY <1>2, <1>5 DEF SemInv, CountInv, ReaderEntered
<1>8. WInv'
  BY <1>2 DEF SemInv, WInv, ReaderEntered
<1> QED BY <1>6, <1>7, <1>8 DEF SemInv

\* P(&mutex); readcnt--: the last reader knows that no other is counted.
LEMMA ReaderLeaveSem ==
    ASSUME TypeOK, SemInv, NEW t \in Threads, ReaderLeave(t)
    PROVE  SemInv'
<1> DEFINE q == thr'[t].pc
<1>1. Moves(t, "leave", q) /\ q = IF readcnt - 1 = 0 THEN "last" ELSE "left"
  BY DEF ReaderLeave, Goto, At, Moves, TypeOK, ThreadType
<1> HIDE DEF q
<1>2. "leave" \in CountedPcs /\ q \notin CountedPcs
  BY <1>1 DEF CountedPcs, ReadPcs
<1>3. Counted' = Counted \ {t} /\ Cardinality(Counted') = Cardinality(Counted) - 1
  BY <1>1, <1>2, CountMoves
<1>4. HoldsMutex = {} /\ mutex = 1 /\ mutex' = 0
  BY DEF SemInv, MutexInv, ReaderLeave
<1>5. MutexInv'
  <2>1. HoldsMutex' = {t}
    BY <1>1, <1>4 DEF HoldsMutex, MutexPcs, Moves
  <2> QED BY <1>4, <2>1 DEF MutexInv
<1>6. \A u \in Threads : thr[u].pc # "first" /\ thr[u].pc # "last"
  BY <1>4 DEF HoldsMutex, MutexPcs
<1>7. readcnt' = Cardinality(Counted')
  BY <1>3 DEF SemInv, CountInv, ReaderLeave
<1>8. readcnt' = 0 <=> Counted' = {}
  <2>1. IsFiniteSet(Counted')
    BY <1>3, ThreadsAssumption, FS_Subset DEF Counted
  <2> HIDE DEF q
  <2> QED BY <1>7, <2>1, FS_EmptySet
<1>9. q = "last" <=> Counted' = {}
  BY <1>1, <1>8 DEF ReaderLeave
<1>10. CountInv'
  BY <1>1, <1>6, <1>7, <1>9 DEF CountInv, Moves
<1>11. WInv'
  <2>1. Writing' = Writing /\ w' = w
    BY <1>1 DEF Writing, WritePcs, Moves, ReaderLeave
  <2>2. t \in HeldFor /\ w = 0 /\ Writing = {}
    BY <1>1 DEF SemInv, WInv, HeldFor, HeldForPcs, ReadPcs, Moves
  <2>3. HeldFor' # {}
    <3>1. CASE q = "last"
      BY <1>1, <3>1 DEF HeldFor, HeldForPcs, Moves
    <3>2. CASE q # "last"
      <4>1. PICK u \in Counted' : TRUE
        BY <1>9, <3>2
      <4>2. u \in Threads \ {t} /\ thr[u].pc \in HeldForPcs
        BY <1>3, <1>6, <4>1 DEF Counted, CountedPcs, HeldForPcs
      <4> QED BY <1>1, <4>2 DEF HeldFor, Moves
    <3> QED BY <3>1, <3>2
  <2> QED BY <2>1, <2>2, <2>3 DEF SemInv, WInv
<1> QED BY <1>5, <1>10, <1>11 DEF SemInv

\* V(&w) of the last reader: no other reader needs it, nor is at it.
LEMMA ReaderLastSem ==
    ASSUME TypeOK, SemInv, NEW t \in Threads, ReaderLast(t)
    PROVE  SemInv'
<1>1. Moves(t, "last", "left")
  BY DEF ReaderLast, Goto, At, Moves, TypeOK, ThreadType
<1>2. Counted' = Counted
  BY <1>1 DEF Counted, CountedPcs, ReadPcs, Moves
<1>3. HoldsMutex' = HoldsMutex /\ \A u \in HoldsMutex : u = t
  BY <1>1 DEF SemInv, MutexInv, HoldsMutex, MutexPcs, Moves
<1>4. \A u \in Threads : thr'[u].pc \in {"first", "last"} => thr'[u].pc = thr[u].pc
  BY <1>1 DEF Moves
<1>5. Counted = {}
  BY <1>1 DEF SemInv, CountInv, Moves
<1>6. HeldFor = {t}
  <2>1. t \in HeldFor
    BY <1>1 DEF HeldFor, HeldForPcs, Moves
  <2>2. \A u \in HeldFor : u \in Counted \/ u \in HoldsMutex
    BY DEF HeldFor, HeldForPcs, Counted, CountedPcs, HoldsMutex, MutexPcs
  <2> QED BY <1>3, <1>5, <2>1, <2>2
<1>7. w = 0 /\ Writing = {}
  BY <1>6 DEF SemInv, WInv
<1>8. w' = 1 /\ Writing' = {} /\ HeldFor' = {}
  BY <1>1, <1>6, <1>7 DEF ReaderLast, Writing, WritePcs, HeldFor, HeldForPcs, ReadPcs, Moves
<1>9. MutexInv'
  BY <1>3 DEF SemInv, MutexInv, ReaderLast
<1>10. CountInv'
  BY <1>2, <1>4 DEF SemInv, CountInv, ReaderLast
<1>11. WInv'
  BY <1>8 DEF WInv
<1> QED BY <1>9, <1>10, <1>11 DEF SemInv

\* V(&mutex) at the end of reader.
LEMMA ReaderLeftSem ==
    ASSUME TypeOK, SemInv, NEW t \in Threads, ReaderLeft(t)
    PROVE  SemInv'
<1> DEFINE q == thr'[t].pc
<1>1. Moves(t, "left", q) /\ q \in {"fetch", "lock"}
  BY DEF ReaderLeft, Goto, At, Moves, TypeOK, ThreadType
<1> HIDE DEF q
<1>2. Counted' = Counted /\ HeldFor' = HeldFor /\ Writing' = Writing
  BY <1>1 DEF Counted, CountedPcs, HeldFor, HeldForPcs, Writing, ReadPcs, WritePcs, Moves
<1>3. HoldsMutex = {t} /\ mutex = 0
  BY <1>1 DEF SemInv, MutexInv, HoldsMutex, MutexPcs, Moves
<1>4. HoldsMutex' = {} /\ mutex' = 1
  BY <1>1, <1>3 DEF HoldsMutex, MutexPcs, Moves, ReaderLeft
<1>5. \A u \in Threads : thr'[u].pc \in {"first", "last"} => thr'[u].pc = thr[u].pc
  BY <1>1 DEF Moves
<1>6. MutexInv'
  BY <1>4 DEF MutexInv
<1>7. CountInv'
  BY <1>2, <1>5 DEF SemInv, CountInv, ReaderLeft
<1>8. WInv'
  BY <1>2 DEF SemInv, WInv, ReaderLeft
<1> QED BY <1>6, <1>7, <1>8 DEF SemInv

\* P(&w) of the writer.
LEMMA WriterLockSem ==
    ASSUME TypeOK, SemInv, NEW t \in Threads, WriterLock(t)
    PROVE  SemInv'
<1> DEFINE q == thr'[t].pc
<1>1. Moves(t, "lock", q) /\ q \in {"name", "touch"}
  BY DEF WriterLock, Goto, At, Moves, TypeOK, ThreadType
<1> HIDE DEF q
<1>2. Counted' = Counted /\ HeldFor' = HeldFor /\ HoldsMutex' = HoldsMutex
  BY <1>1 DEF Counted, CountedPcs, HeldFor, HeldForPcs, ReadPcs, HoldsMutex, MutexPcs, Moves
<1>3. w = 1 /\ w' = 0 /\ Writing = {} /\ HeldFor = {}
  BY DEF SemInv, WInv, WriterLock
<1>4. Writing' = {t}
  BY <1>1, <1>3 DEF Writing, WritePcs, Moves
<1>5. \A u \in Threads : thr'[u].pc \in {"first", "last"} => thr'[u].pc = thr[u].pc
  BY <1>1 DEF Moves
<1>6. MutexInv'
  BY <1>2 DEF SemInv, MutexInv, WriterLock
<1>7. CountInv'
  BY <1>2, <1>5 DEF SemInv, CountInv, WriterLock
<1>8. WInv'
  BY <1>2, <1>3, <1>4 DEF WInv
<1> QED BY <1>6, <1>7, <1>8 DEF SemInv

\* V(&w) of the writer.
LEMMA WriterUnlockSem ==
    ASSUME TypeOK, SemInv, NEW t \in Threads, WriterUnlock(t)
    PROVE  SemInv'
<1>1. Moves(t, "unlock", "idle")
  BY NewThreadIs DEF WriterUnlock, Ends, At, Moves, TypeOK
<1>2. Counted' = Counted /\ HeldFor' = HeldFor /\ HoldsMutex' = HoldsMutex
  BY <1>1 DEF Counted, CountedPcs, HeldFor, HeldForPcs, ReadPcs, HoldsMutex, MutexPcs, Moves
<1>3. Writing = {t} /\ HeldFor = {} /\ w = 0
  BY <1>1 DEF SemInv, WInv, Writing, WritePcs, Moves
<1>4. w' = 1 /\ Writing' = {}
  BY <1>1, <1>3 DEF Writing, WritePcs, Moves, WriterUnlock
<1>5. \A u \in Threads : thr'[u].pc \in {"first", "last"} => thr'[u].pc = thr[u].pc
  BY <1>1 DEF Moves
<1>6. MutexInv'
  BY <1>2 DEF SemInv, MutexInv, WriterUnlock
<1>7. CountInv'
  BY <1>2, <1>5 DEF SemInv, CountInv, WriterUnlock
<1>8. WInv'
  BY <1>2, <1>3, <1>4 DEF WInv
<1> QED BY <1>6, <1>7, <1>8 DEF SemInv

\* Every step keeps what the semaphores mean.
LEMMA SemStep ==
    ASSUME TypeOK, SemInv, [Next]_vars
    PROVE  SemInv'
<1>1. ASSUME UNCHANGED <<readcnt, mutex, w, thr>>
      PROVE  SemInv'
  BY <1>1 DEF SemInv, MutexInv, CountInv, WInv, HoldsMutex, Counted, HeldFor, Writing
<1>2. ASSUME NEW t \in Threads, NEW r \in Requests, Accept(t, r)
      PROVE  SemInv'
  <2>1. Moves(t, "idle", "enter")
    BY <1>2 DEF Accept, IdleThread, At, Moves, TypeOK, ThreadType
  <2>2. SameRole("idle", "enter")
    BY DEF SameRole, MutexPcs, CountedPcs, HeldForPcs, ReadPcs, WritePcs
  <2> QED BY <1>2, <2>1, <2>2, NeutralMove DEF Accept, shared
<1>3. ASSUME NEW t \in Threads, Scan(t)
      PROVE  SemInv'
  <2>1. Moves(t, "scan", "send") \/ Moves(t, "scan", "leave")
    BY <1>3 DEF Scan, Goto, GotoWith, At, Moves, TypeOK, ThreadType
  <2>2. SameRole("scan", "send") /\ SameRole("scan", "leave")
    BY DEF SameRole, MutexPcs, CountedPcs, HeldForPcs, ReadPcs, WritePcs
  <2> QED BY <1>3, <2>1, <2>2, NeutralMove DEF Scan, shared
<1>4. ASSUME NEW t \in Threads, Fetch(t)
      PROVE  SemInv'
  <2>1. Moves(t, "fetch", "lock")
    BY <1>4 DEF Fetch, At, Moves, TypeOK, ThreadType
  <2>2. SameRole("fetch", "lock")
    BY DEF SameRole, MutexPcs, CountedPcs, HeldForPcs, ReadPcs, WritePcs
  <2> QED BY <1>4, <2>1, <2>2, NeutralMove DEF Fetch, shared
<1>5. ASSUME NEW t \in Threads, FetchLarge(t)
      PROVE  SemInv'
  <2>1. CASE Exit
    BY <1>1, <2>1 DEF Exit, shared
  <2>2. CASE ~Exit
    <3>1. Moves(t, "fetch", "idle") /\ UNCHANGED <<readcnt, mutex, w>>
      BY <1>5, <2>2, NewThreadIs DEF FetchLarge, Ends, At, Moves, TypeOK, shared
    <3>2. SameRole("fetch", "idle")
      BY DEF SameRole, MutexPcs, CountedPcs, HeldForPcs, ReadPcs, WritePcs
    <3> QED BY <3>1, <3>2, NeutralMove
  <2> QED BY <2>1, <2>2
<1>6. ASSUME NEW t \in Threads, Touch(t)
      PROVE  SemInv'
  <2>1. Moves(t, "touch", "unlock")
    BY <1>6 DEF Touch, Goto, At, Moves, TypeOK, ThreadType
  <2>2. SameRole("touch", "unlock")
    BY DEF SameRole, MutexPcs, CountedPcs, HeldForPcs, ReadPcs, WritePcs
  <2> QED BY <1>6, <2>1, <2>2, NeutralMove DEF Touch
<1>7. ASSUME NEW t \in Threads, WriteName(t)
      PROVE  SemInv'
  <2>1. Moves(t, "name", "payload")
    BY <1>7 DEF WriteName, GotoWith, At, Moves, TypeOK, ThreadType
  <2>2. SameRole("name", "payload")
    BY DEF SameRole, MutexPcs, CountedPcs, HeldForPcs, ReadPcs, WritePcs
  <2> QED BY <1>7, <2>1, <2>2, NeutralMove DEF WriteName
<1>8. ASSUME NEW t \in Threads, WritePayload(t)
      PROVE  SemInv'
  <2>1. Moves(t, "payload", "stamp")
    BY <1>8 DEF WritePayload, Goto, At, Moves, TypeOK, ThreadType
  <2>2. SameRole("payload", "stamp")
    BY DEF SameRole, MutexPcs, CountedPcs, HeldForPcs, ReadPcs, WritePcs
  <2> QED BY <1>8, <2>1, <2>2, NeutralMove DEF WritePayload
<1>9. ASSUME NEW t \in Threads, WriteStamp(t)
      PROVE  SemInv'
  <2>1. Moves(t, "stamp", "unlock")
    BY <1>9 DEF WriteStamp, Goto, At, Moves, TypeOK, ThreadType
  <2>2. SameRole("stamp", "unlock")
    BY DEF SameRole, MutexPcs, CountedPcs, HeldForPcs, ReadPcs, WritePcs
  <2> QED BY <1>9, <2>1, <2>2, NeutralMove DEF WriteStamp
<1>10. ASSUME NEW t \in Threads, Send(t)
      PROVE  SemInv'
  <2>1. CASE Exit
    BY <1>1, <2>1 DEF Exit, shared
  <2>2. CASE ~Exit
    <3>1. Moves(t, "send", "leave") /\ UNCHANGED <<readcnt, mutex, w>>
      <4>1. /\ thr[t].pc = "send" /\ UNCHANGED shared
            /\ thr' = [thr EXCEPT ![t].pc = "leave",
                                  ![t].sent = cache[thr[t].line].payload]
        BY <1>10, <2>2 DEF Send, At
      <4>2. thr'[t].pc = "leave" /\ \A u \in Threads \ {t} : thr'[u] = thr[u]
        BY <4>1 DEF TypeOK, ThreadType
      <4> QED BY <4>1, <4>2 DEF Moves, shared
    <3>2. SameRole("send", "leave")
      BY DEF SameRole, MutexPcs, CountedPcs, HeldForPcs, ReadPcs, WritePcs
    <3> QED BY <3>1, <3>2, NeutralMove
  <2> QED BY <2>1, <2>2
<1>11. ASSUME NEW t \in Threads, FetchFails(t) \/ ParseFails(t)
      PROVE  SemInv'
  BY <1>1, <1>11 DEF FetchFails, ParseFails, Exit, shared
<1>12. CASE Quiet \/ UNCHANGED vars
  BY <1>1, <1>12 DEF Quiet, vars
<1> QED
  BY <1>2, <1>3, <1>4, <1>5, <1>6, <1>7, <1>8, <1>9, <1>10, <1>11, <1>12, ReaderEnterSem, ReaderFirstSem, ReaderEnteredSem,
     ReaderLeaveSem, ReaderLastSem, ReaderLeftSem, WriterLockSem, WriterUnlockSem
     DEF Next, Step, Reader, Writer

\* The meaning of the semaphores, and the types that rest on it.
LEMMA SemInvariant == Spec => [](TypeOK /\ SemInv)
<1>1. Init => TypeOK /\ SemInv
  <2> SUFFICES ASSUME Init PROVE TypeOK /\ SemInv
    OBVIOUS
  <2>2. thr \in [Threads -> ThreadType] /\ \A t \in Threads : thr[t].pc = "idle"
    BY NewThreadIs DEF Init
  <2>3. cache \in [Lines -> LineType]
    <3>1. Malloced \in Payloads
      BY SizeAssumption DEF Malloced, Payloads, Parts, Objects
    <3> QED BY <3>1 DEF Init, LineType
  <2>4. TypeOK
    BY <2>2, <2>3, LinesAssumption DEF Init, TypeOK
  <2>5. HoldsMutex = {} /\ Counted = {} /\ HeldFor = {} /\ Writing = {}
    BY <2>2 DEF HoldsMutex, MutexPcs, Counted, CountedPcs, HeldFor, HeldForPcs,
                ReadPcs, Writing, WritePcs
  <2>6. SemInv
    BY <2>2, <2>5, FS_EmptySet DEF Init, SemInv, MutexInv, CountInv, WInv
  <2> QED BY <2>4, <2>6
<1>2. TypeOK /\ SemInv /\ [Next]_vars => (TypeOK /\ SemInv)'
  <2> SUFFICES ASSUME TypeOK, SemInv, [Next]_vars PROVE (TypeOK /\ SemInv)'
    OBVIOUS
  <2>1. SemInv' /\ DataType'
    BY SemStep, DataStep
  <2>2. IsFiniteSet(Counted')
    BY ThreadsAssumption, FS_Subset DEF Counted
  <2>3. readcnt' \in Nat
    BY <2>1, <2>2, FS_CardinalityType DEF SemInv, CountInv
  <2> QED BY <2>1, <2>3 DEF SemInv, MutexInv, WInv, DataType, TypeOK
<1> QED BY <1>1, <1>2, PTL DEF Spec

\* Whatever the interleaving of the threads, the variables keep their types:
\* usedcnt stays within the lines and the semaphores at 0 or 1 (proxy.c:196-247).
THEOREM TypeCorrect == Spec => []TypeOK
BY SemInvariant, PTL

\* P(&w) of the writer keeps out the other writers and every reader that is
\* counted, for any number of threads (proxy.c:198-221).
THEOREM WriterIsAlone == Spec => []WriterAlone
<1>1. SemInv => WriterAlone
  BY DEF SemInv, WInv, WriterAlone, Writing, Reading, HeldFor, HeldForPcs
<1> QED BY <1>1, SemInvariant, PTL

-----------------------------------------------------------------------------
(* What the lines hold. *)

\* What LineInv says of one thread.
LineInvOf(t) ==
    /\ thr[t].buf.of \in {thr[t].req, Junk}
    /\ thr[t].pc \in {"send", "touch", "payload", "stamp"} => thr[t].line \in Lines
    /\ thr[t].pc \in {"send", "payload"} => cache[thr[t].line].name = thr[t].req.key

OthersStay(t) == \A u \in Threads \ {t} : thr'[u] = thr[u]

SameContent ==
    \A i \in Lines : /\ cache'[i].name = cache[i].name
                     /\ cache'[i].payload = cache[i].payload

\* A step that copies no name and no payload.
LEMMA ContentKept ==
    ASSUME CacheInv, NEW t \in Threads, OthersStay(t), SameContent,
           thr[t].pc # "payload", LineInvOf(t)'
    PROVE  CacheInv'
<1>1. LineInv'
  <2> SUFFICES ASSUME NEW u \in Threads PROVE LineInvOf(u)'
    BY DEF LineInv, LineInvOf
  <2>1. CASE u = t
    BY <2>1
  <2>2. CASE u # t
    <3>1. LineInvOf(u) /\ thr'[u] = thr[u]
      BY <2>2 DEF CacheInv, LineInv, LineInvOf, OthersStay
    <3> QED BY <3>1 DEF LineInvOf, SameContent
  <2> QED BY <2>1, <2>2
<1>2. PayloadInv'
  <2> SUFFICES ASSUME NEW i \in Lines, ~IsObjectOf(cache'[i].name, cache'[i].payload)
               PROVE  \E u \in Threads : thr'[u].pc = "payload" /\ thr'[u].line = i
    BY DEF PayloadInv
  <2>1. PICK u \in Threads : thr[u].pc = "payload" /\ thr[u].line = i
    BY DEF CacheInv, PayloadInv, SameContent
  <2> QED BY <2>1 DEF OthersStay
<1> QED BY <1>1, <1>2 DEF CacheInv

\* What LineInvOf says of a thread that another step leaves alone while it is
\* the only one to write: nobody reads, and nobody else writes.
LEMMA NobodyElse ==
    ASSUME SemInv, NEW t \in Writing, NEW u \in Threads \ {t}
    PROVE  thr[u].pc \notin {"send", "touch", "payload", "stamp"}
BY DEF SemInv, WInv, Writing, WritePcs, HeldFor, HeldForPcs, ReadPcs

\* The name is copied (proxy.c:240): the line's payload is stale until the next step
\* of the same thread, and nobody is there to see it.
LEMMA WriteNameContent ==
    ASSUME TypeOK, SemInv, CacheInv, NEW t \in Threads, WriteName(t)
    PROVE  CacheInv'
<1>1. t \in Writing
  BY DEF WriteName, At, Writing, WritePcs
<1>2. Target \in Lines
  BY LineChosen
<1> DEFINE k == Target
<1> HIDE DEF k
<1>3. /\ k \in Lines
      /\ thr' = [thr EXCEPT ![t].pc = "payload", ![t].line = k]
      /\ cache' = [cache EXCEPT ![k].name = thr[t].req.key]
  BY <1>2 DEF WriteName, GotoWith, k
<1>4. /\ thr'[t].pc = "payload" /\ thr'[t].line = k
      /\ thr'[t].buf = thr[t].buf /\ thr'[t].req = thr[t].req
  BY <1>3 DEF TypeOK, ThreadType
<1>5. OthersStay(t)
  BY <1>3 DEF OthersStay, TypeOK
<1>6. /\ cache'[k].name = thr[t].req.key
      /\ \A i \in Lines \ {k} : cache'[i] = cache[i]
  BY <1>3 DEF TypeOK, LineType
<1>7. LineInv'
  <2> SUFFICES ASSUME NEW u \in Threads PROVE LineInvOf(u)'
    BY DEF LineInv, LineInvOf
  <2>1. LineInvOf(u)
    BY DEF CacheInv, LineInv, LineInvOf
  <2>2. CASE u = t
    BY <1>3, <1>4, <1>6, <2>1, <2>2 DEF LineInvOf
  <2>3. CASE u # t
    <3>1. thr'[u] = thr[u] /\ thr[u].pc \notin {"send", "touch", "payload", "stamp"}
      BY <1>1, <1>5, <2>3, NobodyElse DEF OthersStay
    <3> QED BY <2>1, <3>1 DEF LineInvOf
  <2> QED BY <2>2, <2>3
<1>8. PayloadInv'
  <2> SUFFICES ASSUME NEW i \in Lines, ~IsObjectOf(cache'[i].name, cache'[i].payload)
               PROVE  \E u \in Threads : thr'[u].pc = "payload" /\ thr'[u].line = i
    BY DEF PayloadInv
  <2>1. CASE i = k
    BY <1>4, <2>1
  <2>2. CASE i # k
    <3>1. PICK u \in Threads : thr[u].pc = "payload" /\ thr[u].line = i
      BY <1>6, <2>2 DEF CacheInv, PayloadInv
    <3>2. thr[t].pc = "name"
      BY DEF WriteName, At
    <3> QED BY <1>5, <3>1, <3>2 DEF OthersStay
  <2> QED BY <2>1, <2>2
<1> QED BY <1>7, <1>8 DEF CacheInv

\* The payload is copied (proxy.c:241): from here on it answers to the name.
LEMMA WritePayloadContent ==
    ASSUME TypeOK, SemInv, CacheInv, NEW t \in Threads, WritePayload(t)
    PROVE  CacheInv'
<1>1. t \in Writing /\ thr[t].pc = "payload"
  BY DEF WritePayload, At, Writing, WritePcs
<1> DEFINE k == thr[t].line
<1>2. LineInvOf(t)
  BY DEF CacheInv, LineInv, LineInvOf
<1>3. /\ k \in Lines
      /\ cache[k].name = thr[t].req.key
      /\ thr' = [thr EXCEPT ![t].pc = "stamp"]
      /\ cache' = [cache EXCEPT ![k].payload = Strcpy(@, thr[t].buf)]
  BY <1>1, <1>2 DEF WritePayload, Goto, LineInvOf
<1>4. /\ thr'[t].pc = "stamp" /\ thr'[t].line = k
      /\ thr'[t].buf = thr[t].buf /\ thr'[t].req = thr[t].req
  BY <1>3 DEF TypeOK, ThreadType
<1>5. OthersStay(t)
  BY <1>3 DEF OthersStay, TypeOK
<1>6. /\ cache'[k].payload = Strcpy(cache[k].payload, thr[t].buf)
      /\ cache'[k].name = cache[k].name
      /\ \A i \in Lines \ {k} : cache'[i] = cache[i]
  BY <1>3 DEF TypeOK, LineType
<1>7. LineInv'
  <2> SUFFICES ASSUME NEW u \in Threads PROVE LineInvOf(u)'
    BY DEF LineInv, LineInvOf
  <2>1. CASE u = t
    BY <1>2, <1>3, <1>4, <2>1 DEF LineInvOf
  <2>2. CASE u # t
    <3>1. thr'[u] = thr[u] /\ thr[u].pc \notin {"send", "touch", "payload", "stamp"}
      BY <1>1, <1>5, <2>2, NobodyElse DEF OthersStay
    <3>2. LineInvOf(u)
      BY DEF CacheInv, LineInv, LineInvOf
    <3> QED BY <3>1, <3>2 DEF LineInvOf
  <2> QED BY <2>1, <2>2
<1>8. PayloadInv'
  <2> SUFFICES ASSUME NEW i \in Lines
               PROVE  IsObjectOf(cache'[i].name, cache'[i].payload)
    BY DEF PayloadInv
  <2>1. CASE i = k
    <3>1. /\ thr[t].buf \in Texts /\ thr[t].req \in Requests
          /\ cache[k].payload \in Payloads
      BY <1>3 DEF TypeOK, ThreadType, LineType
    <3>2. thr[t].buf.of = thr[t].req \/ thr[t].buf.of = Junk
      BY <1>2 DEF LineInvOf
    <3>3. thr[t].req \in Objects /\ Junk \in Objects
      BY <3>1 DEF Objects
    <3>4. IsObjectOf(thr[t].req.key, Strcpy(cache[k].payload, thr[t].buf))
      BY <3>1, <3>2, <3>3, StrcpyMakes
    <3> QED BY <1>3, <1>6, <2>1, <3>4
  <2>2. CASE i # k
    <3>1. \A u \in Threads : thr[u].pc = "payload" => u = t
      BY <1>1, NobodyElse
    <3> QED BY <1>6, <2>2, <3>1 DEF CacheInv, PayloadInv
  <2> QED BY <2>1, <2>2
<1> QED BY <1>7, <1>8 DEF CacheInv

\* Every step keeps what the lines hold.
LEMMA CacheStep ==
    ASSUME TypeOK, SemInv, CacheInv, [Next]_vars
    PROVE  CacheInv'
<1>1. \A t \in Threads : LineInvOf(t) /\ thr[t] \in ThreadType
  BY DEF CacheInv, LineInv, LineInvOf, TypeOK
<1>2. cache' = cache => SameContent
  BY DEF SameContent
<1>3. ASSUME UNCHANGED <<cache, thr>>
      PROVE  CacheInv'
  BY <1>3 DEF CacheInv, LineInv, PayloadInv
<1>4. ASSUME NEW t \in Threads, NEW r \in Requests, Accept(t, r)
      PROVE  CacheInv'
  <2>1. OthersStay(t) /\ LineInvOf(t)'
    BY <1>1, <1>4 DEF Accept, IdleThread, OthersStay, LineInvOf, TypeOK
  <2> QED BY <1>2, <1>4, <2>1, ContentKept DEF Accept, At, shared
<1>5. ASSUME NEW t \in Threads, ReaderEnter(t)
      PROVE  CacheInv'
  <2>1. OthersStay(t) /\ LineInvOf(t)'
    BY <1>1, <1>5 DEF ReaderEnter, At, Goto, OthersStay, LineInvOf, TypeOK, ThreadType
  <2> QED BY <1>2, <1>5, <2>1, ContentKept DEF ReaderEnter, At
<1>6. ASSUME NEW t \in Threads, ReaderFirst(t)
      PROVE  CacheInv'
  <2>1. OthersStay(t) /\ LineInvOf(t)'
    BY <1>1, <1>6 DEF ReaderFirst, At, Goto, OthersStay, LineInvOf, TypeOK, ThreadType
  <2> QED BY <1>2, <1>6, <2>1, ContentKept DEF ReaderFirst, At
<1>7. ASSUME NEW t \in Threads, ReaderEntered(t)
      PROVE  CacheInv'
  <2>1. OthersStay(t) /\ LineInvOf(t)'
    BY <1>1, <1>7 DEF ReaderEntered, At, Goto, OthersStay, LineInvOf, TypeOK, ThreadType
  <2> QED BY <1>2, <1>7, <2>1, ContentKept DEF ReaderEntered, At
<1>8. ASSUME NEW t \in Threads, ReaderLeave(t)
      PROVE  CacheInv'
  <2>1. OthersStay(t) /\ LineInvOf(t)'
    BY <1>1, <1>8 DEF ReaderLeave, At, Goto, OthersStay, LineInvOf, TypeOK, ThreadType
  <2> QED BY <1>2, <1>8, <2>1, ContentKept DEF ReaderLeave, At
<1>9. ASSUME NEW t \in Threads, ReaderLast(t)
      PROVE  CacheInv'
  <2>1. OthersStay(t) /\ LineInvOf(t)'
    BY <1>1, <1>9 DEF ReaderLast, At, Goto, OthersStay, LineInvOf, TypeOK, ThreadType
  <2> QED BY <1>2, <1>9, <2>1, ContentKept DEF ReaderLast, At
<1>10. ASSUME NEW t \in Threads, ReaderLeft(t)
      PROVE  CacheInv'
  <2>1. OthersStay(t) /\ LineInvOf(t)'
    BY <1>1, <1>10 DEF ReaderLeft, At, Goto, OthersStay, LineInvOf, TypeOK, ThreadType
  <2> QED BY <1>2, <1>10, <2>1, ContentKept DEF ReaderLeft, At
<1>11. ASSUME NEW t \in Threads, Fetch(t)
      PROVE  CacheInv'
  <2>1. OthersStay(t) /\ LineInvOf(t)'
    BY <1>1, <1>11 DEF Fetch, At, OthersStay, LineInvOf, TypeOK, ThreadType
  <2> QED BY <1>2, <1>11, <2>1, ContentKept DEF Fetch, At, shared
<1>12. ASSUME NEW t \in Threads, FetchLarge(t)
      PROVE  CacheInv'
  <2>1. CASE Exit
    BY <1>3, <2>1 DEF Exit, shared
  <2>2. CASE ~Exit
    <3>1. OthersStay(t) /\ LineInvOf(t)'
      BY <1>12, <2>2, NewThreadIs DEF FetchLarge, Ends, OthersStay, LineInvOf, TypeOK
    <3> QED BY <1>2, <1>12, <2>2, <3>1, ContentKept DEF FetchLarge, At, shared
  <2> QED BY <2>1, <2>2
<1>13. ASSUME NEW t \in Threads, WriterLock(t)
      PROVE  CacheInv'
  <2>1. OthersStay(t) /\ LineInvOf(t)'
    BY <1>1, <1>13 DEF WriterLock, At, Goto, OthersStay, LineInvOf, TypeOK, ThreadType
  <2> QED BY <1>2, <1>13, <2>1, ContentKept DEF WriterLock, At
<1>14. ASSUME NEW t \in Threads, WriterUnlock(t)
      PROVE  CacheInv'
  <2>1. OthersStay(t) /\ LineInvOf(t)'
    BY <1>14, NewThreadIs DEF WriterUnlock, Ends, OthersStay, LineInvOf, TypeOK
  <2> QED BY <1>2, <1>14, <2>1, ContentKept DEF WriterUnlock, At
<1>15. ASSUME NEW t \in Threads, Touch(t)
      PROVE  CacheInv'
  <2>1. SameContent
    BY <1>15 DEF Touch, SameContent, TypeOK, LineType
  <2>2. OthersStay(t) /\ LineInvOf(t)'
    BY <1>1, <1>15 DEF Touch, At, Goto, OthersStay, LineInvOf, TypeOK, ThreadType
  <2> QED BY <1>15, <2>1, <2>2, ContentKept DEF Touch, At
<1>16. ASSUME NEW t \in Threads, WriteStamp(t)
      PROVE  CacheInv'
  <2>1. SameContent
    BY <1>16 DEF WriteStamp, SameContent, TypeOK, LineType
  <2>2. OthersStay(t) /\ LineInvOf(t)'
    BY <1>1, <1>16 DEF WriteStamp, At, Goto, OthersStay, LineInvOf, TypeOK, ThreadType
  <2> QED BY <1>16, <2>1, <2>2, ContentKept DEF WriteStamp, At
<1>17. ASSUME NEW t \in Threads, Scan(t)
      PROVE  CacheInv'
  <2> DEFINE found == Matches(thr[t].req.key)
  <2>1. CASE found = {}
    <3>1. OthersStay(t) /\ LineInvOf(t)'
      BY <1>1, <1>17, <2>1 DEF Scan, At, Goto, OthersStay, LineInvOf, TypeOK, ThreadType
    <3> QED BY <1>2, <1>17, <3>1, ContentKept DEF Scan, At, shared
  <2>2. CASE found # {}
    <3> DEFINE i == Min(found)
    <3>1. i \in Lines /\ cache[i].name = thr[t].req.key
      <4>1. i \in found /\ found \subseteq Lines
        BY <2>2, LineChosen
      <4> QED BY <4>1 DEF Matches
    <3>2. thr' = [thr EXCEPT ![t].pc = "send", ![t].line = i] /\ cache' = cache
      BY <1>17, <2>2 DEF Scan, GotoWith, shared
    <3> HIDE DEF i
    <3>3. OthersStay(t) /\ LineInvOf(t)'
      BY <1>1, <3>1, <3>2 DEF OthersStay, LineInvOf, TypeOK, ThreadType
    <3> QED BY <1>2, <1>17, <3>2, <3>3, ContentKept DEF Scan, At
  <2> QED BY <2>1, <2>2
<1>18. ASSUME NEW t \in Threads, Send(t)
      PROVE  CacheInv'
  <2>1. CASE Exit
    BY <1>3, <2>1 DEF Exit, shared
  <2>2. CASE ~Exit
    <3>1. /\ thr' = [thr EXCEPT ![t].pc = "leave", ![t].sent = cache[thr[t].line].payload]
          /\ cache' = cache
      BY <1>18, <2>2 DEF Send, shared
    <3>2. /\ thr'[t].pc = "leave"
          /\ thr'[t].buf = thr[t].buf /\ thr'[t].req = thr[t].req
      BY <3>1 DEF TypeOK, ThreadType
    <3>3. OthersStay(t) /\ LineInvOf(t)'
      BY <1>1, <3>1, <3>2 DEF OthersStay, LineInvOf, TypeOK
    <3> QED BY <1>2, <1>18, <3>1, <3>3, ContentKept DEF Send, At
  <2> QED BY <2>1, <2>2
<1>19. ASSUME NEW t \in Threads, FetchFails(t) \/ ParseFails(t)
      PROVE  CacheInv'
  BY <1>3, <1>19 DEF FetchFails, ParseFails, Exit, shared
<1>20. CASE Quiet \/ UNCHANGED vars
  BY <1>3, <1>20 DEF Quiet, vars
<1> QED
  BY <1>4, <1>5, <1>6, <1>7, <1>8, <1>9, <1>10, <1>11, <1>12, <1>13, <1>14, <1>15, <1>16, <1>17, <1>18, <1>19, <1>20, WriteNameContent, WritePayloadContent
     DEF Next, Step, Reader, Writer

\* A client is served the object its host and path name, whichever requests are
\* replaced meanwhile: the copy of name and payload is not seen half done, and
\* the line found is not replaced before it is sent (proxy.c:206-207, 240-241).
THEOREM ServedWhatWasAsked == Spec => []ServesWhatWasAsked
<1>1. Init => CacheInv
  <2> SUFFICES ASSUME Init PROVE CacheInv
    OBVIOUS
  <2>1. \A t \in Threads : thr[t].pc = "idle" /\ thr[t].buf.of = Junk
    BY NewThreadIs DEF Init
  <2>2. \A i \in Lines : cache[i].name = None /\ cache[i].payload = Malloced
    BY DEF Init
  <2>3. IsObjectOf(None, Malloced)
    BY SizeAssumption DEF IsObjectOf, Malloced, Objects, Parts
  <2> QED BY <2>1, <2>2, <2>3 DEF CacheInv, LineInv, PayloadInv
<1>2. TypeOK /\ SemInv /\ (TypeOK /\ SemInv)' /\ CacheInv /\ [Next]_vars => CacheInv'
  BY CacheStep
<1>3. SemInv /\ CacheInv => ServesWhatWasAsked
  <2> SUFFICES ASSUME SemInv, CacheInv, NEW t \in Threads, thr[t].pc = "send"
               PROVE  /\ cache[thr[t].line].name = thr[t].req.key
                      /\ IsObjectOf(thr[t].req.key, cache[thr[t].line].payload)
    BY DEF ServesWhatWasAsked
  <2>1. thr[t].line \in Lines /\ cache[thr[t].line].name = thr[t].req.key
    BY DEF CacheInv, LineInv
  <2>2. \A u \in Threads : thr[u].pc # "payload"
    BY DEF SemInv, WInv, Writing, WritePcs, HeldFor, HeldForPcs, ReadPcs
  <2> QED BY <2>1, <2>2 DEF CacheInv, PayloadInv
<1> QED BY <1>1, <1>2, <1>3, SemInvariant, PTL DEF Spec

-----------------------------------------------------------------------------
(* What the lines were used for last.  The writer's clock moves with every *)
(* write, so the lines in use have distinct stamps, all older than the     *)
(* clock but the one just written.                                         *)

StampInv ==
    \A i \in 1 .. usedcnt :
        /\ cache[i].timestamp \in 0 .. gtime
        /\ cache[i].timestamp = gtime => \E t \in Threads : thr[t].pc = "unlock"
        /\ \A j \in 1 .. usedcnt : cache[i].timestamp = cache[j].timestamp => i = j

\* The line a thread has found is in use, and the first of its name while the thread
\* reads it; the one it fills is the next free one, or one of those in use.
UseInvOf(t) ==
    /\ thr[t].pc \in {"enter", "first", "entered", "scan", "fetch", "name"} => thr[t].line = 0
    /\ thr[t].pc \in {"send", "leave", "last", "left", "fetch", "lock", "touch"} =>
          thr[t].line \in 0 .. usedcnt
    /\ thr[t].pc \in {"send", "touch"} => thr[t].line # 0
    /\ thr[t].pc \in {"payload", "stamp"} =>
          /\ thr[t].line \in Lines
          /\ usedcnt < NUM_CACHE_LINE => thr[t].line = usedcnt + 1
    /\ thr[t].pc = "send" =>
          /\ cache[thr[t].line].name = thr[t].req.key
          /\ \A j \in 1 .. thr[t].line - 1 : cache[j].name # thr[t].req.key
    /\ thr[t].pc = "stamp" => Text(cache[thr[t].line].payload) = Whole(thr[t].buf)

UseInv == StampInv /\ \A t \in Threads : UseInvOf(t)

\* The lines in use are lines.
LEMMA UsedAreLines ==
    ASSUME TypeOK
    PROVE  /\ 1 .. usedcnt \subseteq Lines /\ usedcnt \in Nat
           /\ \A i \in Lines : cache[i].timestamp \in Nat \cup {-1}
BY LinesAssumption DEF TypeOK, Lines, LineType

\* A step that does not write.
LEMMA UseKept ==
    ASSUME TypeOK, UseInv, NEW t \in Threads, OthersStay(t),
           UNCHANGED <<cache, usedcnt, gtime>>, thr[t].pc # "unlock", UseInvOf(t)'
    PROVE  UseInv'
<1>1. StampInv'
  <2> SUFFICES ASSUME NEW i \in 1 .. usedcnt, cache[i].timestamp = gtime
               PROVE  \E u \in Threads : thr'[u].pc = "unlock"
    BY DEF UseInv, StampInv
  <2>1. PICK u \in Threads : thr[u].pc = "unlock"
    BY DEF UseInv, StampInv
  <2> QED BY <2>1 DEF OthersStay
<1>2. ASSUME NEW u \in Threads PROVE UseInvOf(u)'
  <2>1. CASE u = t
    BY <2>1
  <2>2. CASE u # t
    BY <2>2 DEF UseInv, UseInvOf, OthersStay
  <2> QED BY <2>1, <2>2
<1> QED BY <1>1, <1>2 DEF UseInv

\* A thread that is not the writer only has a line from before, which stays in use.
LEMMA OthersUse ==
    ASSUME TypeOK, SemInv, UseInv, NEW t \in Writing, NEW u \in Threads \ {t},
           thr'[u] = thr[u], usedcnt' \in Nat, usedcnt' >= usedcnt
    PROVE  UseInvOf(u)' /\ thr[u].pc # "unlock"
<1>1. thr[u].pc \notin {"send", "touch", "payload", "stamp", "unlock"}
  BY DEF SemInv, WInv, Writing, WritePcs, HeldFor, HeldForPcs, ReadPcs
<1>2. UseInvOf(u) /\ usedcnt \in Nat
  BY DEF UseInv, TypeOK
<1>3. 0 .. usedcnt \subseteq 0 .. usedcnt'
  BY <1>2
<1> QED BY <1>1, <1>2, <1>3 DEF UseInvOf

\* P(&w) gives the writer a cache no line of which was used now.
LEMMA AllOlder ==
    ASSUME TypeOK, SemInv, UseInv, NEW t \in Writing, thr[t].pc # "unlock"
    PROVE  \A i \in 1 .. usedcnt : cache[i].timestamp \in 0 .. gtime - 1
<1>1. \A u \in Threads : thr[u].pc # "unlock"
  BY DEF SemInv, WInv, Writing, WritePcs
<1> QED BY <1>1 DEF UseInv, StampInv, TypeOK

\* A hit moves the stamp of its line to now (proxy.c:225-228).
LEMMA TouchUse ==
    ASSUME TypeOK, SemInv, UseInv, NEW t \in Threads, Touch(t)
    PROVE  UseInv'
<1> DEFINE k == thr[t].line
<1>1. t \in Writing /\ thr[t].pc = "touch"
  BY DEF Touch, At, Writing, WritePcs
<1>2. k \in 1 .. usedcnt /\ k \in Lines
  BY <1>1, UsedAreLines DEF UseInv, UseInvOf
<1>3. \A i \in 1 .. usedcnt : cache[i].timestamp \in 0 .. gtime - 1
  BY <1>1, AllOlder
<1>4. /\ cache' = [cache EXCEPT ![k].timestamp = gtime]
      /\ thr' = [thr EXCEPT ![t].pc = "unlock"]
      /\ UNCHANGED <<usedcnt, gtime>>
  BY DEF Touch, Goto
<1> HIDE DEF k
<1>5. /\ cache'[k].timestamp = gtime
      /\ \A i \in 1 .. usedcnt : i # k => cache'[i].timestamp = cache[i].timestamp
  BY <1>2, <1>4, UsedAreLines DEF TypeOK, LineType
<1>6. thr'[t].pc = "unlock" /\ \A u \in Threads \ {t} : thr'[u] = thr[u]
  BY <1>4 DEF TypeOK, ThreadType
<1>7. StampInv'
  <2>1. gtime \in Nat
    BY DEF TypeOK
  <2>2. \A i, j \in 1 .. usedcnt : cache[i].timestamp = cache[j].timestamp => i = j
    BY DEF UseInv, StampInv
  <2> QED BY <1>2, <1>3, <1>4, <1>5, <1>6, <2>1, <2>2 DEF StampInv
<1>8. ASSUME NEW u \in Threads PROVE UseInvOf(u)'
  <2>1. CASE u = t
    BY <1>6, <2>1 DEF UseInvOf
  <2>2. CASE u # t
    BY <1>1, <1>4, <1>6, <2>2, OthersUse, UsedAreLines
  <2> QED BY <2>1, <2>2
<1> QED BY <1>7, <1>8 DEF UseInv

\* An insertion chooses its line and copies the name.
LEMMA WriteNameUse ==
    ASSUME TypeOK, SemInv, UseInv, NEW t \in Threads, WriteName(t)
    PROVE  UseInv'
<1> DEFINE k == Target
<1>1. t \in Writing /\ thr[t].pc = "name"
  BY DEF WriteName, At, Writing, WritePcs
<1>2. k \in Lines /\ (usedcnt < NUM_CACHE_LINE => k = usedcnt + 1)
  BY LineChosen
<1>3. /\ cache' = [cache EXCEPT ![k].name = thr[t].req.key]
      /\ thr' = [thr EXCEPT ![t].pc = "payload", ![t].line = k]
      /\ UNCHANGED <<usedcnt, gtime>>
  BY DEF WriteName, GotoWith
<1> HIDE DEF k
<1>4. \A i \in Lines : cache'[i].timestamp = cache[i].timestamp
  BY <1>3 DEF TypeOK, LineType
<1>5. /\ thr'[t].pc = "payload" /\ thr'[t].line = k
      /\ \A u \in Threads \ {t} : thr'[u] = thr[u]
  <2>1. thr \in [Threads -> ThreadType]
    BY DEF TypeOK
  <2>2. PICK r : r = [thr[t] EXCEPT !.pc = "payload", !.line = k]
    OBVIOUS
  <2>3. thr[t] \in ThreadType /\ thr'[t] = r /\ \A u \in Threads \ {t} : thr'[u] = thr[u]
    BY <1>3, <2>1, <2>2
  <2>4. r.pc = "payload" /\ r.line = k
    BY <2>2, <2>3 DEF ThreadType
  <2> QED BY <2>3, <2>4
<1>6. \A u \in Threads : thr[u].pc = "unlock" => thr'[u].pc = "unlock"
  BY <1>1, <1>5
<1>7. StampInv'
  BY <1>3, <1>4, <1>6, UsedAreLines DEF UseInv, StampInv
<1>8. ASSUME NEW u \in Threads PROVE UseInvOf(u)'
  <2>1. CASE u = t
    BY <1>2, <1>3, <1>5, <2>1 DEF UseInvOf
  <2>2. CASE u # t
    <3>1. usedcnt' \in Nat /\ usedcnt' >= usedcnt
      BY <1>3, UsedAreLines
    <3>2. thr'[u] = thr[u]
      BY <1>5, <2>2
    <3> QED BY <1>1, <2>2, <3>1, <3>2, OthersUse
  <2> QED BY <2>1, <2>2
<1> QED BY <1>7, <1>8 DEF UseInv

\* It copies the payload.
LEMMA WritePayloadUse ==
    ASSUME TypeOK, SemInv, UseInv, NEW t \in Threads, WritePayload(t)
    PROVE  UseInv'
<1> DEFINE k == thr[t].line
<1>1. t \in Writing /\ thr[t].pc = "payload"
  BY DEF WritePayload, At, Writing, WritePcs
<1>2. k \in Lines /\ (usedcnt < NUM_CACHE_LINE => k = usedcnt + 1)
  BY <1>1 DEF UseInv, UseInvOf
<1>3. /\ cache' = [cache EXCEPT ![k].payload = Strcpy(@, thr[t].buf)]
      /\ thr' = [thr EXCEPT ![t].pc = "stamp"]
      /\ UNCHANGED <<usedcnt, gtime>>
  BY DEF WritePayload, Goto
<1>4. thr'[t].line = k /\ thr'[t].buf = thr[t].buf
  BY <1>3 DEF TypeOK, ThreadType
<1> HIDE DEF k
<1>5. /\ Text(cache'[k].payload) = Whole(thr[t].buf)
      /\ \A i \in Lines : cache'[i].timestamp = cache[i].timestamp
  <2>1. /\ cache'[k].payload = Strcpy(cache[k].payload, thr[t].buf)
        /\ \A i \in Lines : cache'[i].timestamp = cache[i].timestamp
    BY <1>2, <1>3 DEF TypeOK, LineType
  <2>2. cache[k].payload \in Payloads /\ thr[t].buf \in Texts
    BY <1>2 DEF TypeOK, LineType, ThreadType
  <2>3. Text(Strcpy(cache[k].payload, thr[t].buf)) = Whole(thr[t].buf)
    BY <2>2, StrcpyMakes
  <2> QED BY <2>1, <2>3
<1>6. thr'[t].pc = "stamp" /\ \A u \in Threads \ {t} : thr'[u] = thr[u]
  BY <1>3 DEF TypeOK, ThreadType
<1>7. \A u \in Threads : thr[u].pc = "unlock" => thr'[u].pc = "unlock"
  BY <1>1, <1>6
<1>8. StampInv'
  BY <1>3, <1>5, <1>7, UsedAreLines DEF UseInv, StampInv
<1>9. ASSUME NEW u \in Threads PROVE UseInvOf(u)'
  <2>1. CASE u = t
    BY <1>2, <1>3, <1>4, <1>5, <1>6, <2>1 DEF UseInvOf
  <2>2. CASE u # t
    BY <1>1, <1>3, <1>6, <2>2, OthersUse, UsedAreLines
  <2> QED BY <2>1, <2>2
<1> QED BY <1>8, <1>9 DEF UseInv

\* It stamps the line, which is in use from now on (proxy.c:242-243).
LEMMA WriteStampUse ==
    ASSUME TypeOK, SemInv, UseInv, NEW t \in Threads, WriteStamp(t)
    PROVE  UseInv'
<1> DEFINE k == thr[t].line
<1>1. t \in Writing /\ thr[t].pc = "stamp"
  BY DEF WriteStamp, At, Writing, WritePcs
<1>2. k \in Lines /\ (usedcnt < NUM_CACHE_LINE => k = usedcnt + 1)
  BY <1>1 DEF UseInv, UseInvOf
<1>3. \A i \in 1 .. usedcnt : cache[i].timestamp \in 0 .. gtime - 1
  BY <1>1, AllOlder
<1>4. /\ cache' = [cache EXCEPT ![k].timestamp = gtime]
      /\ thr' = [thr EXCEPT ![t].pc = "unlock"]
      /\ gtime' = gtime
      /\ usedcnt' = IF usedcnt < NUM_CACHE_LINE THEN usedcnt + 1 ELSE usedcnt
  BY DEF WriteStamp, Goto
<1> HIDE DEF k
<1>5. /\ cache'[k].timestamp = gtime
      /\ \A i \in Lines : i # k => cache'[i].timestamp = cache[i].timestamp
  BY <1>2, <1>4 DEF TypeOK, LineType
<1>6. thr'[t].pc = "unlock" /\ \A u \in Threads \ {t} : thr'[u] = thr[u]
  BY <1>4 DEF TypeOK, ThreadType
<1>7. usedcnt' \in Nat /\ usedcnt' >= usedcnt /\ usedcnt \in Nat
  BY <1>4 DEF TypeOK
<1>8. \A i \in 1 .. usedcnt' : i \in Lines /\ (i # k => i \in 1 .. usedcnt)
  <2>1. usedcnt <= NUM_CACHE_LINE
    BY DEF TypeOK
  <2> QED BY <1>2, <1>4, <1>7, <2>1, LinesAssumption DEF Lines
<1>9. StampInv'
  <2>1. gtime \in Nat
    BY DEF TypeOK
  <2>2. \A i, j \in 1 .. usedcnt : cache[i].timestamp = cache[j].timestamp => i = j
    BY DEF UseInv, StampInv
  <2>3. \A i \in 1 .. usedcnt' :
           cache'[i].timestamp = IF i = k THEN gtime ELSE cache[i].timestamp
    BY <1>5, <1>8
  <2> QED BY <1>3, <1>4, <1>6, <1>8, <2>1, <2>2, <2>3 DEF StampInv
<1>10. ASSUME NEW u \in Threads PROVE UseInvOf(u)'
  <2>1. CASE u = t
    BY <1>6, <2>1 DEF UseInvOf
  <2>2. CASE u # t
    BY <1>1, <1>6, <1>7, <2>2, OthersUse
  <2> QED BY <2>1, <2>2
<1> QED BY <1>9, <1>10 DEF UseInv

\* gtime++ makes every stamp older than now again.
LEMMA WriterUnlockUse ==
    ASSUME TypeOK, SemInv, UseInv, NEW t \in Threads, WriterUnlock(t)
    PROVE  UseInv'
<1>1. t \in Writing
  BY DEF WriterUnlock, At, Writing, WritePcs
<1>2. /\ thr' = [thr EXCEPT ![t] = NewThread] /\ UNCHANGED <<cache, usedcnt>>
      /\ gtime' = gtime + 1 /\ gtime \in Nat
  BY DEF WriterUnlock, Ends, TypeOK
<1>3. thr'[t].pc = "idle" /\ \A u \in Threads \ {t} : thr'[u] = thr[u]
  BY <1>2, NewThreadIs DEF TypeOK
<1>4. StampInv'
  <2>1. \A i \in 1 .. usedcnt : /\ cache[i].timestamp \in 0 .. gtime + 1
                                /\ cache[i].timestamp # gtime + 1
    BY <1>2 DEF UseInv, StampInv
  <2> QED BY <1>2, <2>1 DEF UseInv, StampInv
<1>5. ASSUME NEW u \in Threads PROVE UseInvOf(u)'
  <2>1. CASE u = t
    BY <1>3, <2>1 DEF UseInvOf
  <2>2. CASE u # t
    BY <1>1, <1>2, <1>3, <2>2, OthersUse, UsedAreLines
  <2> QED BY <2>1, <2>2
<1> QED BY <1>4, <1>5 DEF UseInv

\* What a step that only moves thread t changes.
LEMMA MoveChanges ==
    ASSUME TypeOK, NEW t \in Threads, NEW q, Goto(t, q)
    PROVE  /\ thr'[t].pc = q /\ OthersStay(t)
           /\ thr'[t].line = thr[t].line /\ thr'[t].buf = thr[t].buf
           /\ thr'[t].sent = thr[t].sent /\ thr'[t].req = thr[t].req
BY DEF Goto, OthersStay, TypeOK, ThreadType

\* Every step keeps what the lines were used for.
LEMMA UseStep ==
    ASSUME TypeOK, SemInv, UseInv, [Next]_vars
    PROVE  UseInv'
<1>1. \A t \in Threads : UseInvOf(t)
  BY DEF UseInv
<1>2. ASSUME UNCHANGED <<cache, usedcnt, gtime, thr>>
      PROVE  UseInv'
  BY <1>2 DEF UseInv, StampInv, UseInvOf
<1>3. ASSUME NEW t \in Threads, NEW p, NEW q, UNCHANGED <<cache, usedcnt, gtime>>,
             thr[t].pc = p, Goto(t, q),
             \/ p \in {"enter", "first", "entered"} /\ q \in {"first", "entered", "scan"}
             \/ p \in {"leave", "last", "left"} /\ q \in {"last", "left", "lock"}
             \/ p = "left" /\ q = "fetch" /\ thr[t].line = 0
             \/ p = "lock" /\ q = IF thr[t].line = 0 THEN "name" ELSE "touch"
      PROVE  UseInv'
  <2>1. UseInvOf(t)'
    BY <1>1, <1>3, MoveChanges DEF UseInvOf
  <2> QED BY <1>3, <2>1, MoveChanges, UseKept
<1>4. ASSUME NEW t \in Threads, NEW r \in Requests, Accept(t, r)
      PROVE  UseInv'
  <2>1. /\ thr'[t].pc = "enter" /\ thr'[t].line = 0 /\ OthersStay(t)
        /\ thr[t].pc = "idle" /\ UNCHANGED <<cache, usedcnt, gtime>>
    BY <1>4 DEF Accept, At, IdleThread, OthersStay, TypeOK, shared
  <2>2. UseInvOf(t)'
    BY <2>1 DEF UseInvOf
  <2> QED BY <2>1, <2>2, UseKept
<1>5. ASSUME NEW t \in Threads,
             ReaderEnter(t) \/ ReaderFirst(t) \/ ReaderEntered(t) \/ ReaderLeave(t)
                \/ ReaderLast(t) \/ ReaderLeft(t) \/ WriterLock(t)
      PROVE  UseInv'
  BY <1>3, <1>5 DEF ReaderEnter, ReaderFirst, ReaderEntered, ReaderLeave, ReaderLast,
                    ReaderLeft, WriterLock, At
<1>6. ASSUME NEW t \in Threads, Fetch(t)
      PROVE  UseInv'
  <2>1. /\ thr'[t].pc = "lock" /\ thr'[t].line = thr[t].line /\ OthersStay(t)
        /\ thr[t].pc = "fetch" /\ UNCHANGED <<cache, usedcnt, gtime>>
    BY <1>6 DEF Fetch, At, OthersStay, TypeOK, ThreadType, shared
  <2>2. UseInvOf(t)'
    BY <1>1, <2>1 DEF UseInvOf
  <2> QED BY <2>1, <2>2, UseKept
<1>7. ASSUME NEW t \in Threads, Scan(t)
      PROVE  UseInv'
  <2> DEFINE found == Matches(thr[t].req.key)
  <2>1. thr[t].pc = "scan" /\ thr[t].line = 0 /\ UNCHANGED <<cache, usedcnt, gtime>>
    BY <1>1, <1>7 DEF Scan, At, UseInvOf, shared
  <2>2. CASE found = {}
    <3>1. Goto(t, "leave")
      BY <1>7, <2>2 DEF Scan
    <3>2. UseInvOf(t)'
      BY <2>1, <3>1, MoveChanges, UsedAreLines DEF UseInvOf
    <3> QED BY <2>1, <3>1, <3>2, MoveChanges, UseKept
  <2>3. CASE found # {}
    <3> DEFINE k == Min(found)
    <3>1. k \in found /\ \A j \in found : k <= j
      BY <2>3, LineChosen
    <3>2. thr' = [thr EXCEPT ![t].pc = "send", ![t].line = k]
      BY <1>7, <2>3 DEF Scan, GotoWith
    <3> HIDE DEF k
    <3>3. /\ k \in 1 .. usedcnt /\ usedcnt \in Nat
          /\ cache[k].name = thr[t].req.key
          /\ \A j \in 1 .. k - 1 : cache[j].name # thr[t].req.key
      BY <3>1, UsedAreLines DEF Matches
    <3>4. /\ thr'[t].pc = "send" /\ thr'[t].line = k /\ OthersStay(t)
          /\ thr'[t].req = thr[t].req
      BY <3>2 DEF OthersStay, TypeOK, ThreadType
    <3>5. UseInvOf(t)'
      BY <2>1, <3>3, <3>4 DEF UseInvOf
    <3> QED BY <2>1, <3>4, <3>5, UseKept
  <2> QED BY <2>2, <2>3
<1>8. ASSUME NEW t \in Threads, Send(t)
      PROVE  UseInv'
  <2>1. CASE Exit
    BY <1>2, <2>1 DEF Exit, shared
  <2>2. CASE ~Exit
    <3>1. /\ thr' = [thr EXCEPT ![t].pc = "leave", ![t].sent = cache[thr[t].line].payload]
          /\ UNCHANGED <<cache, usedcnt, gtime>> /\ thr[t].pc = "send"
      BY <1>8, <2>2 DEF Send, At, shared
    <3>2. thr'[t].pc = "leave" /\ thr'[t].line = thr[t].line /\ OthersStay(t)
      BY <3>1 DEF OthersStay, TypeOK, ThreadType
    <3>3. UseInvOf(t)'
      BY <1>1, <3>1, <3>2 DEF UseInvOf
    <3> QED BY <3>1, <3>2, <3>3, UseKept
  <2> QED BY <2>1, <2>2
<1>9. ASSUME NEW t \in Threads, FetchFails(t) \/ ParseFails(t)
      PROVE  UseInv'
  BY <1>2, <1>9 DEF FetchFails, ParseFails, Exit, shared
<1>10. ASSUME NEW t \in Threads, FetchLarge(t)
       PROVE  UseInv'
  <2>1. CASE Exit
    BY <1>2, <2>1 DEF Exit, shared
  <2>2. CASE ~Exit
    <3>1. /\ thr'[t].pc = "idle" /\ OthersStay(t)
          /\ thr[t].pc = "fetch" /\ UNCHANGED <<cache, usedcnt, gtime>>
      BY <1>10, <2>2, NewThreadIs DEF FetchLarge, Ends, At, OthersStay, TypeOK, shared
    <3>2. UseInvOf(t)'
      BY <3>1 DEF UseInvOf
    <3> QED BY <3>1, <3>2, UseKept
  <2> QED BY <2>1, <2>2
<1>11. CASE Quiet \/ UNCHANGED vars
  BY <1>2, <1>11 DEF Quiet, vars
<1> QED
  BY <1>4, <1>5, <1>6, <1>7, <1>8, <1>9, <1>10, <1>11, TouchUse, WriteNameUse, WritePayloadUse,
     WriteStampUse, WriterUnlockUse
     DEF Next, Step, Reader, Writer

\* In every behaviour the lines in use have distinct stamps.
LEMMA UseInvariant == Spec => [](TypeOK /\ SemInv /\ UseInv)
<1>1. Init => UseInv
  <2> SUFFICES ASSUME Init PROVE UseInv
    OBVIOUS
  <2>1. usedcnt = 0 /\ \A t \in Threads : thr[t].pc = "idle"
    BY NewThreadIs DEF Init
  <2>2. 1 .. 0 = {}
    OBVIOUS
  <2> QED BY <2>1, <2>2 DEF UseInv, StampInv, UseInvOf
<1>2. (TypeOK /\ SemInv) /\ UseInv /\ [Next]_vars => UseInv'
  BY UseStep
<1> QED BY <1>1, <1>2, SemInvariant, PTL DEF Spec

\* No two lines in use were used last at the same time, and all were used before now,
\* whatever the order of the threads: each write has a tick of gtime to itself, under
\* the lock (proxy.c:221-246).
THEOREM UsesAreDistinct == Spec => []StampsDistinct
<1>1. TypeOK /\ UseInv => StampsDistinct
  <2> SUFFICES ASSUME TypeOK, UseInv, Writing = {}, NEW i \in 1 .. usedcnt
               PROVE  /\ cache[i].timestamp \in 0 .. gtime - 1
                      /\ \A j \in 1 .. usedcnt :
                            cache[i].timestamp = cache[j].timestamp => i = j
    BY DEF StampsDistinct
  <2>1. \A t \in Threads : thr[t].pc # "unlock"
    BY DEF Writing, WritePcs
  <2> QED BY <2>1 DEF UseInv, StampInv, TypeOK
<1> QED BY <1>1, UseInvariant, PTL

\* What a step does to the names: only an insertion changes one, that of its line.
LEMMA NamesChange ==
    ASSUME TypeOK, [Next]_vars, NEW i \in Lines, cache'[i].name # cache[i].name
    PROVE  \E t \in Threads : WriteName(t) /\ i = Target
<1>1. cache' # cache
  OBVIOUS
<1>2. ASSUME NEW t \in Threads, NEW k, NEW x,
             \/ cache' = [cache EXCEPT ![k].timestamp = x]
             \/ cache' = [cache EXCEPT ![k].payload = x]
      PROVE  FALSE
  BY <1>2 DEF TypeOK, LineType
<1>3. ASSUME NEW t \in Threads, WriteName(t)
      PROVE  i = Target
  BY <1>3, LineChosen DEF WriteName, TypeOK, LineType
<1>4. ASSUME NEW t \in Threads, Touch(t) \/ WritePayload(t) \/ WriteStamp(t)
      PROVE  FALSE
  BY <1>2, <1>4 DEF Touch, WritePayload, WriteStamp
<1>5. PICK t \in Threads : Writer(t)
  BY <1>1 DEF Next, Step, Reader, Quiet, vars, shared, ParseFails, Exit, Accept, ReaderEnter,
              ReaderFirst, ReaderEntered, Scan, Send, ReaderLeave, ReaderLast, ReaderLeft,
              Fetch, FetchLarge, FetchFails
<1> QED BY <1>1, <1>3, <1>4, <1>5 DEF Writer, WriterLock, WriterUnlock

\* A line in use loses its name only when all lines are in use and it is the one, and
\* the only one, whose last use is longest ago (proxy.c:232-240).
THEOREM OnlyTheOldestIsEvicted == Spec => EvictsOldest
<1>1. TypeOK /\ SemInv /\ UseInv /\ [Next]_vars =>
         [\A i \in 1 .. usedcnt :
             cache'[i].name # cache[i].name =>
                 /\ usedcnt = NUM_CACHE_LINE
                 /\ \A j \in Lines \ {i} : cache[i].timestamp < cache[j].timestamp]_vars
  <2> SUFFICES ASSUME TypeOK, SemInv, UseInv, [Next]_vars, NEW i \in 1 .. usedcnt,
                      cache'[i].name # cache[i].name
               PROVE  /\ usedcnt = NUM_CACHE_LINE
                      /\ \A j \in Lines \ {i} : cache[i].timestamp < cache[j].timestamp
    OBVIOUS
  <2>1. i \in Lines /\ usedcnt \in Nat /\ usedcnt <= NUM_CACHE_LINE
    BY UsedAreLines DEF TypeOK
  <2>2. i = Target
    BY <2>1, NamesChange
  <2>3. usedcnt = NUM_CACHE_LINE /\ i \in Oldest
    <3>1. CASE usedcnt < NUM_CACHE_LINE
      BY <2>1, <2>2, <3>1, LineChosen
    <3>2. CASE ~(usedcnt < NUM_CACHE_LINE)
      BY <2>1, <2>2, <3>2, LineChosen, LinesAssumption
    <3> QED BY <3>1, <3>2
  <2>4. ASSUME NEW j \in Lines \ {i} PROVE cache[i].timestamp < cache[j].timestamp
    <3>1. j \in 1 .. usedcnt
      BY <2>3 DEF Lines
    <3>2. cache[i].timestamp # cache[j].timestamp
      BY <3>1 DEF UseInv, StampInv
    <3>3. cache[i].timestamp <= cache[j].timestamp
      BY <2>3 DEF Oldest
    <3> QED BY <2>1, <3>2, <3>3, UsedAreLines
  <2> QED BY <2>3, <2>4
<1> QED BY <1>1, UseInvariant, PTL DEF Spec, EvictsOldest

-----------------------------------------------------------------------------
(* The proxy implements ObjectCache.  What a cache, a number of lines in   *)
(* use, a clock and the threads look like to ObjectCache is a function of  *)
(* them, which the lemmas compute before and after a step.                 *)

PendingIn(th)     == {t \in Threads : th[t].pc \in {"payload", "stamp"}}
TickedIn(th)      == {t \in Threads : th[t].pc \in {"payload", "stamp", "unlock"}}
InsertedIn(n, th) == {t \in PendingIn(th) : th[t].line > n}

Plain(c, i) ==
    [key |-> c[i].name, object |-> Text(c[i].payload), stamp |-> c[i].timestamp]
Filled(c, i, o, g) == [key |-> c[i].name, object |-> Whole(o), stamp |-> g]

SeenIn(c, g, th, i) ==
    IF \E t \in PendingIn(th) : th[t].line = i
    THEN Filled(c, i, th[CHOOSE t \in PendingIn(th) : th[t].line = i].buf, g)
    ELSE Plain(c, i)

LinesIn(c, n, g, th) == [i \in 1 .. n + Cardinality(InsertedIn(n, th)) |-> SeenIn(c, g, th, i)]
ClockIn(g, th)       == g + Cardinality(TickedIn(th))
ClientsIn(th)        == [t \in Threads |-> ClientSeen(th[t])]

\* These are the variables of ObjectCache.
LEMMA ViewMeaning ==
    /\ [i \in 1 .. usedcnt + Cardinality(Inserted) |-> LineSeen(i)]
          = LinesIn(cache, usedcnt, gtime, thr)
    /\ [i \in 1 .. usedcnt + Cardinality(Inserted) |-> LineSeen(i)]'
          = LinesIn(cache', usedcnt', gtime', thr')
    /\ gtime + Cardinality({t \in Threads : thr[t].pc \in {"payload", "stamp", "unlock"}})
          = ClockIn(gtime, thr)
    /\ (gtime + Cardinality({t \in Threads : thr[t].pc \in {"payload", "stamp", "unlock"}}))'
          = ClockIn(gtime', thr')
    /\ [t \in Threads |-> ClientSeen(thr[t])] = ClientsIn(thr)
    /\ [t \in Threads |-> ClientSeen(thr[t])]' = ClientsIn(thr')
BY DEF LinesIn, InsertedIn, PendingIn, TickedIn, SeenIn, Plain, Filled, ClockIn, ClientsIn,
       Inserted, Pending, LineSeen

\* What a thread is to ObjectCache at each point of the code.
AsksPcs == {"enter", "first", "entered", "scan", "send"}
DonePcs == {"payload", "stamp", "unlock"}
BothPcs == {"leave", "last", "left", "fetch", "lock", "name", "touch"}

LEMMA StageIs ==
    ASSUME NEW d
    PROVE  /\ d.pc = "idle" => Stage(d) = "away"
           /\ d.pc \in AsksPcs => Stage(d) = "asks"
           /\ d.pc \in DonePcs => Stage(d) = "done"
           /\ d.pc \in BothPcs => Stage(d) = IF d.line = 0 THEN "missed" ELSE "hit"
BY DEF Stage, AsksPcs, DonePcs, BothPcs

LEMMA SeenIs ==
    ASSUME NEW d
    PROVE  LET seen(at, key, line) ==
                   [at |-> at, key |-> key, line |-> line,
                    answer |-> IF d.sent = None THEN None ELSE Text(d.sent)]
           IN  /\ d.pc = "idle" => ClientSeen(d) = seen("away", None, 0)
               /\ d.pc \in AsksPcs => ClientSeen(d) = seen("asks", d.req.key, 0)
               /\ d.pc \in DonePcs => ClientSeen(d) = seen("done", d.req.key, 0)
               /\ d.pc \in BothPcs /\ d.line = 0 =>
                     ClientSeen(d) = seen("missed", d.req.key, 0)
               /\ d.pc \in BothPcs /\ d.line # 0 =>
                     ClientSeen(d) = seen("hit", d.req.key, d.line)
BY StageIs DEF ClientSeen

\* Two places of a thread that are one to ObjectCache.
LEMMA SameSeen ==
    ASSUME NEW d, NEW e, e.req = d.req, e.sent = d.sent,
           \/ d.pc \in AsksPcs /\ e.pc \in AsksPcs
           \/ d.pc \in DonePcs /\ e.pc \in DonePcs
           \/ d.pc \in BothPcs /\ e.pc \in BothPcs /\ e.line = d.line
    PROVE  ClientSeen(e) = ClientSeen(d)
<1>1. Stage(e) = Stage(d) /\ (Stage(d) = "hit" => e.line = d.line)
  BY StageIs
<1> QED BY <1>1 DEF ClientSeen

\* While no line is being written ObjectCache sees the lines in use as they are.
LEMMA ViewIdle ==
    ASSUME NEW c, NEW n \in Nat, NEW g, NEW th, PendingIn(th) = {}
    PROVE  LinesIn(c, n, g, th) = [i \in 1 .. n |-> Plain(c, i)]
<1>1. InsertedIn(n, th) = {}
  BY DEF InsertedIn
<1>2. Cardinality(InsertedIn(n, th)) = 0
  BY <1>1, FS_EmptySet
<1>3. \A i : SeenIn(c, g, th, i) = Plain(c, i)
  BY DEF SeenIn
<1> QED BY <1>2, <1>3 DEF LinesIn

\* While line k is being filled with o, it is finished already.
Shows(ls, c, n, g, k, o) ==
    /\ ls = [i \in DOMAIN ls |-> ls[i]]
    /\ DOMAIN ls = 1 .. (IF k > n THEN n + 1 ELSE n)
    /\ \A i \in DOMAIN ls : ls[i] = IF i = k THEN Filled(c, i, o, g) ELSE Plain(c, i)

LEMMA ViewPending ==
    ASSUME NEW c, NEW n \in Nat, NEW g, NEW th, NEW t \in Threads, PendingIn(th) = {t}
    PROVE  Shows(LinesIn(c, n, g, th), c, n, g, th[t].line, th[t].buf)
<1>1. n + Cardinality(InsertedIn(n, th)) = IF th[t].line > n THEN n + 1 ELSE n
  <2>1. CASE th[t].line > n
    <3>1. InsertedIn(n, th) = {t}
      BY <2>1 DEF InsertedIn
    <3>2. Cardinality(InsertedIn(n, th)) = 1
      BY <3>1, FS_Singleton
    <3> QED BY <2>1, <3>2
  <2>2. CASE ~(th[t].line > n)
    <3>1. InsertedIn(n, th) = {}
      BY <2>2 DEF InsertedIn
    <3>2. Cardinality(InsertedIn(n, th)) = 0
      BY <3>1, FS_EmptySet
    <3> QED BY <2>2, <3>2
  <2> QED BY <2>1, <2>2
<1>2. \A i : SeenIn(c, g, th, i) =
                IF i = th[t].line THEN Filled(c, i, th[t].buf, g) ELSE Plain(c, i)
  <2> SUFFICES ASSUME NEW i
               PROVE  SeenIn(c, g, th, i) =
                         IF i = th[t].line THEN Filled(c, i, th[t].buf, g) ELSE Plain(c, i)
    OBVIOUS
  <2>1. CASE i = th[t].line
    <3>1. (CHOOSE u \in PendingIn(th) : th[u].line = i) = t
      BY <2>1
    <3> QED BY <2>1, <3>1 DEF SeenIn
  <2>2. CASE i # th[t].line
    BY <2>2 DEF SeenIn
  <2> QED BY <2>1, <2>2
<1> QED BY <1>1, <1>2 DEF LinesIn, Shows

\* There is one such sequence.
LEMMA ShowsOne ==
    ASSUME NEW a, NEW b, NEW c, NEW n, NEW g, NEW k, NEW o,
           Shows(a, c, n, g, k, o), Shows(b, c, n, g, k, o)
    PROVE  a = b
<1>1. DOMAIN a = DOMAIN b /\ \A i \in DOMAIN a : a[i] = b[i]
  BY DEF Shows
<1>2. a = [i \in DOMAIN a |-> a[i]] /\ b = [i \in DOMAIN b |-> b[i]]
  BY DEF Shows
<1> QED BY <1>1, <1>2, Zenon

\* The clock of ObjectCache is ahead of gtime from the first write to the last.
LEMMA ViewClock ==
    ASSUME NEW g \in Nat, NEW th
    PROVE  /\ TickedIn(th) = {} => ClockIn(g, th) = g
           /\ \A t : TickedIn(th) = {t} => ClockIn(g, th) = g + 1
<1>1. TickedIn(th) = {} => Cardinality(TickedIn(th)) = 0
  BY FS_EmptySet
<1>2. \A t : Cardinality({t}) = 1
  BY FS_Singleton
<1>3. \A t : TickedIn(th) = {t} => Cardinality(TickedIn(th)) = 1
  BY <1>2
<1> QED BY <1>1, <1>3 DEF ClockIn

\* Only the writer is at a line, and it is alone.
LEMMA WriterView ==
    ASSUME SemInv, NEW t \in Writing
    PROVE  /\ PendingIn(thr) = IF thr[t].pc \in {"payload", "stamp"} THEN {t} ELSE {}
           /\ TickedIn(thr) = IF thr[t].pc \in {"payload", "stamp", "unlock"} THEN {t} ELSE {}
           /\ \A u \in Threads \ {t} : thr[u].pc \notin {"payload", "stamp", "unlock"}
BY DEF SemInv, WInv, Writing, WritePcs, PendingIn, TickedIn

\* Nor is anybody when nobody writes, or there is one who does.
LEMMA ViewCases ==
    ASSUME SemInv
    PROVE  \/ PendingIn(thr) = {}
           \/ \E t \in Threads : PendingIn(thr) = {t}
BY DEF SemInv, WInv, Writing, WritePcs, PendingIn

\* A step that changes nothing ObjectCache sees.
LEMMA ViewStutters ==
    ASSUME LinesIn(cache', usedcnt', gtime', thr') = LinesIn(cache, usedcnt, gtime, thr),
           ClockIn(gtime', thr') = ClockIn(gtime, thr), ClientsIn(thr') = ClientsIn(thr)
    PROVE  UNCHANGED OC!vars
BY ViewMeaning DEF OC!vars

\* A thread that does not write changes neither the lines nor the clock.
LEMMA ViewKept ==
    ASSUME TypeOK, SemInv, NEW t \in Threads, OthersStay(t),
           UNCHANGED <<cache, usedcnt, gtime>>,
           thr[t].pc \notin {"payload", "stamp", "unlock"},
           thr'[t].pc \notin {"payload", "stamp", "unlock"}
    PROVE  /\ LinesIn(cache', usedcnt', gtime', thr') = LinesIn(cache, usedcnt, gtime, thr)
           /\ ClockIn(gtime', thr') = ClockIn(gtime, thr)
           /\ ClientSeen(thr'[t]) = ClientSeen(thr[t]) => ClientsIn(thr') = ClientsIn(thr)
<1>1. PendingIn(thr') = PendingIn(thr) /\ TickedIn(thr') = TickedIn(thr)
  BY DEF PendingIn, TickedIn, OthersStay
<1>2. ClockIn(gtime', thr') = ClockIn(gtime, thr)
  BY <1>1 DEF ClockIn
<1>3. usedcnt \in Nat /\ usedcnt' = usedcnt
  BY DEF TypeOK
<1>4. CASE PendingIn(thr) = {}
  <2>1. LinesIn(cache', usedcnt', gtime', thr') = LinesIn(cache, usedcnt, gtime, thr)
    BY <1>1, <1>3, <1>4, ViewIdle
  <2> QED BY <1>2, <2>1 DEF ClientsIn, OthersStay
<1>5. ASSUME NEW u \in Threads, PendingIn(thr) = {u}
      PROVE  LinesIn(cache', usedcnt', gtime', thr') = LinesIn(cache, usedcnt, gtime, thr)
  <2>1. u # t
    BY <1>5 DEF PendingIn
  <2>2. thr'[u] = thr[u]
    BY <2>1 DEF OthersStay
  <2>3. Shows(LinesIn(cache, usedcnt, gtime, thr), cache, usedcnt, gtime,
              thr[u].line, thr[u].buf)
    BY <1>3, <1>5, ViewPending
  <2>4. Shows(LinesIn(cache, usedcnt, gtime, thr'), cache, usedcnt, gtime,
              thr[u].line, thr[u].buf)
    <3>1. PendingIn(thr') = {u}
      BY <1>1, <1>5
    <3>2. Shows(LinesIn(cache, usedcnt, gtime, thr'), cache, usedcnt, gtime,
                thr'[u].line, thr'[u].buf)
      BY <1>3, <3>1, ViewPending
    <3> QED BY <2>2, <3>2
  <2>5. \A a, b : Shows(a, cache, usedcnt, gtime, thr[u].line, thr[u].buf)
                /\ Shows(b, cache, usedcnt, gtime, thr[u].line, thr[u].buf) => a = b
    BY ShowsOne
  <2>6. LinesIn(cache, usedcnt, gtime, thr) = LinesIn(cache, usedcnt, gtime, thr')
    BY <2>3, <2>4, <2>5
  <2> QED BY <1>3, <2>6
<1>6. ClientSeen(thr'[t]) = ClientSeen(thr[t]) => ClientsIn(thr') = ClientsIn(thr)
  BY DEF ClientsIn, OthersStay
<1> QED BY <1>2, <1>4, <1>5, <1>6, ViewCases

\* A step that changes what one thread is to ObjectCache.
LEMMA ClientChanges ==
    ASSUME NEW t \in Threads, NEW x, ClientSeen(thr'[t]) = x, OthersStay(t)
    PROVE  /\ ClientsIn(thr') = [ClientsIn(thr) EXCEPT ![t] = x]
           /\ ClientsIn(thr)[t] = ClientSeen(thr[t])
<1>1. \A u \in Threads : ClientSeen(thr'[u]) = IF u = t THEN x ELSE ClientSeen(thr[u])
  BY DEF OthersStay
<1> QED BY <1>1 DEF ClientsIn

\* What it reads of one record is enough for a client to change.
LEMMA ClientMoves ==
    ASSUME NEW t \in Threads, OthersStay(t)
    PROVE  LET new == ClientSeen(thr'[t])
               old == ClientSeen(thr[t])
               all == ClientsIn(thr) IN
           /\ all[t] = old
           /\ ClientsIn(thr') = [all EXCEPT ![t] = new]
           /\ \A at : new = [old EXCEPT !.at = at] =>
                 ClientsIn(thr') = [all EXCEPT ![t].at = at]
<1>1. PICK x : x = ClientSeen(thr'[t])
  OBVIOUS
<1>2. /\ ClientsIn(thr') = [ClientsIn(thr) EXCEPT ![t] = x]
      /\ ClientsIn(thr)[t] = ClientSeen(thr[t])
  BY <1>1, ClientChanges
<1> QED BY <1>1, <1>2

\* A new request asks.
LEMMA AcceptView ==
    ASSUME TypeOK, SemInv, NEW t \in Threads, NEW r \in Requests, Accept(t, r)
    PROVE  OC!Next
<1>1. /\ thr[t].pc = "idle" /\ thr'[t].pc = "enter" /\ thr'[t].sent = None
      /\ thr'[t].req = r /\ OthersStay(t) /\ UNCHANGED <<cache, usedcnt, gtime>>
  BY DEF Accept, At, IdleThread, OthersStay, TypeOK, shared
<1>2. /\ LinesIn(cache', usedcnt', gtime', thr') = LinesIn(cache, usedcnt, gtime, thr)
      /\ ClockIn(gtime', thr') = ClockIn(gtime, thr)
  BY <1>1, ViewKept
<1>3. ClientSeen(thr[t]).at = "away"
  BY <1>1, SeenIs
<1>4. ClientSeen(thr'[t]) = OC!Client("asks", r.key, 0, None)
  <2>1. thr'[t].pc \in AsksPcs
    BY <1>1 DEF AsksPcs
  <2>2. ClientSeen(thr'[t]) =
            [at |-> "asks", key |-> r.key, line |-> 0, answer |-> None]
    BY <1>1, <2>1, SeenIs
  <2> QED BY <2>2 DEF OC!Client
<1>5. /\ ClientsIn(thr)[t].at = "away"
      /\ ClientsIn(thr') = [ClientsIn(thr) EXCEPT ![t] = OC!Client("asks", r.key, 0, None)]
  BY <1>1, <1>3, <1>4, ClientMoves
<1>6. r.key \in Keys
  BY DEF Keys
<1>7. OC!Ask(t)
  BY <1>2, <1>5, <1>6, ViewMeaning DEF OC!Ask
<1> QED BY <1>7 DEF OC!Next

\* Readers look at lines that nobody is writing.
LEMMA ReadView ==
    ASSUME TypeOK, SemInv, NEW t \in Threads, thr[t].pc \in ReadPcs
    PROVE  LET seen == LinesIn(cache, usedcnt, gtime, thr) IN
           /\ DOMAIN seen = 1 .. usedcnt
           /\ \A i \in 1 .. usedcnt : /\ seen[i].key = cache[i].name
                                      /\ seen[i].object = Text(cache[i].payload)
<1>1. PendingIn(thr) = {}
  BY DEF SemInv, WInv, Writing, WritePcs, HeldFor, HeldForPcs, PendingIn
<1>2. LinesIn(cache, usedcnt, gtime, thr) = [i \in 1 .. usedcnt |-> Plain(cache, i)]
  <2>1. usedcnt \in Nat
    BY DEF TypeOK
  <2> QED BY <1>1, <2>1, ViewIdle
<1> QED BY <1>2 DEF Plain

\* A scan that finds nothing is a miss.
LEMMA ScanView ==
    ASSUME TypeOK, SemInv, UseInv, NEW t \in Threads, Scan(t)
    PROVE  OC!Next \/ UNCHANGED OC!vars
<1>1. /\ thr[t].pc = "scan" /\ thr'[t].sent = thr[t].sent /\ thr'[t].req = thr[t].req
      /\ OthersStay(t) /\ UNCHANGED <<cache, usedcnt, gtime>>
      /\ thr'[t].pc \in {"leave", "send"}
  BY DEF Scan, Goto, GotoWith, At, OthersStay, TypeOK, ThreadType, shared
<1>2. /\ LinesIn(cache', usedcnt', gtime', thr') = LinesIn(cache, usedcnt, gtime, thr)
      /\ ClockIn(gtime', thr') = ClockIn(gtime, thr)
      /\ ClientSeen(thr'[t]) = ClientSeen(thr[t]) => ClientsIn(thr') = ClientsIn(thr)
  BY <1>1, ViewKept
<1>3. CASE thr'[t].pc = "send"
  <2>1. thr[t].pc \in AsksPcs /\ thr'[t].pc \in AsksPcs
    BY <1>1, <1>3 DEF AsksPcs
  <2>2. ClientSeen(thr'[t]) = ClientSeen(thr[t])
    BY <1>1, <2>1, SameSeen
  <2> QED BY <1>2, <2>2, ViewStutters
<1>4. CASE thr'[t].pc = "leave"
  <2>1. Matches(thr[t].req.key) = {} /\ thr'[t].line = thr[t].line
    BY <1>4 DEF Scan, Goto, GotoWith, TypeOK, ThreadType
  <2>2. thr[t].line = 0
    BY <1>1 DEF UseInv, UseInvOf
  <2>3. thr[t].pc \in AsksPcs /\ thr'[t].pc \in BothPcs /\ thr[t].pc \in ReadPcs
    BY <1>1, <1>4 DEF AsksPcs, BothPcs, ReadPcs
  <2>4. /\ ClientSeen(thr[t]).at = "asks" /\ ClientSeen(thr[t]).key = thr[t].req.key
        /\ ClientSeen(thr'[t]) = [ClientSeen(thr[t]) EXCEPT !.at = "missed"]
    <3>1. /\ ClientSeen(thr[t]) =
                 [at |-> "asks", key |-> thr[t].req.key, line |-> 0,
                  answer |-> IF thr[t].sent = None THEN None ELSE Text(thr[t].sent)]
          /\ ClientSeen(thr'[t]) =
                 [at |-> "missed", key |-> thr[t].req.key, line |-> 0,
                  answer |-> IF thr[t].sent = None THEN None ELSE Text(thr[t].sent)]
      BY <1>1, <2>1, <2>2, <2>3, SeenIs
    <3> QED BY <3>1
  <2>5. /\ ClientsIn(thr)[t].at = "asks" /\ ClientsIn(thr)[t].key = thr[t].req.key
        /\ ClientsIn(thr') = [ClientsIn(thr) EXCEPT ![t].at = "missed"]
    BY <1>1, <2>4, ClientMoves
  <2>6. PICK seen : seen = LinesIn(cache, usedcnt, gtime, thr)
    OBVIOUS
  <2>7. \A i \in DOMAIN seen : seen[i].key # ClientsIn(thr)[t].key
    BY <2>1, <2>3, <2>5, <2>6, ReadView DEF Matches
  <2>8. OC!Miss(t)
    BY <1>2, <2>5, <2>6, <2>7, ViewMeaning DEF OC!Miss
  <2> QED BY <2>8 DEF OC!Next
<1> QED BY <1>1, <1>3, <1>4

\* A hit sends the object in the first line of its key, which nobody is writing.
LEMMA SendView ==
    ASSUME TypeOK, SemInv, UseInv, NEW t \in Threads, thr[t].pc = "send",
           thr' = [thr EXCEPT ![t].pc = "leave", ![t].sent = cache[thr[t].line].payload],
           UNCHANGED <<cache, usedcnt, gtime>>
    PROVE  OC!Next
<1>0. PICK k : k = thr[t].line
  OBVIOUS
<1>1. /\ k \in 1 .. usedcnt /\ usedcnt \in Nat /\ k # 0 /\ k \in Lines
      /\ cache[k].name = thr[t].req.key
      /\ \A j \in 1 .. k - 1 : cache[j].name # thr[t].req.key
  BY <1>0, UsedAreLines DEF UseInv, UseInvOf
<1>2. /\ thr'[t].pc = "leave" /\ thr'[t].sent = cache[k].payload /\ OthersStay(t)
      /\ thr'[t].req = thr[t].req /\ thr'[t].line = k
  BY <1>0 DEF OthersStay, TypeOK, ThreadType
<1>3. /\ LinesIn(cache', usedcnt', gtime', thr') = LinesIn(cache, usedcnt, gtime, thr)
      /\ ClockIn(gtime', thr') = ClockIn(gtime, thr)
  BY <1>2, ViewKept
<1>4. PICK seen : seen = LinesIn(cache, usedcnt, gtime, thr)
  OBVIOUS
<1>5. /\ DOMAIN seen = 1 .. usedcnt
      /\ \A i \in 1 .. usedcnt : /\ seen[i].key = cache[i].name
                                 /\ seen[i].object = Text(cache[i].payload)
  <2>1. thr[t].pc \in ReadPcs
    BY DEF ReadPcs
  <2> QED BY <1>4, <2>1, ReadView
<1>6. k \in DOMAIN seen /\ \A j \in 1 .. k - 1 : j \in 1 .. usedcnt
  BY <1>1, <1>5
<1>7. /\ seen[k].key = thr[t].req.key
      /\ \A j \in 1 .. k - 1 : seen[j].key # thr[t].req.key
      /\ seen[k].object = Text(thr'[t].sent)
  BY <1>1, <1>2, <1>5, <1>6
<1>8. thr'[t].sent # None
  <2>1. cache[k].payload \in Payloads
    BY <1>1 DEF TypeOK, LineType
  <2> QED BY <1>2, <2>1, NoneAssumption
<1>9. /\ ClientSeen(thr[t]).at = "asks" /\ ClientSeen(thr[t]).key = thr[t].req.key
      /\ ClientSeen(thr'[t]) = OC!Client("hit", thr[t].req.key, k, seen[k].object)
  <2>1. thr[t].pc \in AsksPcs /\ thr'[t].pc \in BothPcs
    BY <1>2 DEF AsksPcs, BothPcs
  <2>2. ClientSeen(thr[t]).at = "asks" /\ ClientSeen(thr[t]).key = thr[t].req.key
    BY <2>1, SeenIs
  <2>3. ClientSeen(thr'[t]) =
            [at |-> "hit", key |-> thr'[t].req.key, line |-> thr'[t].line,
             answer |-> IF thr'[t].sent = None THEN None ELSE Text(thr'[t].sent)]
    BY <1>1, <1>2, <2>1, SeenIs
  <2> QED BY <1>2, <1>7, <1>8, <2>2, <2>3 DEF OC!Client
<1>10. /\ ClientsIn(thr)[t].at = "asks" /\ ClientsIn(thr)[t].key = thr[t].req.key
       /\ ClientsIn(thr') =
             [ClientsIn(thr) EXCEPT ![t] =
                 OC!Client("hit", ClientsIn(thr)[t].key, k, seen[k].object)]
  <2>1. PICK x : x = ClientSeen(thr'[t])
    OBVIOUS
  <2>2. /\ ClientsIn(thr') = [ClientsIn(thr) EXCEPT ![t] = x]
        /\ ClientsIn(thr)[t] = ClientSeen(thr[t])
    BY <1>2, <2>1, ClientChanges
  <2> QED BY <1>9, <2>1, <2>2
<1>11. k \in DOMAIN [i \in 1 .. usedcnt + Cardinality(Inserted) |-> LineSeen(i)]
  BY <1>4, <1>6, ViewMeaning
<1>12. OC!Answers(k, t)
  BY <1>4, <1>7, <1>10, ViewMeaning DEF OC!Answers
<1>13. /\ [u \in Threads |-> ClientSeen(thr[u])][t].at = "asks"
       /\ UNCHANGED [i \in 1 .. usedcnt + Cardinality(Inserted) |-> LineSeen(i)]
       /\ UNCHANGED (gtime + Cardinality({u \in Threads :
                                 thr[u].pc \in {"payload", "stamp", "unlock"}}))
  BY <1>3, <1>10, ViewMeaning
<1>14. OC!Hit(t)
  BY <1>11, <1>12, <1>13 DEF OC!Hit
<1> QED BY <1>14 DEF OC!Next

\* A touch is one.
LEMMA TouchView ==
    ASSUME TypeOK, SemInv, UseInv, NEW t \in Threads, Touch(t)
    PROVE  OC!Next
<1> DEFINE k == thr[t].line
<1>1. t \in Writing /\ thr[t].pc = "touch"
  BY DEF Touch, At, Writing, WritePcs
<1>2. k \in 1 .. usedcnt /\ usedcnt \in Nat /\ k \in Lines /\ gtime \in Nat
  BY <1>1, UsedAreLines DEF UseInv, UseInvOf, TypeOK
<1>3. /\ cache' = [cache EXCEPT ![k].timestamp = gtime]
      /\ UNCHANGED <<usedcnt, gtime>>
  BY DEF Touch
<1>4. /\ thr'[t].pc = "unlock" /\ thr'[t].sent = thr[t].sent /\ OthersStay(t)
      /\ thr'[t].req = thr[t].req /\ thr[t].line = k
  BY MoveChanges DEF Touch
<1> HIDE DEF k
<1>5. /\ PendingIn(thr) = {} /\ TickedIn(thr) = {}
      /\ \A u \in Threads \ {t} : thr[u].pc \notin {"payload", "stamp", "unlock"}
  BY <1>1, WriterView
<1>6. PendingIn(thr') = {} /\ TickedIn(thr') = {t}
  BY <1>4, <1>5 DEF PendingIn, TickedIn, OthersStay
<1>7. /\ LinesIn(cache, usedcnt, gtime, thr) = [i \in 1 .. usedcnt |-> Plain(cache, i)]
      /\ ClockIn(gtime, thr) = gtime
  BY <1>2, <1>5, ViewIdle, ViewClock
<1>8. /\ LinesIn(cache', usedcnt', gtime', thr') = [i \in 1 .. usedcnt |-> Plain(cache', i)]
      /\ ClockIn(gtime', thr') = gtime + 1
  <2>1. usedcnt' = usedcnt /\ gtime' = gtime
    BY <1>3
  <2>2. LinesIn(cache', usedcnt, gtime, thr') = [i \in 1 .. usedcnt |-> Plain(cache', i)]
    BY <1>2, <1>6, ViewIdle
  <2>3. ClockIn(gtime, thr') = gtime + 1
    BY <1>2, <1>6, ViewClock
  <2> QED BY <2>1, <2>2, <2>3
<1>9. \A i \in 1 .. usedcnt :
         Plain(cache', i) = IF i = k THEN [Plain(cache, i) EXCEPT !.stamp = gtime]
                                     ELSE Plain(cache, i)
  BY <1>2, <1>3, UsedAreLines DEF Plain, TypeOK, LineType
<1>10. [i \in 1 .. usedcnt |-> Plain(cache', i)] =
          [[i \in 1 .. usedcnt |-> Plain(cache, i)] EXCEPT ![k].stamp = gtime]
  BY <1>2, <1>9
<1>11. /\ ClientSeen(thr[t]).at = "hit" /\ ClientSeen(thr[t]).line = k
       /\ ClientSeen(thr'[t]) =
             OC!Client("done", ClientSeen(thr[t]).key, 0, ClientSeen(thr[t]).answer)
  <2>1. thr[t].pc \in BothPcs /\ thr'[t].pc \in DonePcs /\ thr[t].line # 0
    BY <1>1, <1>2, <1>4 DEF BothPcs, DonePcs
  <2>2. /\ ClientSeen(thr[t]) =
               [at |-> "hit", key |-> thr[t].req.key, line |-> k,
                answer |-> IF thr[t].sent = None THEN None ELSE Text(thr[t].sent)]
        /\ ClientSeen(thr'[t]) =
               [at |-> "done", key |-> thr[t].req.key, line |-> 0,
                answer |-> IF thr[t].sent = None THEN None ELSE Text(thr[t].sent)]
    BY <1>4, <2>1, SeenIs
  <2> QED BY <2>2 DEF OC!Client
<1>12. /\ ClientsIn(thr)[t].at = "hit" /\ ClientsIn(thr)[t].line = k
       /\ ClientsIn(thr') =
             [ClientsIn(thr) EXCEPT ![t] =
                 OC!Client("done", ClientsIn(thr)[t].key, 0, ClientsIn(thr)[t].answer)]
  <2>1. PICK x : x = ClientSeen(thr'[t])
    OBVIOUS
  <2>2. /\ ClientsIn(thr') = [ClientsIn(thr) EXCEPT ![t] = x]
        /\ ClientsIn(thr)[t] = ClientSeen(thr[t])
    BY <1>4, <2>1, ClientChanges
  <2> QED BY <1>11, <2>1, <2>2
<1>13. OC!Touch(t)
  BY <1>7, <1>8, <1>10, <1>12, ViewMeaning DEF OC!Touch
<1> QED BY <1>13 DEF OC!Next

\* A function on 1 .. n is a sequence, and one more value is an Append.
LEMMA OneMore ==
    ASSUME NEW n \in Nat, NEW s, NEW r, NEW x, DOMAIN s = 1 .. n, DOMAIN r = 1 .. n + 1,
           s = [i \in DOMAIN s |-> s[i]], r = [i \in DOMAIN r |-> r[i]],
           r[n + 1] = x, \A i \in 1 .. n : r[i] = s[i]
    PROVE  Len(s) = n /\ r = Append(s, x)
<1> DEFINE S == {s[i] : i \in 1 .. n} \cup {x}
<1>1. s \in [1 .. n -> S] /\ x \in S
  OBVIOUS
<1>2. s \in Seq(S) /\ Len(s) = n
  <2>1. s \in Seq(S)
    BY <1>1, SeqDef
  <2> QED BY <1>1, <2>1, LenProperties
<1> HIDE DEF S
<1> DEFINE a == Append(s, x)
<1>3. /\ \A i \in 1 .. n + 1 : a[i] = IF i = n + 1 THEN x ELSE s[i]
      /\ a = [i \in 1 .. n + 1 |-> a[i]]
  <2>1. /\ \A i \in 1 .. Len(s) + 1 : a[i] = IF i = Len(s) + 1 THEN x ELSE s[i]
        /\ a = [i \in 1 .. Len(s) + 1 |-> a[i]]
    <3>1. /\ a \in Seq(S) /\ Len(a) = Len(s) + 1 /\ a[Len(s) + 1] = x
          /\ \A i \in 1 .. Len(s) : a[i] = s[i]
      BY <1>1, <1>2, AppendProperties
    <3>2. a \in [1 .. Len(a) -> S]
      BY <3>1, LenProperties
    <3>3. \A i \in 1 .. n + 1 : i # n + 1 => i \in 1 .. n
      OBVIOUS
    <3> HIDE DEF a
    <3> QED BY <1>2, <3>1, <3>2, <3>3
  <2> QED BY <1>2, <2>1
<1> HIDE DEF a
<1>4. \A i \in 1 .. n + 1 : i # n + 1 => i \in 1 .. n
  OBVIOUS
<1>5. \A i \in 1 .. n + 1 : r[i] = a[i]
  BY <1>3, <1>4
<1>6. r = a
  BY <1>3, <1>5, Zenon
<1> QED BY <1>2, <1>6 DEF a

\* The first write of an insertion is the insertion: into a free line, or in the place
\* of the line used longest ago.
LEMMA WriteNameView ==
    ASSUME TypeOK, SemInv, UseInv, NEW t \in Threads, WriteName(t)
    PROVE  OC!Next
<1>0. PICK k, o, key, cnt, now : k = Target /\ o = thr[t].buf /\ key = thr[t].req.key
                             /\ cnt = usedcnt /\ now = gtime
  OBVIOUS
<1>1. t \in Writing /\ thr[t].pc = "name"
  BY DEF WriteName, At, Writing, WritePcs
<1>2. /\ k \in Lines
      /\ cnt < NUM_CACHE_LINE => k = cnt + 1
      /\ ~(cnt < NUM_CACHE_LINE) => k \in Oldest /\ cnt = NUM_CACHE_LINE
      /\ cnt \in Nat /\ now \in Nat /\ 1 .. cnt \subseteq Lines
  BY <1>0, LineChosen, UsedAreLines, LinesAssumption DEF TypeOK
<1>3. Whole(o) \in {Whole(text) : text \in Texts}
  BY <1>0 DEF TypeOK, ThreadType
<1>4. cache' = [cache EXCEPT ![k].name = key] /\ usedcnt' = cnt /\ gtime' = now
  BY <1>0 DEF WriteName
<1>5. /\ thr'[t].pc = "payload" /\ thr'[t].line = k /\ thr'[t].buf = o
      /\ thr'[t].sent = thr[t].sent /\ thr'[t].req = thr[t].req /\ OthersStay(t)
  BY <1>0 DEF WriteName, GotoWith, OthersStay, TypeOK, ThreadType
<1>6. /\ PendingIn(thr) = {} /\ TickedIn(thr) = {}
      /\ \A u \in Threads \ {t} : thr[u].pc \notin {"payload", "stamp", "unlock"}
  BY <1>1, WriterView
<1>7. PendingIn(thr') = {t} /\ TickedIn(thr') = {t}
  BY <1>5, <1>6 DEF PendingIn, TickedIn, OthersStay
<1>8. PICK before, after : before = LinesIn(cache, usedcnt, gtime, thr)
                           /\ after = LinesIn(cache', usedcnt', gtime', thr')
  OBVIOUS
<1>9. before = [i \in 1 .. cnt |-> Plain(cache, i)] /\ ClockIn(gtime, thr) = now
  BY <1>0, <1>2, <1>6, <1>8, ViewIdle, ViewClock
<1>10. Shows(after, cache', cnt, now, k, o)
  <2>1. after = LinesIn(cache', cnt, now, thr')
    BY <1>4, <1>8
  <2>2. Shows(LinesIn(cache', cnt, now, thr'), cache', cnt, now, thr'[t].line, thr'[t].buf)
    BY <1>2, <1>7, ViewPending
  <2> QED BY <1>5, <2>1, <2>2
<1>11. ClockIn(gtime', thr') = now + 1
  BY <1>2, <1>4, <1>7, ViewClock
<1>12. /\ ClientsIn(thr)[t].at = "missed" /\ ClientsIn(thr)[t].key = key
       /\ ClientsIn(thr') = [ClientsIn(thr) EXCEPT ![t].at = "done"]
  <2>1. thr[t].pc \in BothPcs /\ thr'[t].pc \in DonePcs /\ thr[t].line = 0
    BY <1>1, <1>5 DEF BothPcs, DonePcs, UseInv, UseInvOf
  <2>2. /\ ClientSeen(thr[t]) =
               [at |-> "missed", key |-> key, line |-> 0,
                answer |-> IF thr[t].sent = None THEN None ELSE Text(thr[t].sent)]
        /\ ClientSeen(thr'[t]) =
               [at |-> "done", key |-> key, line |-> 0,
                answer |-> IF thr[t].sent = None THEN None ELSE Text(thr[t].sent)]
    BY <1>0, <1>5, <2>1, SeenIs
  <2>3. ClientSeen(thr'[t]) = [ClientSeen(thr[t]) EXCEPT !.at = "done"]
    BY <2>2
  <2> QED BY <1>5, <2>2, <2>3, ClientMoves
<1>13. /\ Filled(cache', k, o, now) = [key |-> key, object |-> Whole(o), stamp |-> now]
       /\ \A i \in 1 .. cnt : i # k => Plain(cache', i) = Plain(cache, i)
  BY <1>2, <1>4 DEF Filled, Plain, TypeOK, LineType
<1> DEFINE line == [key |-> key, object |-> Whole(o), stamp |-> now]
<1>14. CASE cnt < NUM_CACHE_LINE
  <2>1. k = cnt + 1 /\ k > cnt
    BY <1>2, <1>14
  <2>2. /\ before = [i \in DOMAIN before |-> before[i]] /\ DOMAIN before = 1 .. cnt
        /\ after = [i \in DOMAIN after |-> after[i]] /\ DOMAIN after = 1 .. cnt + 1
        /\ after[cnt + 1] = line /\ \A i \in 1 .. cnt : after[i] = before[i]
    BY <1>2, <1>9, <1>10, <1>13, <2>1 DEF Shows
  <2> HIDE DEF line
  <2>3. Len(before) = cnt /\ after = Append(before, line)
    <3>1. cnt \in Nat
      BY <1>2
    <3> QED BY <2>2, <3>1, OneMore
  <2>4. OC!Insert(t)
    BY <1>3, <1>8, <1>9, <1>10, <1>11, <1>12, <1>14, <2>3, ViewMeaning
       DEF OC!Insert, OC!Line, line
  <2> QED BY <2>4 DEF OC!Next
<1>15. CASE ~(cnt < NUM_CACHE_LINE)
  <2>1. k \in 1 .. cnt /\ cnt = NUM_CACHE_LINE
    BY <1>2, <1>15 DEF Lines
  <2>2. after = [before EXCEPT ![k] = line]
    BY <1>2, <1>9, <1>10, <1>13, <2>1 DEF Shows
  <2>3. \A j \in 1 .. cnt : before[k].stamp <= before[j].stamp
    BY <1>2, <1>9, <1>15, <2>1 DEF Plain, Oldest, Lines
  <2>4. /\ DOMAIN before = 1 .. cnt /\ Len(before) = cnt
    BY <1>2, <1>9
  <2> HIDE DEF line
  <2>5. k \in DOMAIN [i \in 1 .. usedcnt + Cardinality(Inserted) |-> LineSeen(i)]
    BY <1>8, <2>1, <2>4, ViewMeaning
  <2>6. OC!GivesWay(k, t, Whole(o))
    BY <1>8, <1>9, <1>12, <2>2, <2>3, <2>4, ViewMeaning DEF OC!GivesWay, OC!Line, line
  <2>7. OC!Replace(t)
    <3>1. \E i \in DOMAIN [i \in 1 .. usedcnt + Cardinality(Inserted) |-> LineSeen(i)],
              p \in {Whole(text) : text \in Texts} : OC!GivesWay(i, t, p)
      BY <1>3, <2>5, <2>6
    <3> QED BY <1>8, <1>9, <1>11, <1>12, <2>1, <2>4, <3>1, ViewMeaning DEF OC!Replace
  <2> QED BY <2>7 DEF OC!Next
<1> QED BY <1>14, <1>15

\* The line being filled, and those in use beside it.
LEMMA FilledLine ==
    ASSUME TypeOK, UseInv, NEW t \in Threads, thr[t].pc \in {"payload", "stamp"}
    PROVE  /\ thr[t].line \in Lines
           /\ usedcnt \in Nat /\ gtime \in Nat
           /\ IF usedcnt < NUM_CACHE_LINE THEN thr[t].line = usedcnt + 1
                                          ELSE thr[t].line \in 1 .. usedcnt
           /\ \A i \in 1 .. (IF thr[t].line > usedcnt THEN usedcnt + 1 ELSE usedcnt) : i \in Lines
<1>1. /\ usedcnt \in Nat /\ gtime \in Nat /\ usedcnt <= NUM_CACHE_LINE
      /\ thr[t].line \in Lines
      /\ usedcnt < NUM_CACHE_LINE => thr[t].line = usedcnt + 1
  BY DEF UseInv, UseInvOf, TypeOK
<1> QED BY <1>1, LinesAssumption DEF Lines

\* Between its first write and V(&w) an insertion is done.
LEMMA DoneStays ==
    ASSUME NEW t \in Threads, OthersStay(t), thr[t].pc \in {"payload", "stamp"},
           thr'[t].pc \in {"stamp", "unlock"},
           thr'[t].sent = thr[t].sent, thr'[t].req = thr[t].req
    PROVE  ClientsIn(thr') = ClientsIn(thr)
<1>1. thr[t].pc \in DonePcs /\ thr'[t].pc \in DonePcs
  BY DEF DonePcs
<1>2. ClientSeen(thr'[t]) = ClientSeen(thr[t])
  BY <1>1, SameSeen
<1> QED BY <1>2 DEF ClientsIn, OthersStay

\* A thread that ends after it missed, or was done, leaves.
LEMMA LeaveView ==
    ASSUME NEW t \in Threads, OthersStay(t),
           thr[t].pc \in DonePcs \/ (thr[t].pc \in BothPcs /\ thr[t].line = 0),
           thr'[t].pc = "idle", thr'[t].sent = None,
           LinesIn(cache', usedcnt', gtime', thr') = LinesIn(cache, usedcnt, gtime, thr),
           ClockIn(gtime', thr') = ClockIn(gtime, thr)
    PROVE  OC!Next
<1>1. ClientSeen(thr[t]).at \in {"missed", "done"}
  BY SeenIs
<1>2. ClientSeen(thr'[t]) = OC!Away
  BY SeenIs DEF OC!Away, OC!Client
<1>3. /\ ClientsIn(thr)[t].at \in {"missed", "done"}
      /\ ClientsIn(thr') = [ClientsIn(thr) EXCEPT ![t] = OC!Away]
  BY <1>1, <1>2, ClientMoves
<1>4. OC!Leave(t)
  BY <1>3, ViewMeaning DEF OC!Leave
<1> QED BY <1>4 DEF OC!Next

\* The payload is already what ObjectCache sees.
LEMMA WritePayloadView ==
    ASSUME TypeOK, SemInv, UseInv, NEW t \in Threads, WritePayload(t)
    PROVE  UNCHANGED OC!vars
<1>0. PICK k, o : k = thr[t].line /\ o = thr[t].buf
  OBVIOUS
<1>1. t \in Writing /\ thr[t].pc = "payload"
  BY DEF WritePayload, At, Writing, WritePcs
<1>2. /\ k \in Lines /\ usedcnt \in Nat /\ gtime \in Nat
      /\ \A i \in 1 .. (IF k > usedcnt THEN usedcnt + 1 ELSE usedcnt) : i \in Lines
  BY <1>0, <1>1, FilledLine
<1>3. /\ cache' = [cache EXCEPT ![k].payload = Strcpy(@, o)]
      /\ usedcnt' = usedcnt /\ gtime' = gtime
  BY <1>0 DEF WritePayload
<1>4. /\ thr'[t].pc = "stamp" /\ thr'[t].line = k /\ thr'[t].buf = o
      /\ thr'[t].sent = thr[t].sent /\ thr'[t].req = thr[t].req /\ OthersStay(t)
  BY <1>0, MoveChanges DEF WritePayload
<1>5. /\ PendingIn(thr) = {t} /\ TickedIn(thr) = {t}
      /\ \A u \in Threads \ {t} : thr[u].pc \notin {"payload", "stamp", "unlock"}
  BY <1>1, WriterView
<1>6. PendingIn(thr') = {t} /\ TickedIn(thr') = {t}
  BY <1>4, <1>5 DEF PendingIn, TickedIn, OthersStay
<1>7. PICK after : after = LinesIn(cache', usedcnt, gtime, thr')
  OBVIOUS
<1>8. Shows(after, cache', usedcnt, gtime, k, o)
  <2>1. Shows(LinesIn(cache', usedcnt, gtime, thr'), cache', usedcnt, gtime,
              thr'[t].line, thr'[t].buf)
    BY <1>2, <1>6, ViewPending
  <2> QED BY <1>4, <1>7, <2>1
<1>9. Shows(LinesIn(cache, usedcnt, gtime, thr), cache, usedcnt, gtime, k, o)
  BY <1>0, <1>2, <1>5, ViewPending
<1>10. Shows(after, cache, usedcnt, gtime, k, o)
  <2>1. \A i \in Lines : /\ Filled(cache', i, o, gtime) = Filled(cache, i, o, gtime)
                         /\ i # k => Plain(cache', i) = Plain(cache, i)
    BY <1>3 DEF Filled, Plain, TypeOK, LineType
  <2> QED BY <1>2, <1>8, <2>1 DEF Shows
<1>11. LinesIn(cache', usedcnt', gtime', thr') = LinesIn(cache, usedcnt, gtime, thr)
  BY <1>3, <1>7, <1>9, <1>10, ShowsOne
<1>12. ClockIn(gtime', thr') = ClockIn(gtime, thr)
  BY <1>3, <1>5, <1>6 DEF ClockIn
<1>13. ClientsIn(thr') = ClientsIn(thr)
  BY <1>1, <1>4, DoneStays
<1> QED BY <1>11, <1>12, <1>13, ViewStutters

\* So is the stamp, and that the line is in use.
LEMMA WriteStampView ==
    ASSUME TypeOK, SemInv, UseInv, NEW t \in Threads, WriteStamp(t)
    PROVE  UNCHANGED OC!vars
<1>0. PICK k, o : k = thr[t].line /\ o = thr[t].buf
  OBVIOUS
<1>1. t \in Writing /\ thr[t].pc = "stamp"
  BY DEF WriteStamp, At, Writing, WritePcs
<1>2. /\ k \in Lines /\ usedcnt \in Nat /\ gtime \in Nat
      /\ IF usedcnt < NUM_CACHE_LINE THEN k = usedcnt + 1 ELSE k \in 1 .. usedcnt
      /\ \A i \in 1 .. (IF k > usedcnt THEN usedcnt + 1 ELSE usedcnt) : i \in Lines
  BY <1>0, <1>1, FilledLine
<1>3. /\ cache' = [cache EXCEPT ![k].timestamp = gtime] /\ gtime' = gtime
      /\ usedcnt' = IF usedcnt < NUM_CACHE_LINE THEN usedcnt + 1 ELSE usedcnt
  BY <1>0 DEF WriteStamp
<1>4. /\ thr'[t].pc = "unlock" /\ thr'[t].sent = thr[t].sent
      /\ thr'[t].req = thr[t].req /\ OthersStay(t)
  BY <1>0, MoveChanges DEF WriteStamp
<1>5. /\ PendingIn(thr) = {t} /\ TickedIn(thr) = {t}
      /\ \A u \in Threads \ {t} : thr[u].pc \notin {"payload", "stamp", "unlock"}
  BY <1>1, WriterView
<1>6. PendingIn(thr') = {} /\ TickedIn(thr') = {t}
  BY <1>4, <1>5 DEF PendingIn, TickedIn, OthersStay
<1>7. PICK after : after = LinesIn(cache', usedcnt', gtime', thr')
  OBVIOUS
<1>8. after = [i \in 1 .. (IF k > usedcnt THEN usedcnt + 1 ELSE usedcnt) |-> Plain(cache', i)]
  <2>1. usedcnt' = IF k > usedcnt THEN usedcnt + 1 ELSE usedcnt
    BY <1>2, <1>3
  <2>2. usedcnt' \in Nat
    BY <1>2, <2>1
  <2>3. LinesIn(cache', usedcnt', gtime', thr') = [i \in 1 .. usedcnt' |-> Plain(cache', i)]
    BY <1>6, <2>2, ViewIdle
  <2> QED BY <1>7, <2>1, <2>3
<1>9. Shows(LinesIn(cache, usedcnt, gtime, thr), cache, usedcnt, gtime, k, o)
  BY <1>0, <1>2, <1>5, ViewPending
<1>10. Shows(after, cache, usedcnt, gtime, k, o)
  <2>1. Text(cache[k].payload) = Whole(o)
    BY <1>0, <1>1 DEF UseInv, UseInvOf
  <2>2. \A i \in Lines :
           Plain(cache', i) = IF i = k THEN Filled(cache, i, o, gtime) ELSE Plain(cache, i)
    BY <1>2, <1>3, <2>1 DEF Filled, Plain, TypeOK, LineType
  <2> QED BY <1>2, <1>8, <2>2 DEF Shows
<1>11. LinesIn(cache', usedcnt', gtime', thr') = LinesIn(cache, usedcnt, gtime, thr)
  BY <1>7, <1>9, <1>10, ShowsOne
<1>12. ClockIn(gtime', thr') = ClockIn(gtime, thr)
  BY <1>3, <1>5, <1>6 DEF ClockIn
<1>13. ClientsIn(thr') = ClientsIn(thr)
  BY <1>1, <1>4, DoneStays
<1> QED BY <1>11, <1>12, <1>13, ViewStutters

\* The tick of gtime has been counted since the first write.
LEMMA WriterUnlockView ==
    ASSUME TypeOK, SemInv, UseInv, NEW t \in Threads, WriterUnlock(t)
    PROVE  OC!Next
<1>1. t \in Writing /\ thr[t].pc = "unlock"
  BY DEF WriterUnlock, At, Writing, WritePcs
<1>2. /\ cache' = cache /\ usedcnt' = usedcnt /\ gtime' = gtime + 1
      /\ usedcnt \in Nat /\ gtime \in Nat
  BY DEF WriterUnlock, TypeOK
<1>3. thr'[t].pc = "idle" /\ thr'[t].sent = None /\ OthersStay(t)
  BY NewThreadIs DEF WriterUnlock, Ends, OthersStay, TypeOK
<1>4. /\ PendingIn(thr) = {} /\ TickedIn(thr) = {t}
      /\ \A u \in Threads \ {t} : thr[u].pc \notin {"payload", "stamp", "unlock"}
  BY <1>1, WriterView
<1>5. PendingIn(thr') = {} /\ TickedIn(thr') = {}
  BY <1>3, <1>4 DEF PendingIn, TickedIn, OthersStay
<1>6. LinesIn(cache', usedcnt', gtime', thr') = LinesIn(cache, usedcnt, gtime, thr)
  <2>1. LinesIn(cache, usedcnt, gtime, thr) = [i \in 1 .. usedcnt |-> Plain(cache, i)]
    BY <1>2, <1>4, ViewIdle
  <2>2. LinesIn(cache, usedcnt, gtime', thr') = [i \in 1 .. usedcnt |-> Plain(cache, i)]
    BY <1>2, <1>5, ViewIdle
  <2> QED BY <1>2, <2>1, <2>2
<1>7. ClockIn(gtime', thr') = ClockIn(gtime, thr)
  <2>1. gtime' \in Nat
    BY <1>2
  <2>2. ClockIn(gtime', thr') = gtime' /\ ClockIn(gtime, thr) = gtime + 1
    BY <1>2, <1>4, <1>5, <2>1, ViewClock
  <2> QED BY <1>2, <2>2
<1>8. thr[t].pc \in DonePcs
  BY <1>1 DEF DonePcs
<1> QED BY <1>3, <1>6, <1>7, <1>8, LeaveView

\* Every step of the proxy is a step of ObjectCache, or none.
LEMMA ViewStep ==
    ASSUME TypeOK, SemInv, UseInv, [Next]_vars
    PROVE  [OC!Next]_OC!vars
<1>1. ASSUME UNCHANGED <<cache, usedcnt, gtime, thr>>
      PROVE  UNCHANGED OC!vars
  BY <1>1, ViewStutters
<1>2. ASSUME NEW t \in Threads, OthersStay(t), UNCHANGED <<cache, usedcnt, gtime>>,
             thr[t].pc \notin {"payload", "stamp", "unlock"},
             thr'[t].pc \notin {"payload", "stamp", "unlock"},
             thr'[t].sent = thr[t].sent, thr'[t].req = thr[t].req,
             \/ thr[t].pc \in AsksPcs /\ thr'[t].pc \in AsksPcs
             \/ thr[t].pc \in BothPcs /\ thr'[t].pc \in BothPcs /\ thr'[t].line = thr[t].line
      PROVE  UNCHANGED OC!vars
  <2>1. ClientSeen(thr'[t]) = ClientSeen(thr[t])
    BY <1>2, SameSeen
  <2> QED BY <1>2, <2>1, ViewKept, ViewStutters
<1>3. ASSUME NEW t \in Threads, NEW p, NEW q, UNCHANGED <<cache, usedcnt, gtime>>,
             thr[t].pc = p, Goto(t, q),
             \/ p \in AsksPcs /\ q \in AsksPcs
             \/ p \in BothPcs /\ q \in BothPcs
      PROVE  UNCHANGED OC!vars
  <2>1. \A x \in AsksPcs \cup BothPcs : x \notin {"payload", "stamp", "unlock"}
    BY DEF AsksPcs, BothPcs
  <2> QED BY <1>2, <1>3, <2>1, MoveChanges
<1>4. ASSUME NEW t \in Threads,
             ReaderEnter(t) \/ ReaderFirst(t) \/ ReaderEntered(t) \/ ReaderLeave(t)
                \/ ReaderLast(t) \/ ReaderLeft(t) \/ WriterLock(t)
      PROVE  UNCHANGED OC!vars
  BY <1>3, <1>4 DEF ReaderEnter, ReaderFirst, ReaderEntered, ReaderLeave, ReaderLast,
                    ReaderLeft, WriterLock, At, AsksPcs, BothPcs
<1>5. ASSUME NEW t \in Threads, Fetch(t)
      PROVE  UNCHANGED OC!vars
  <2>1. /\ thr[t].pc = "fetch" /\ thr'[t].pc = "lock" /\ thr'[t].sent = thr[t].sent
        /\ thr'[t].req = thr[t].req /\ thr'[t].line = thr[t].line
        /\ OthersStay(t) /\ UNCHANGED <<cache, usedcnt, gtime>>
    BY <1>5 DEF Fetch, At, OthersStay, TypeOK, ThreadType, shared
  <2>2. thr[t].pc \in BothPcs /\ thr'[t].pc \in BothPcs
    BY <2>1 DEF BothPcs
  <2> QED BY <1>2, <2>1, <2>2
<1>6. ASSUME NEW t \in Threads, FetchLarge(t)
      PROVE  [OC!Next]_OC!vars
  <2>1. CASE Exit
    BY <1>1, <2>1 DEF Exit, shared
  <2>2. CASE ~Exit
    <3>1. /\ thr[t].pc = "fetch" /\ thr'[t].pc = "idle" /\ thr'[t].sent = None
          /\ OthersStay(t) /\ UNCHANGED <<cache, usedcnt, gtime>>
      BY <1>6, <2>2, NewThreadIs DEF FetchLarge, Ends, At, OthersStay, TypeOK, shared
    <3>2. thr[t].pc \in BothPcs /\ thr[t].line = 0
      BY <3>1 DEF BothPcs, UseInv, UseInvOf
    <3>3. /\ LinesIn(cache', usedcnt', gtime', thr') = LinesIn(cache, usedcnt, gtime, thr)
          /\ ClockIn(gtime', thr') = ClockIn(gtime, thr)
      BY <3>1, ViewKept
    <3> QED BY <3>1, <3>2, <3>3, LeaveView
  <2> QED BY <2>1, <2>2
<1>7. ASSUME NEW t \in Threads, Send(t)
      PROVE  [OC!Next]_OC!vars
  <2>1. CASE Exit
    BY <1>1, <2>1 DEF Exit, shared
  <2>2. CASE ~Exit
    <3>1. /\ thr' = [thr EXCEPT ![t].pc = "leave", ![t].sent = cache[thr[t].line].payload]
          /\ UNCHANGED <<cache, usedcnt, gtime>> /\ thr[t].pc = "send"
      BY <1>7, <2>2 DEF Send, At, shared
    <3> QED BY <3>1, SendView
  <2> QED BY <2>1, <2>2
<1>8. ASSUME NEW t \in Threads, FetchFails(t) \/ ParseFails(t)
      PROVE  UNCHANGED OC!vars
  BY <1>1, <1>8 DEF FetchFails, ParseFails, Exit, shared
<1>9. CASE Quiet \/ UNCHANGED vars
  BY <1>1, <1>9 DEF Quiet, vars
<1> QED
  BY <1>4, <1>5, <1>6, <1>7, <1>8, <1>9, AcceptView, ScanView, TouchView, WriteNameView,
     WritePayloadView, WriteStampView, WriterUnlockView
     DEF Next, Step, Reader, Writer

\* The lookups, insertions and touches of any number of threads appear to happen one at
\* a time, on a cache that loses its least recently used line when it is full.
THEOREM ProxyImplementsObjectCache == Spec => ImplementsObjectCache
<1>1. Init => OC!Init
  <2> SUFFICES ASSUME Init PROVE OC!Init
    OBVIOUS
  <2>1. usedcnt = 0 /\ gtime = 0 /\ \A t \in Threads : thr[t].pc = "idle" /\ thr[t].sent = None
    BY NewThreadIs DEF Init
  <2>2. PendingIn(thr) = {} /\ TickedIn(thr) = {}
    BY <2>1 DEF PendingIn, TickedIn
  <2>3. LinesIn(cache, 0, gtime, thr) = [i \in 1 .. 0 |-> Plain(cache, i)]
    BY <2>2, ViewIdle
  <2>4. LinesIn(cache, usedcnt, gtime, thr) = <<>>
    BY <2>1, <2>3
  <2>5. ClockIn(gtime, thr) = 0
    BY <2>1, <2>2, ViewClock
  <2>6. ClientsIn(thr) = [t \in Threads |-> OC!Away]
    <3>1. \A t \in Threads : ClientSeen(thr[t]) = OC!Away
      <4> TAKE t \in Threads
      <4> QED BY <2>1, SeenIs DEF OC!Away, OC!Client
    <3> QED BY <3>1 DEF ClientsIn
  <2> QED BY <2>4, <2>5, <2>6, ViewMeaning DEF OC!Init
<1>2. TypeOK /\ SemInv /\ UseInv /\ [Next]_vars => [OC!Next]_OC!vars
  BY ViewStep
<1> QED BY <1>1, <1>2, UseInvariant, PTL DEF Spec, ImplementsObjectCache, OC!Spec
=============================================================================
