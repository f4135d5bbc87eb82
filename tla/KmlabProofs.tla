---------------------------- MODULE KmlabProofs ----------------------------
(***************************************************************************)
(* Proofs about Kmlab: the lock excludes, the list stays consistent under  *)
(* it, and what the buffers of the calls and the unloading of the module   *)
(* leave.                                                                  *)
(***************************************************************************)
EXTENDS Kmlab, SequenceTheorems, TLAPS

CallLocked == {"check", "add", "wunlock", "walk"}
WorkLocked == {"walk", "delete", "unlock"}

\* The types, by the component they belong to.
CallRecords == [pc : CallPcs, buf : Bufs \cup {NoOne}, pid : Pids \cup {NoOne},
                seen : Seq(Pids \cup {NoOne}), cur : 0 .. BLOCKS]
WorkRecords == [pc : {"idle", "lock", "walk", "delete", "unlock"},
                cur : 0 .. BLOCKS, tmp : 0 .. BLOCKS]

\* A call has a buffer until it is over, a valid pid once get_cpu_use has found it, and no
\* line of the report before it has the lock.
CallShape(r) ==
    /\ r.pc = "idle" => r.buf = NoOne
    /\ r.pc # "idle" => r.buf \in Bufs
    /\ r.pc \in {"wlock", "check", "add"} => r.pid \in Pids
    /\ r.pc = "rlock" => r.seen = <<>>

CallTypes == call \in [Callers -> CallRecords] /\ \A c \in Callers : CallShape(call[c])
WorkTypes == work \in [Workers -> WorkRecords]
ListTypes ==
    /\ list \in Seq(Blocks)
    /\ pidOf \in [Blocks -> Pids \cup {NoOne}]
    /\ \A b \in Listed : pidOf[b] \in Pids
Contents == [kind : {"text", "answer", "blank"}, by : Callers \cup {NoOne}]
HeapTypes ==
    /\ free \subseteq Bufs
    /\ buf \in [Bufs -> Contents]
ProcessTypes == alive \subseteq Pids /\ granted \subseteq Pids
ModuleTypes ==
    /\ lock \in Callers \cup Workers \cup {NoOne, Rmmod}
    /\ timer \in {"off", "pending", "running"}
    /\ works \in 0 .. MaxWork
    /\ wq \in {"none", "up", "draining", "destroyed"}
    /\ mod \in ModSteps
    /\ oops \in {"no", "noqueue", "mutex", "queue", "memory"}
    /\ raced \in BOOLEAN /\ emptied \in BOOLEAN /\ spilled \in BOOLEAN

Types == CallTypes /\ WorkTypes /\ ListTypes /\ HeapTypes /\ ProcessTypes /\ ModuleTypes

\* Who is between prime_lock and prime_unlock holds the lock, while the model runs.
LockInv ==
    oops = "no" =>
        /\ \A c \in Callers : call[c].pc \in CallLocked => lock = c
        /\ \A k \in Workers : work[k].pc \in WorkLocked => lock = k
        /\ mod = "freeing" => lock = Rmmod

\* A block is listed once, and the pid that is about to be added is not listed.
ListedOnce == \A i, j \in 1 .. Len(list) : list[i] = list[j] => i = j
NewPidIsNew == \A c \in Callers : call[c].pc = "add" => call[c].pid \notin ListedPids

\* A report has as many lines as its walk has passed blocks, each with the block's pid.
BlockAt(i) == IF i \in 1 .. Len(list) THEN list[i] ELSE Head0
WalkingCalls ==
    \A c \in Callers : call[c].pc = "walk" =>
        /\ Len(call[c].seen) <= Len(list)
        /\ call[c].cur = BlockAt(Len(call[c].seen) + 1)
        /\ \A i \in 1 .. Len(call[c].seen) : call[c].seen[i] = pidOf[list[i]]

\* The work handler is on a listed block and has read its link.
WalkingWork ==
    \A k \in Workers : work[k].pc \in {"walk", "delete"} =>
        work[k].cur \in Listed /\ work[k].tmp = After(work[k].cur)

ListInv == ListedOnce /\ NoPidTwice /\ NewPidIsNew /\ WalkingCalls /\ WalkingWork

\* What was granted lives and is listed; what is about to be deleted was not granted.
GrantInv ==
    /\ granted \subseteq alive
    /\ RegisteredStaysListed
    /\ \A k \in Workers : work[k].pc = "delete" => pidOf[work[k].cur] \notin granted

\* A buffer that is not free belongs to some call.
NoBufferLost == \A b \in Bufs \ free : \E c \in Callers : call[c].buf = b
HeapInv == NoBufferLost /\ BuffersAreOwn

Stopped   == {"stopped", "drain", "destroyed", "freeing", "gone"}
Destroyed == {"destroyed", "freeing", "gone"}

\* What kmlab_exit has done with the calls, the timer and the queue so far.
ExitInv ==
    /\ mod \in Stopped \cup {"removed"} => \A c \in Callers : call[c].pc = "idle"
    /\ raced => mod \in Stopped
    /\ wq = "destroyed" => mod \in Destroyed
    /\ ~raced =>
        /\ oops # "queue"
        /\ mod \in Stopped => timer = "off"
        /\ mod \in Destroyed => works = 0 /\ \A k \in Workers : work[k].pc = "idle"
        /\ mod = "gone" => list = <<>> /\ lock = NoOne

KInv == Types /\ LockInv /\ ListInv /\ GrantInv /\ HeapInv /\ ExitInv

\* The links of the list lead to listed blocks or to the head.
LEMMA Links ==
    ASSUME list \in Seq(Blocks)
    PROVE  /\ Listed \subseteq Blocks
           /\ First \in Listed \cup {Head0}
           /\ \A b \in Listed : IndexOf(b) \in 1 .. Len(list) /\ list[IndexOf(b)] = b
           /\ \A b : After(b) \in Listed \cup {Head0}
<1>1. \A i \in 1 .. Len(list) : list[i] \in Blocks /\ list[i] \in Listed
  BY ElementOfSeq DEF Listed
<1>2. Listed \subseteq Blocks
  BY <1>1 DEF Listed
<1>3. \A b \in Listed : IndexOf(b) \in 1 .. Len(list) /\ list[IndexOf(b)] = b
  BY DEF Listed, IndexOf
<1>4. First \in Listed \cup {Head0}
  <2>1. list # <<>> => 1 \in 1 .. Len(list)
    BY EmptySeq, LenProperties
  <2> QED BY <1>1, <2>1 DEF First
<1>5. ASSUME NEW b
      PROVE  After(b) \in Listed \cup {Head0}
  <2>1. CASE b \in Listed /\ IndexOf(b) < Len(list)
    <3>1. IndexOf(b) + 1 \in 1 .. Len(list)
      BY <1>3, <2>1, LenProperties
    <3> QED BY <1>1, <2>1, <3>1 DEF After
  <2> QED BY <2>1 DEF After
<1> QED BY <1>2, <1>3, <1>4, <1>5

\* A record of a call stays one when some of its fields are replaced.
LEMMA CallUpdates ==
    ASSUME NEW P, NEW B, NEW Q, NEW S, NEW U, NEW R,
           R = [pc : P, buf : B, pid : Q, seen : S, cur : U], NEW r \in R
    PROVE  /\ \A x \in P : [r EXCEPT !.pc = x] \in R
           /\ \A x \in P, p \in Q : [r EXCEPT !.pc = x, !.pid = p] \in R
           /\ \A x \in P, u \in U : [r EXCEPT !.pc = x, !.cur = u] \in R
           /\ \A x \in P, n \in S : [r EXCEPT !.pc = x, !.seen = n] \in R
           /\ \A n \in S, u \in U : [r EXCEPT !.seen = n, !.cur = u] \in R
<1>1. \A x \in P : [r EXCEPT !.pc = x] \in R
  OBVIOUS
<1>2. \A x \in P, p \in Q : [r EXCEPT !.pc = x, !.pid = p] \in R
  OBVIOUS
<1>3. \A x \in P, u \in U : [r EXCEPT !.pc = x, !.cur = u] \in R
  OBVIOUS
<1>4. \A x \in P, n \in S : [r EXCEPT !.pc = x, !.seen = n] \in R
  OBVIOUS
<1>5. \A n \in S, u \in U : [r EXCEPT !.seen = n, !.cur = u] \in R
  OBVIOUS
<1> QED BY <1>1, <1>2, <1>3, <1>4, <1>5

\* A step that replaces the record of one call.
LEMMA CallChanges ==
    ASSUME CallTypes, NEW c \in Callers, NEW r \in CallRecords, CallShape(r),
           call' = [call EXCEPT ![c] = r]
    PROVE  CallTypes' /\ \A d \in Callers \ {c} : call'[d] = call[d]
<1>1. call \in [Callers -> CallRecords] /\ \A d \in Callers : CallShape(call[d])
  BY DEF CallTypes
<1>2. call' \in [Callers -> CallRecords]
  BY <1>1
<1>3. call'[c] = r /\ \A d \in Callers \ {c} : call'[d] = call[d]
  BY <1>1
<1>4. \A d \in Callers : CallShape(call'[d])
  BY <1>1, <1>3
<1> QED BY <1>2, <1>3, <1>4 DEF CallTypes

\* The record of a call that has ended.
LEMMA IdleCallIs == IdleCall \in CallRecords /\ CallShape(IdleCall)
<1>1. PICK none : none = <<>>
  OBVIOUS
<1>2. none \in Seq(Pids \cup {NoOne}) /\ 0 \in 0 .. BLOCKS /\ "idle" \in CallPcs
  BY <1>1, EmptySeq, BoundsAssumption DEF CallPcs
<1>3. IdleCall = [pc |-> "idle", buf |-> NoOne, pid |-> NoOne, seen |-> none, cur |-> 0]
  BY <1>1 DEF IdleCall, Head0
<1> QED BY <1>2, <1>3 DEF CallRecords, CallShape

\* Every step of a call leaves the other calls alone and keeps the records of the calls.
LEMMA CallStepTypes ==
    ASSUME CallTypes, ListTypes, ProcessTypes, NEW c \in Callers, CallStep(c)
    PROVE  CallTypes' /\ \A d \in Callers \ {c} : call'[d] = call[d]
<1>1. PICK q : q = call[c] /\ q \in CallRecords /\ CallShape(q)
  BY DEF CallTypes
<1>2. /\ \A x \in CallPcs : [q EXCEPT !.pc = x] \in CallRecords
      /\ \A x \in CallPcs, p \in Pids \cup {NoOne} : [q EXCEPT !.pc = x, !.pid = p] \in CallRecords
      /\ \A x \in CallPcs, u \in 0 .. BLOCKS : [q EXCEPT !.pc = x, !.cur = u] \in CallRecords
      /\ \A x \in CallPcs, n \in Seq(Pids \cup {NoOne}) :
            [q EXCEPT !.pc = x, !.seen = n] \in CallRecords
      /\ \A n \in Seq(Pids \cup {NoOne}), u \in 0 .. BLOCKS :
            [q EXCEPT !.seen = n, !.cur = u] \in CallRecords
  BY <1>1, CallUpdates DEF CallRecords
<1>3. call \in [Callers -> CallRecords]
  BY DEF CallTypes
<1>4. \A x \in CallPcs : call' = [call EXCEPT ![c].pc = x] => call' = [call EXCEPT ![c] = [q EXCEPT !.pc = x]]
  BY <1>1
<1>5. ASSUME NEW x \in CallPcs, call' = [call EXCEPT ![c] = [q EXCEPT !.pc = x]], x # "idle",
             q.pc # "idle", x \in {"wlock", "check", "add"} => q.pid \in Pids, x # "rlock"
      PROVE  CallTypes' /\ \A d \in Callers \ {c} : call'[d] = call[d]
  <2>1. PICK r : r = [q EXCEPT !.pc = x]
    OBVIOUS
  <2>2. r \in CallRecords /\ call' = [call EXCEPT ![c] = r]
    BY <1>2, <1>5, <2>1
  <2>3. r.pc = x /\ r.buf = q.buf /\ r.pid = q.pid
    BY <1>1, <2>1 DEF CallRecords
  <2>4. CallShape(r)
    BY <1>1, <1>5, <2>3 DEF CallShape
  <2> QED BY <2>2, <2>4, CallChanges
<1>6. CASE \E p \in Pids : AcceptPid(c, p)
  <2>1. PICK p \in Pids : AcceptPid(c, p)
    BY <1>6
  <2>2. /\ p \in Pids /\ q.pc = "parse" /\ "wlock" \in CallPcs
        /\ call' = [call EXCEPT ![c].pc = "wlock", ![c].pid = p]
    BY <1>1, <2>1 DEF AcceptPid, InCall, CallPcs
  <2>3. PICK r : r = [q EXCEPT !.pc = "wlock", !.pid = p]
    OBVIOUS
  <2>4. r \in CallRecords /\ call' = [call EXCEPT ![c] = r]
    BY <1>1, <1>2, <2>2, <2>3
  <2>5. r.pc = "wlock" /\ r.buf = q.buf /\ r.pid = p
    BY <1>1, <2>3 DEF CallRecords
  <2>6. CallShape(r)
    BY <1>1, <2>2, <2>5 DEF CallShape
  <2> QED BY <2>4, <2>6, CallChanges
<1>7. CASE RejectPid(c) \/ WriteUnlock(c) \/ CopyOut(c)
  <2>1. call' = [call EXCEPT ![c] = IdleCall]
    BY <1>7 DEF RejectPid, EndCall, WriteUnlock, CopyOut
  <2> QED BY <2>1, IdleCallIs, CallChanges
<1>8. CASE WriteLock(c)
  <2>1. q.pc = "wlock" /\ call' = [call EXCEPT ![c].pc = "check"] /\ "check" \in CallPcs
    BY <1>1, <1>8 DEF WriteLock, InCall, ToCall, CallPcs
  <2>2. q.pid \in Pids
    BY <1>1, <2>1 DEF CallShape
  <2> QED BY <1>4, <1>5, <2>1, <2>2
<1>9. CASE CheckPid(c)
  <2>1. PICK x \in {"wunlock", "add"} : call' = [call EXCEPT ![c].pc = x]
    BY <1>9 DEF CheckPid, ToCall
  <2>2. q.pc = "check" /\ x \in CallPcs
    BY <1>1, <1>9 DEF CheckPid, InCall, CallPcs
  <2>3. q.pid \in Pids
    BY <1>1, <2>2 DEF CallShape
  <2> QED BY <1>4, <1>5, <2>1, <2>2, <2>3
<1>10. CASE AddPid(c)
  <2>1. q.pc = "add" /\ call' = [call EXCEPT ![c].pc = "wunlock"] /\ "wunlock" \in CallPcs
    BY <1>1, <1>10 DEF AddPid, InCall, ToCall, CallPcs
  <2> QED BY <1>4, <1>5, <2>1
<1>11. CASE ReadLock(c)
  <2>1. First \in 0 .. BLOCKS
    BY Links, BoundsAssumption DEF ListTypes, Blocks, Head0
  <2>2. PICK r, u : u = First /\ r = [q EXCEPT !.pc = "walk", !.cur = u]
    OBVIOUS
  <2>3. /\ q.pc = "rlock" /\ "walk" \in CallPcs
        /\ call' = [call EXCEPT ![c].pc = "walk", ![c].cur = u]
    BY <1>1, <1>11, <2>2 DEF ReadLock, InCall, CallPcs
  <2>4. r \in CallRecords /\ call' = [call EXCEPT ![c] = r]
    BY <1>1, <1>2, <2>1, <2>2, <2>3
  <2>5. r.pc = "walk" /\ r.buf = q.buf
    BY <1>1, <2>2 DEF CallRecords
  <2>6. CallShape(r)
    BY <1>1, <2>3, <2>5 DEF CallShape
  <2> QED BY <2>4, <2>6, CallChanges
<1>12. CASE PrintPid(c)
  <2>1. PICK pid, next, longer : /\ pid = pidOf[call[c].cur] /\ next = After(call[c].cur)
                                 /\ longer = Append(call[c].seen, pid)
    OBVIOUS
  <2>2. pid \in Pids \cup {NoOne}
    <3>1. q.cur \in 0 .. BLOCKS /\ q.cur # Head0
      BY <1>1, <1>12 DEF PrintPid, CallRecords
    <3>2. call[c].cur \in Blocks
      BY <1>1, <3>1, BoundsAssumption DEF Blocks, Head0
    <3> QED BY <2>1, <3>2 DEF ListTypes
  <2>3. next \in 0 .. BLOCKS
    BY <2>1, Links, BoundsAssumption DEF ListTypes, Blocks, Head0
  <2>4. longer \in Seq(Pids \cup {NoOne})
    <3>1. call[c].seen \in Seq(Pids \cup {NoOne})
      BY <1>1 DEF CallRecords
    <3> QED BY <2>1, <2>2, <3>1, AppendProperties
  <2>5. q.pc = "walk" /\ call' = [call EXCEPT ![c].seen = longer, ![c].cur = next]
    BY <1>1, <1>12, <2>1 DEF PrintPid, InCall
  <2>6. PICK r : r = [q EXCEPT !.seen = longer, !.cur = next]
    OBVIOUS
  <2>7. r \in CallRecords /\ call' = [call EXCEPT ![c] = r]
    BY <1>1, <1>2, <2>3, <2>4, <2>5, <2>6
  <2>8. r.pc = q.pc /\ r.buf = q.buf
    BY <1>1, <2>6 DEF CallRecords
  <2>9. CallShape(r)
    BY <1>1, <2>5, <2>8 DEF CallShape
  <2> QED BY <2>7, <2>9, CallChanges
<1>13. CASE ReadUnlock(c)
  <2>1. PICK x, n : n = <<>> /\ x = CASE call[c].seen = <<>>     -> "empty"
                                      [] Len(call[c].seen) > LINES -> "rpast"
                                      [] OTHER                     -> "copy"
    OBVIOUS
  <2>2. x \in {"empty", "rpast", "copy"} /\ n \in Seq(Pids \cup {NoOne})
    BY <2>1, EmptySeq
  <2>3. q.pc = "walk" /\ x \in CallPcs /\ call' = [call EXCEPT ![c].pc = x, ![c].seen = n]
    BY <1>1, <1>13, <2>1, <2>2 DEF ReadUnlock, InCall, CallPcs
  <2>4. PICK r : r = [q EXCEPT !.pc = x, !.seen = n]
    OBVIOUS
  <2>5. r \in CallRecords /\ call' = [call EXCEPT ![c] = r]
    BY <1>1, <1>2, <2>2, <2>3, <2>4
  <2>6. r.pc = x /\ r.buf = q.buf
    BY <1>1, <2>4 DEF CallRecords
  <2>7. CallShape(r)
    BY <1>1, <2>2, <2>3, <2>6 DEF CallShape
  <2> QED BY <2>5, <2>7, CallChanges
<1>14. CASE FreeEmpty(c)
  <2>1. /\ q.pc = "empty" /\ call' = [call EXCEPT ![c].pc = "message"]
        /\ "message" \in CallPcs
    BY <1>1, <1>14 DEF FreeEmpty, InCall, ToCall, CallPcs
  <2> QED BY <1>4, <1>5, <2>1
<1>15. CASE PrintMessage(c)
  <2>1. /\ q.pc = "message" /\ call' = [call EXCEPT ![c].pc = "copy"]
        /\ "copy" \in CallPcs
    BY <1>1, <1>15 DEF PrintMessage, InCall, ToCall, CallPcs
  <2> QED BY <1>4, <1>5, <2>1
<1>16. CASE EarlyWait(c) \/ MemoryBreaks(c)
  BY <1>16 DEF EarlyWait, MemoryBreaks, modFrame, CallTypes
<1>17. CASE EndWrite(c)
  <2>1. /\ q.pc = "wpast" /\ call' = [call EXCEPT ![c].pc = "parse"]
        /\ "parse" \in CallPcs
    BY <1>1, <1>17 DEF EndWrite, InCall, ToCall, CallPcs
  <2> QED BY <1>4, <1>5, <2>1
<1>18. CASE EndReport(c)
  <2>1. /\ q.pc = "rpast" /\ call' = [call EXCEPT ![c].pc = "copy"]
        /\ "copy" \in CallPcs
    BY <1>1, <1>18 DEF EndReport, InCall, ToCall, CallPcs
  <2> QED BY <1>4, <1>5, <2>1
<1> QED BY <1>6, <1>7, <1>8, <1>9, <1>10, <1>11, <1>12, <1>13, <1>14, <1>15, <1>16, <1>17, <1>18
        DEF CallStep, PrintInside, PrintPast

\* A write or a read of the file begins.
Begin(c) == \E b \in Bufs : BeginRead(c, b) \/ BeginWrite(c, b)

\* A new call takes the place of an idle one, and its buffer is one that was free.
TakesBuffer(c) ==
    \E pc \in {"parse", "wpast", "rlock"}, b \in free :
        /\ call' = [call EXCEPT ![c] = [IdleCall EXCEPT !.pc = pc, !.buf = b]]
        /\ free' = free \ {b}
        /\ \/ buf' = [buf EXCEPT ![b] = Answer(c)]
           \/ buf' = [buf EXCEPT ![b] = Text(c)]

\* What the start of a call does.
LEMMA BeginSteps ==
    ASSUME NEW c \in Callers, Begin(c)
    PROVE  /\ call[c].pc = "idle" /\ oops = "no" /\ FileUsable
           /\ TakesBuffer(c) /\ UNCHANGED <<callFrame, listVars>>
<1>1. ASSUME NEW b \in Bufs, BeginRead(c, b)
      PROVE  TakesBuffer(c)
  <2>1. /\ call' = [call EXCEPT ![c] = [IdleCall EXCEPT !.pc = "rlock", !.buf = b]]
        /\ b \in free /\ free' = free \ {b}
        /\ buf' = [buf EXCEPT ![b] = Answer(c)]
    BY <1>1, Zenon DEF BeginRead, Kmalloc
  <2> QED BY <2>1, Zenon DEF TakesBuffer
<1>2. ASSUME NEW b \in Bufs, BeginWrite(c, b)
      PROVE  TakesBuffer(c)
  <2>1. /\ \E pc \in {"parse", "wpast"} :
              call' = [call EXCEPT ![c] = [IdleCall EXCEPT !.pc = pc, !.buf = b]]
        /\ b \in free /\ free' = free \ {b}
        /\ buf' = [buf EXCEPT ![b] = Text(c)]
    BY <1>2, Zenon DEF BeginWrite, Kmalloc
  <2> QED BY <2>1, Zenon DEF TakesBuffer
<1> QED BY <1>1, <1>2 DEF Begin, BeginRead, BeginWrite, InCall

\* The records of the calls and the heap stay typed.
LEMMA BeginTypes ==
    ASSUME CallTypes, HeapTypes, NEW c \in Callers, Begin(c)
    PROVE  /\ CallTypes' /\ HeapTypes' /\ \A d \in Callers \ {c} : call'[d] = call[d]
           /\ call'[c].pc \in {"parse", "wpast", "rlock"}
<1> DEFINE begun(pc, b) == [IdleCall EXCEPT !.pc = pc, !.buf = b]
<1> USE BoundsAssumption DEF CallPcs
<1>1. ASSUME NEW pc \in {"parse", "wpast", "rlock"}, NEW b \in Bufs
      PROVE  /\ begun(pc, b) \in CallRecords /\ CallShape(begun(pc, b))
             /\ begun(pc, b).pc = pc /\ begun(pc, b).buf = b
  <2>1. IdleCall \in CallRecords
    BY EmptySeq DEF IdleCall, CallRecords, Head0
  <2>2. begun(pc, b).pc = pc /\ begun(pc, b).buf = b
    BY <2>1 DEF CallRecords
  <2>3. begun(pc, b).seen = <<>>
    BY DEF IdleCall
  <2>4. begun(pc, b) \in CallRecords
    BY <2>1 DEF CallRecords
  <2>5. CallShape(begun(pc, b))
    BY <2>2, <2>3 DEF CallShape
  <2> QED BY <2>2, <2>4, <2>5
<1>2. PICK pc \in {"parse", "wpast", "rlock"}, b \in free :
           /\ call' = [call EXCEPT ![c] = begun(pc, b)]
           /\ free' = free \ {b}
           /\ \/ buf' = [buf EXCEPT ![b] = Answer(c)]
              \/ buf' = [buf EXCEPT ![b] = Text(c)]
  BY BeginSteps DEF TakesBuffer
<1>3. b \in Bufs
  BY <1>2 DEF HeapTypes
<1>4. HeapTypes'
  BY <1>2, <1>3 DEF HeapTypes, Contents, Answer, Text
<1> HIDE DEF begun
<1> QED BY <1>1, <1>2, <1>3, <1>4 DEF CallTypes

\* What the steps of a call leave alone.
LEMMA CallFrame ==
    ASSUME NEW c \in Callers, CallStep(c)
    PROVE  /\ UNCHANGED <<alive, timer, works, work, mod, wq, raced>>
           /\ oops = "no"
           /\ oops' = "no" \/ (oops' \in {"mutex", "memory"} /\ UNCHANGED <<call, lock>>)
           /\ ~AddPid(c) => UNCHANGED <<list, pidOf, granted>>
           /\ ~FreeEmpty(c) => emptied' = emptied
           /\ spilled' = spilled \/ spilled' = TRUE
<1> USE DEF callFrame, listVars, heap, hist, modVars, modFrame, InCall
<1>1. CASE \E p \in Pids : AcceptPid(c, p)
  BY <1>1 DEF AcceptPid
<1>2. CASE RejectPid(c)
  BY <1>2 DEF RejectPid
<1>3. CASE WriteLock(c)
  BY <1>3 DEF WriteLock
<1>4. CASE CheckPid(c)
  BY <1>4 DEF CheckPid
<1>5. CASE AddPid(c)
  BY <1>5 DEF AddPid
<1>6. CASE WriteUnlock(c)
  BY <1>6 DEF WriteUnlock
<1>7. CASE ReadLock(c)
  BY <1>7 DEF ReadLock
<1>8. CASE PrintInside(c) \/ PrintPast(c)
  BY <1>8 DEF PrintPid, PrintInside, PrintPast
<1>9. CASE ReadUnlock(c)
  BY <1>9 DEF ReadUnlock
<1>10. CASE FreeEmpty(c)
  BY <1>10 DEF FreeEmpty
<1>11. CASE PrintMessage(c)
  BY <1>11 DEF PrintMessage
<1>12. CASE CopyOut(c)
  BY <1>12 DEF CopyOut
<1>13. CASE EarlyWait(c)
  BY <1>13 DEF EarlyWait
<1>14. CASE EndWrite(c)
  BY <1>14 DEF EndWrite
<1>15. CASE EndReport(c)
  BY <1>15 DEF EndReport
<1>16. CASE MemoryBreaks(c)
  BY <1>16 DEF MemoryBreaks
<1> QED BY <1>1, <1>2, <1>3, <1>4, <1>5, <1>6, <1>7, <1>8, <1>9, <1>10, <1>11, <1>12, <1>13, <1>14, <1>15, <1>16
        DEF CallStep, PrintInside, PrintPast

\* What the steps of a worker leave alone.
LEMMA WorkFrame ==
    ASSUME NEW k \in Workers, WorkStep(k)
    PROVE  /\ UNCHANGED <<alive, free, buf, call, timer, mod, oops, wq, raced, emptied, spilled, granted>>
           /\ oops = "no"
           /\ ~DeletePid(k) => UNCHANGED <<list, pidOf>>
           /\ ~WorkStarts(k) => works' = works
<1> USE DEF workFrame, listVars, heap, hist, modVars, InWork
<1>1. CASE WorkStarts(k)
  BY <1>1 DEF WorkStarts
<1>2. CASE WorkLock(k)
  BY <1>2 DEF WorkLock
<1>3. CASE LookUp(k)
  BY <1>3 DEF LookUp
<1>4. CASE DeletePid(k)
  BY <1>4 DEF DeletePid
<1>5. CASE WorkUnlock(k)
  BY <1>5 DEF WorkUnlock
<1> QED BY <1>1, <1>2, <1>3, <1>4, <1>5 DEF WorkStep

\* What the timer and the loading and unloading of the module leave alone.
LEMMA ModuleFrame ==
    ASSUME TimerStep \/ RemoveFile \/ ModuleStep
    PROVE  /\ UNCHANGED <<alive, free, buf, call, work, emptied, spilled>>
           /\ oops = "no"
           /\ ~FreeList => UNCHANGED <<list, pidOf, granted>>
           /\ ~TimerHandles => works' = works
<1> USE DEF modFrame, listVars, heap, hist, modVars, InModule, ToModule
<1>1. CASE TimerExpires
  BY <1>1 DEF TimerExpires
<1>2. CASE TimerHandles
  BY <1>2 DEF TimerHandles
<1>3. CASE TimerMissesQueue
  BY <1>3 DEF TimerMissesQueue
<1>4. CASE RemoveFile
  BY <1>4 DEF RemoveFile
<1>5. CASE CreateFile
  BY <1>5 DEF CreateFile
<1>6. CASE ArmTimer
  BY <1>6 DEF ArmTimer
<1>7. CASE MutexInit
  BY <1>7 DEF MutexInit
<1>8. CASE FileRemoved
  BY <1>8 DEF FileRemoved
<1>9. CASE DelTimer
  BY <1>9 DEF DelTimer
<1>10. CASE DestroyQueue
  BY <1>10 DEF DestroyQueue
<1>11. CASE QueueDrained
  BY <1>11 DEF QueueDrained
<1>12. CASE ExitLock
  BY <1>12 DEF ExitLock
<1>13. CASE FreeList
  BY <1>13 DEF FreeList
<1> QED BY <1>1, <1>2, <1>3, <1>4, <1>5, <1>6, <1>7, <1>8, <1>9, <1>10, <1>11, <1>12, <1>13 DEF TimerStep, ModuleStep

\* list_add puts a block in front and moves the others on by one place.
LEMMA AddToList ==
    ASSUME ListTypes, NEW b \in Blocks, list' = <<b>> \o list
    PROVE  /\ list' \in Seq(Blocks) /\ Len(list') = Len(list) + 1
           /\ list'[1] = b /\ \A i \in 1 .. Len(list) : list'[i + 1] = list[i]
           /\ Listed' = Listed \cup {b}
<1>1. <<b>> \in Seq(Blocks) /\ Len(<<b>>) = 1 /\ <<b>>[1] = b
  OBVIOUS
<1>2. list \in Seq(Blocks) /\ Len(list) \in Nat
  BY LenProperties DEF ListTypes
<1>3. list' \in Seq(Blocks) /\ Len(list') = Len(list) + 1
  BY <1>1, <1>2, ConcatProperties
<1>4. list'[1] = b
  BY <1>1, <1>2, ConcatProperties
<1>5. ASSUME NEW i \in 1 .. Len(list)
      PROVE  list'[i + 1] = list[i]
  <2>1. i + 1 \in 1 + 1 .. 1 + Len(list) /\ (i + 1) - 1 = i
    BY <1>2
  <2> QED BY <1>1, <1>2, <2>1, ConcatProperties
<1>6. \A i \in 1 .. Len(list') : i = 1 \/ i - 1 \in 1 .. Len(list)
  BY <1>2, <1>3
<1>7. Listed' \subseteq Listed \cup {b}
  <2> SUFFICES ASSUME NEW i \in 1 .. Len(list')
               PROVE  list'[i] \in Listed \cup {b}
    BY DEF Listed
  <2>1. CASE i = 1
    BY <1>4, <2>1
  <2>2. CASE i - 1 \in 1 .. Len(list)
    <3>1. list'[i] = list[i - 1]
      BY <1>5, <2>2
    <3> QED BY <2>2, <3>1 DEF Listed
  <2> QED BY <1>6, <2>1, <2>2
<1>8. Listed \cup {b} \subseteq Listed'
  <2>1. b \in Listed'
    BY <1>2, <1>3, <1>4 DEF Listed
  <2>2. ASSUME NEW i \in 1 .. Len(list)
        PROVE  list[i] \in Listed'
    <3>1. i + 1 \in 1 .. Len(list')
      BY <1>2, <1>3
    <3> QED BY <1>5, <3>1 DEF Listed
  <2> QED BY <2>1, <2>2 DEF Listed
<1> QED BY <1>3, <1>4, <1>5, <1>7, <1>8

\* list_del takes a block off the list; what follows it moves up by one place.
LEMMA TakeOffList ==
    ASSUME ListTypes, ListedOnce, NEW b \in Listed, list' = Unlink(b)
    PROVE  /\ list' \in Seq(Blocks) /\ Len(list') = Len(list) - 1
           /\ \A i \in 1 .. Len(list') :
                 list'[i] = IF i < IndexOf(b) THEN list[i] ELSE list[i + 1]
           /\ Listed' = Listed \ {b}
           /\ ListedOnce'
<1>1. list \in Seq(Blocks) /\ Len(list) \in Nat
  BY LenProperties DEF ListTypes
<1>2. IndexOf(b) \in 1 .. Len(list) /\ list[IndexOf(b)] = b
  BY <1>1, Links
<1> DEFINE at == IndexOf(b)
           n == Len(list) - 1
           old(i) == IF i < at THEN i ELSE i + 1
<1>3. n \in Nat /\ \A i \in 1 .. n : old(i) \in 1 .. Len(list) /\ old(i) # at
  BY <1>1, <1>2
<1>4. list' = [i \in 1 .. n |-> list[old(i)]]
  BY DEF Unlink
<1>5. \A i \in 1 .. Len(list) : list[i] \in Blocks
  BY <1>1, ElementOfSeq
<1>6. list' \in Seq(Blocks) /\ Len(list') = n
  BY <1>3, <1>4, <1>5, SeqDef, LenProperties
<1>7. \A i \in 1 .. n : list'[i] = list[old(i)]
  BY <1>4
<1>8. Listed' \subseteq Listed \ {b}
  <2> SUFFICES ASSUME NEW i \in 1 .. n
               PROVE  list'[i] \in Listed /\ list'[i] # b
    BY <1>6 DEF Listed
  <2>1. old(i) \in 1 .. Len(list) /\ old(i) # at /\ list'[i] = list[old(i)]
    BY <1>3, <1>7
  <2> HIDE DEF old, n
  <2>2. list[old(i)] # list[at]
    BY <1>2, <2>1 DEF ListedOnce
  <2> QED BY <1>2, <2>1, <2>2 DEF Listed
<1>9. Listed \ {b} \subseteq Listed'
  <2> SUFFICES ASSUME NEW j \in 1 .. Len(list), j # at
               PROVE  list[j] \in Listed'
    BY <1>2 DEF Listed
  <2> DEFINE i == IF j < at THEN j ELSE j - 1
  <2>1. i \in 1 .. n /\ old(i) = j
    BY <1>1, <1>2
  <2> HIDE DEF i, old
  <2>2. list'[i] = list[j]
    BY <1>7, <2>1
  <2> QED BY <1>6, <2>1, <2>2 DEF Listed
<1>10. ListedOnce'
  <2> SUFFICES ASSUME NEW i \in 1 .. n, NEW j \in 1 .. n, list'[i] = list'[j]
               PROVE  i = j
    BY <1>6 DEF ListedOnce
  <2>1. old(i) = old(j)
    BY <1>3, <1>7 DEF ListedOnce
  <2> QED BY <1>1, <1>2, <2>1
<1>11. \A i \in 1 .. Len(list') : list'[i] = IF i < at THEN list[i] ELSE list[i + 1]
  BY <1>6, <1>7
<1> QED BY <1>6, <1>8, <1>9, <1>10, <1>11

\* Each block of the list has one place, and its link leads to the next place.
LEMMA PlaceInList ==
    ASSUME ListTypes, ListedOnce, NEW i \in 1 .. Len(list)
    PROVE  list[i] \in Listed /\ IndexOf(list[i]) = i /\ After(list[i]) = BlockAt(i + 1)
<1>1. Len(list) \in Nat
  BY LenProperties DEF ListTypes
<1>2. list[i] \in Listed
  BY DEF Listed
<1>3. IndexOf(list[i]) = i
  BY <1>2, Links DEF ListTypes, ListedOnce
<1> QED BY <1>1, <1>2, <1>3 DEF After, BlockAt

\* The link that list_for_each_entry_safe has read stays right when its block is taken
\* off, and so does the link behind it.
LEMMA LinkOutlivesBlock ==
    ASSUME ListTypes, ListedOnce, NEW b \in Listed, list' = Unlink(b),
           NEW t, t = After(b), t # Head0
    PROVE  t \in Listed' /\ After(t)' = After(t)
<1> DEFINE at == IndexOf(b)
<1>1. Len(list) \in Nat /\ at \in 1 .. Len(list) /\ list[at] = b
  BY Links, LenProperties DEF ListTypes
<1>2. at + 1 \in 1 .. Len(list) /\ t = list[at + 1]
  BY <1>1 DEF After
<1>3. t \in Listed /\ IndexOf(t) = at + 1 /\ After(t) = BlockAt(at + 2)
  BY <1>1, <1>2, PlaceInList
<1>4. Len(list') = Len(list) - 1 /\ Listed' = Listed \ {b} /\ ListedOnce'
  BY TakeOffList
<1>5. at \in 1 .. Len(list') /\ list'[at] = t
  BY <1>1, <1>2, <1>4, TakeOffList
<1>6. t \in Listed'
  BY <1>5 DEF Listed
<1>7. IndexOf(t)' = at
  BY <1>4, <1>5 DEF IndexOf, ListedOnce
<1>8. CASE at + 1 < Len(list)
  <2>1. at + 1 \in 1 .. Len(list') /\ list'[at + 1] = list[at + 2]
    BY <1>1, <1>4, <1>8, TakeOffList
  <2> QED BY <1>1, <1>3, <1>4, <1>6, <1>7, <1>8, <2>1 DEF After, BlockAt
<1>9. CASE ~(at + 1 < Len(list))
  BY <1>1, <1>3, <1>4, <1>6, <1>7, <1>9 DEF After, BlockAt
<1> QED BY <1>6, <1>8, <1>9

\* Every step of a worker keeps the records of the workers.
LEMMA WorkStepTypes ==
    ASSUME WorkTypes, ListTypes, NEW k \in Workers, WorkStep(k)
    PROVE  WorkTypes' /\ \A j \in Workers \ {k} : work'[j] = work[j]
<1>1. ASSUME NEW b \in 0 .. BLOCKS
      PROVE  WalkFrom(b) \in WorkRecords
  <2>1. After(b) \in 0 .. BLOCKS
    BY Links, BoundsAssumption DEF ListTypes, Head0, Blocks
  <2> QED BY <1>1, <2>1 DEF WalkFrom, WorkRecords
<1>2. First \in 0 .. BLOCKS
  BY Links, BoundsAssumption DEF ListTypes, Head0, Blocks
<1>3. IdleWork \in WorkRecords
  BY BoundsAssumption DEF IdleWork, WorkRecords, Head0
<1>4. work[k] \in WorkRecords /\ work[k].tmp \in 0 .. BLOCKS
  BY DEF WorkTypes, WorkRecords
<1>5. \E r \in WorkRecords : work' = [work EXCEPT ![k] = r]
  <2>1. CASE WorkStarts(k)
    <3>1. [work[k] EXCEPT !.pc = "lock"] \in WorkRecords
      BY <1>4 DEF WorkRecords
    <3>2. work' = [work EXCEPT ![k] = [work[k] EXCEPT !.pc = "lock"]]
      BY <2>1, Zenon DEF WorkStarts
    <3> QED BY <3>1, <3>2
  <2>2. CASE WorkLock(k)
    BY <1>1, <1>2, <2>2 DEF WorkLock
  <2>3. CASE LookUp(k)
    <3>1. [work[k] EXCEPT !.pc = "delete"] \in WorkRecords
      BY <1>4 DEF WorkRecords
    <3>2. \/ work' = [work EXCEPT ![k] = [work[k] EXCEPT !.pc = "delete"]]
          \/ work' = [work EXCEPT ![k] = WalkFrom(work[k].tmp)]
      BY <2>3, Zenon DEF LookUp
    <3> QED BY <1>1, <1>4, <3>1, <3>2
  <2>4. CASE DeletePid(k)
    BY <1>1, <1>4, <2>4 DEF DeletePid
  <2>5. CASE WorkUnlock(k)
    BY <1>3, <2>5 DEF WorkUnlock
  <2> QED BY <2>1, <2>2, <2>3, <2>4, <2>5 DEF WorkStep
<1> QED BY <1>5 DEF WorkTypes

\* Adding, deleting and freeing keep the list and the pids of its blocks typed.
LEMMA ListStepTypes ==
    ASSUME ListTypes, CallTypes, ListedOnce,
           \/ \E c \in Callers : AddPid(c)
           \/ \E k \in Workers : DeletePid(k)
           \/ FreeList
    PROVE  ListTypes'
<1>1. \A b \in Blocks : pidOf[b] \in Pids \cup {NoOne}
  BY DEF ListTypes
<1>2. ASSUME NEW c \in Callers, AddPid(c)
      PROVE  ListTypes'
  <2>1. PICK b \in Blocks \ Listed : /\ pidOf' = [pidOf EXCEPT ![b] = call[c].pid]
                                     /\ list' = <<b>> \o list
    BY <1>2 DEF AddPid
  <2>2. call[c].pid \in Pids
    BY <1>2 DEF AddPid, InCall, CallTypes, CallShape
  <2>3. list' \in Seq(Blocks) /\ Listed' = Listed \cup {b}
    BY <2>1, AddToList
  <2> QED BY <2>1, <2>2, <2>3, Links DEF ListTypes
<1>3. ASSUME NEW k \in Workers, DeletePid(k)
      PROVE  ListTypes'
  <2> DEFINE b == work[k].cur
  <2>1. pidOf' = [pidOf EXCEPT ![b] = NoOne]
    BY <1>3 DEF DeletePid
  <2>2. list' \in Seq(Blocks) /\ Listed' = Listed \ {b}
    <3>1. CASE b \in Listed
      BY <1>3, <3>1, TakeOffList DEF DeletePid
    <3>2. CASE b \notin Listed
      <4>1. list' = list
        BY <1>3, <3>2 DEF DeletePid
      <4> QED BY <3>2, <4>1 DEF ListTypes, Listed
    <3> QED BY <3>1, <3>2
  <2> HIDE DEF b
  <2> QED BY <2>1, <2>2, Links DEF ListTypes
<1>4. CASE FreeList
  <2>1. list' = <<>> /\ pidOf' = [b \in Blocks |-> NoOne]
    BY <1>4 DEF FreeList
  <2>2. list' \in Seq(Blocks) /\ Listed' = {}
    BY <2>1, EmptySeq DEF Listed
  <2> QED BY <2>1, <2>2 DEF ListTypes
<1> QED BY <1>2, <1>3, <1>4

\* A step of a call leaves the heap alone, prints into its own buffer, writes past the end
\* of it, or frees it.
LEMMA HeapSteps ==
    ASSUME HeapTypes, CallTypes, NEW c \in Callers, CallStep(c)
    PROVE  \/ UNCHANGED <<free, buf>> /\ call'[c].buf = call[c].buf
           \/ /\ call[c].buf \in Bufs /\ free' = free
              /\ buf' = [buf EXCEPT ![call[c].buf] = Answer(c)]
              /\ call'[c].buf = call[c].buf
           \/ /\ free' = free /\ buf' \in [Bufs -> Contents] /\ spilled' = TRUE
              /\ call'[c].buf = call[c].buf
           \/ /\ call[c].buf \in Bufs
              /\ Kfree(call[c].buf)
              /\ (call'[c] = IdleCall \/ FreeEmpty(c))
<1> USE DEF callFrame, listVars, heap, InCall, ToCall
<1>0. /\ call[c].pc # "idle" => call[c].buf \in Bufs
      /\ call \in [Callers -> CallRecords]
  BY DEF CallTypes, CallShape
<1>00. /\ \A b : \A x \in Contents : PastEnd(b, x) \subseteq [Bufs -> Contents]
       /\ \A b : [buf EXCEPT ![b] = Garbled] \in [Bufs -> Contents]
       /\ Blank \in Contents /\ Garbled \in Contents /\ Answer(c) \in Contents
  <2>1. Blank \in Contents /\ Garbled \in Contents /\ Answer(c) \in Contents
    BY DEF Contents, Blank, Garbled, Answer
  <2>2. buf \in [Bufs -> Contents]
    BY DEF HeapTypes
  <2>3. \A b : \A x \in Contents : PastEnd(b, x) \subseteq [Bufs -> Contents]
    BY <2>2 DEF PastEnd
  <2>4. \A b : [buf EXCEPT ![b] = Garbled] \in [Bufs -> Contents]
    BY <2>1, <2>2
  <2> QED BY <2>1, <2>3, <2>4
<1>1. CASE \E p \in Pids : AcceptPid(c, p)
  BY <1>0, <1>1 DEF AcceptPid, CallRecords
<1>2. CASE RejectPid(c)
  BY <1>0, <1>2 DEF RejectPid, CallRecords, EndCall
<1>3. CASE WriteLock(c)
  BY <1>0, <1>3 DEF WriteLock, CallRecords
<1>4. CASE CheckPid(c)
  BY <1>0, <1>4 DEF CheckPid, CallRecords
<1>5. CASE AddPid(c)
  BY <1>0, <1>5 DEF AddPid, CallRecords
<1>6. CASE WriteUnlock(c)
  BY <1>0, <1>6 DEF WriteUnlock, CallRecords
<1>7. CASE ReadLock(c)
  BY <1>0, <1>7 DEF ReadLock, CallRecords
<1>8. CASE PrintInside(c) \/ PrintPast(c)
  <2>1. /\ call[c].buf \in Bufs /\ free' = free /\ call'[c].buf = call[c].buf
    BY <1>0, <1>8 DEF PrintInside, PrintPast, PrintPid, CallRecords
  <2>2. CASE PrintInside(c)
    BY <2>1, <2>2 DEF PrintInside
  <2>3. CASE PrintPast(c)
    <3>1. PICK after \in PastEnd(call[c].buf, Garbled) :
              buf' = [after EXCEPT ![call[c].buf] = Answer(c)]
      BY <2>3 DEF PrintPast
    <3>2. after \in [Bufs -> Contents]
      BY <1>00, <3>1
    <3> QED BY <1>00, <2>1, <2>3, <3>1, <3>2 DEF PrintPast
  <2> QED BY <1>8, <2>2, <2>3
<1>9. CASE ReadUnlock(c)
  BY <1>0, <1>9 DEF ReadUnlock, CallRecords
<1>10. CASE FreeEmpty(c)
  BY <1>0, <1>10 DEF FreeEmpty, CallRecords
<1>11. CASE PrintMessage(c)
  BY <1>0, <1>11 DEF PrintMessage, CallRecords
<1>12. CASE CopyOut(c)
  BY <1>0, <1>12 DEF CopyOut, CallRecords
<1>13. CASE EarlyWait(c)
  BY <1>0, <1>13 DEF EarlyWait, CallRecords, modFrame
<1>14. CASE EndWrite(c)
  <2>1. free' = free /\ spilled' = TRUE /\ call'[c].buf = call[c].buf
    BY <1>0, <1>14 DEF EndWrite, CallRecords
  <2>2. buf' \in [Bufs -> Contents]
    BY <1>00, <1>14 DEF EndWrite
  <2> QED BY <2>1, <2>2
<1>15. CASE EndReport(c)
  <2>1. free' = free /\ spilled' = TRUE /\ call'[c].buf = call[c].buf
    BY <1>0, <1>15 DEF EndReport, CallRecords
  <2>2. buf' \in [Bufs -> Contents]
    BY <1>00, <1>15 DEF EndReport
  <2> QED BY <2>1, <2>2
<1>16. CASE MemoryBreaks(c)
  BY <1>0, <1>16 DEF MemoryBreaks, CallRecords, modFrame
<1> QED BY <1>1, <1>2, <1>3, <1>4, <1>5, <1>6, <1>7, <1>8, <1>9, <1>10, <1>11, <1>12, <1>13, <1>14, <1>15, <1>16
        DEF CallStep, PrintInside, PrintPast

\* The lock, the timer, the work queue and the module's state keep their types.
LEMMA ModuleStepTypes ==
    ASSUME ModuleTypes, [Next]_vars
    PROVE  ModuleTypes'
<1> USE DEF ModuleTypes, ModSteps
<1>1. ASSUME NEW c \in Callers, CallStep(c)
      PROVE  ModuleTypes'
  <2>1. /\ lock' \in Callers \cup Workers \cup {NoOne, Rmmod}
        /\ emptied' \in BOOLEAN
    <3>1. CASE \E p \in Pids : AcceptPid(c, p)
      BY <3>1 DEF AcceptPid, Unlocked, callFrame, modFrame, listVars, heap, hist
    <3>2. CASE RejectPid(c)
      BY <3>2 DEF RejectPid, Unlocked, callFrame, modFrame, listVars, heap, hist
    <3>3. CASE WriteLock(c)
      BY <3>3 DEF WriteLock, Unlocked, callFrame, modFrame, listVars, heap, hist
    <3>4. CASE CheckPid(c)
      BY <3>4 DEF CheckPid, Unlocked, callFrame, modFrame, listVars, heap, hist
    <3>5. CASE AddPid(c)
      BY <3>5 DEF AddPid, Unlocked, callFrame, modFrame, listVars, heap, hist
    <3>6. CASE WriteUnlock(c)
      BY <3>6 DEF WriteUnlock, Unlocked, callFrame, modFrame, listVars, heap, hist
    <3>7. CASE ReadLock(c)
      BY <3>7 DEF ReadLock, Unlocked, callFrame, modFrame, listVars, heap, hist
    <3>8. CASE PrintPid(c)
      BY <3>8 DEF PrintPid, Unlocked, callFrame, modFrame, listVars, heap, hist
    <3>9. CASE ReadUnlock(c)
      BY <3>9 DEF ReadUnlock, Unlocked, callFrame, modFrame, listVars, heap, hist
    <3>10. CASE FreeEmpty(c)
      BY <3>10 DEF FreeEmpty, Unlocked, callFrame, modFrame, listVars, heap, hist
    <3>11. CASE PrintMessage(c)
      BY <3>11 DEF PrintMessage, Unlocked, callFrame, modFrame, listVars, heap, hist
    <3>12. CASE CopyOut(c)
      BY <3>12 DEF CopyOut, Unlocked, callFrame, modFrame, listVars, heap, hist
    <3>13. CASE EarlyWait(c)
      BY <3>13 DEF EarlyWait, Unlocked, callFrame, modFrame, listVars, heap, hist
    <3>14. CASE EndWrite(c) \/ EndReport(c)
      BY <3>14 DEF EndWrite, EndReport, listVars
    <3>15. CASE MemoryBreaks(c)
      BY <3>15 DEF MemoryBreaks, modFrame, hist
    <3> QED BY <1>1, <3>1, <3>2, <3>3, <3>4, <3>5, <3>6, <3>7, <3>8, <3>9, <3>10, <3>11, <3>12, <3>13, <3>14, <3>15
            DEF CallStep, PrintInside, PrintPast
  <2>2. spilled' \in BOOLEAN
    BY <1>1, CallFrame
  <2> QED BY <1>1, <2>1, <2>2, CallFrame
<1>2. ASSUME NEW k \in Workers, WorkStep(k)
      PROVE  ModuleTypes'
  <2>1. lock' \in Callers \cup Workers \cup {NoOne, Rmmod} /\ works' \in 0 .. MaxWork
    <3>1. CASE WorkStarts(k)
      BY <3>1, BoundsAssumption DEF WorkStarts, workFrame, listVars
    <3>2. CASE WorkLock(k)
      BY <3>2, BoundsAssumption DEF WorkLock, workFrame, listVars
    <3>3. CASE LookUp(k)
      BY <3>3, BoundsAssumption DEF LookUp, workFrame, listVars
    <3>4. CASE DeletePid(k)
      BY <3>4, BoundsAssumption DEF DeletePid, workFrame, listVars
    <3>5. CASE WorkUnlock(k)
      BY <3>5, BoundsAssumption DEF WorkUnlock, workFrame, listVars
    <3> QED BY <1>2, <3>1, <3>2, <3>3, <3>4, <3>5 DEF WorkStep
  <2> QED BY <1>2, <2>1, WorkFrame
<1>3. ASSUME TimerStep \/ RemoveFile \/ ModuleStep
      PROVE  ModuleTypes'
  <2> USE BoundsAssumption DEF modFrame, hist, modVars, listVars, ToModule, InModule
  <2>1. CASE TimerExpires
    BY <2>1 DEF TimerExpires
  <2>2. CASE TimerHandles
    BY <2>2 DEF TimerHandles, Rearmed
  <2>3. CASE TimerMissesQueue
    BY <2>3 DEF TimerMissesQueue
  <2>4. CASE RemoveFile
    BY <2>4 DEF RemoveFile
  <2>5. CASE CreateFile
    BY <2>5 DEF CreateFile
  <2>6. CASE ArmTimer
    BY <2>6 DEF ArmTimer
  <2>7. CASE MutexInit
    BY <2>7 DEF MutexInit
  <2>8. CASE FileRemoved
    BY <2>8 DEF FileRemoved
  <2>9. CASE DelTimer
    BY <2>9 DEF DelTimer, TimerAfterDel
  <2>10. CASE DestroyQueue
    BY <2>10 DEF DestroyQueue
  <2>11. CASE QueueDrained
    BY <2>11 DEF QueueDrained
  <2>12. CASE ExitLock
    BY <2>12 DEF ExitLock
  <2>13. CASE FreeList
    BY <2>13 DEF FreeList
  <2> QED BY <1>3, <2>1, <2>2, <2>3, <2>4, <2>5, <2>6, <2>7, <2>8, <2>9, <2>10, <2>11, <2>12, <2>13 DEF TimerStep, ModuleStep
<1>4. ASSUME UNCHANGED <<lock, timer, works, wq, mod, oops, raced, emptied, spilled>>
      PROVE  ModuleTypes'
  BY <1>4
<1> HIDE DEF ModuleTypes
<1> QED BY <1>1, <1>2, <1>3, <1>4
        DEF Next, vars, ProcessEnds, ProcessStarts, BeginWrite, BeginRead, callFrame, listVars, modVars, hist

\* A step of the kernel is one of a process, a call, a worker, the timer or the module.
LEMMA StepCases ==
    ASSUME [Next]_vars
    PROVE  \/ \E p \in Pids : ProcessEnds(p) \/ ProcessStarts(p)
           \/ \E c \in Callers : Begin(c) \/ CallStep(c)
           \/ \E k \in Workers : WorkStep(k)
           \/ TimerStep \/ RemoveFile \/ ModuleStep
           \/ UNCHANGED vars
BY Zenon DEF Next, Begin

\* Every step keeps the types.
LEMMA TypesKept ==
    ASSUME Types, ListedOnce, [Next]_vars
    PROVE  Types'
<1>1. ModuleTypes'
  BY ModuleStepTypes DEF Types
<1>2. ASSUME NEW p \in Pids, ProcessEnds(p) \/ ProcessStarts(p)
      PROVE  Types'
  <2>1. UNCHANGED <<list, pidOf, free, buf, call, work>>
    BY <1>2 DEF ProcessEnds, ProcessStarts, listVars, heap
  <2>2. CallTypes' /\ WorkTypes' /\ ListTypes' /\ HeapTypes'
    BY <2>1 DEF Types, CallTypes, WorkTypes, ListTypes, Listed, HeapTypes
  <2>3. ProcessTypes'
    BY <1>2 DEF ProcessEnds, ProcessStarts, hist, Types, ProcessTypes
  <2> QED BY <1>1, <2>2, <2>3 DEF Types
<1>3. ASSUME NEW c \in Callers, Begin(c)
      PROVE  Types'
  <2>1. CallTypes' /\ HeapTypes'
    BY <1>3, BeginTypes DEF Types
  <2>2. UNCHANGED <<callFrame, listVars>>
    BY <1>3, BeginSteps
  <2> QED BY <1>1, <2>1, <2>2 DEF callFrame, listVars, hist, Types, WorkTypes, ListTypes, Listed, ProcessTypes
<1>4. ASSUME NEW c \in Callers, CallStep(c)
      PROVE  Types'
  <2>1. CallTypes' /\ WorkTypes'
    BY <1>4, CallStepTypes, CallFrame DEF Types, WorkTypes
  <2>2. ListTypes' /\ ProcessTypes'
    <3>1. CASE AddPid(c)
      BY <1>4, <3>1, ListStepTypes, CallFrame DEF Types, ProcessTypes, AddPid
    <3>2. CASE ~AddPid(c)
      BY <1>4, <3>2, CallFrame DEF Types, ProcessTypes, ListTypes, Listed
    <3> QED BY <3>1, <3>2
  <2>3. HeapTypes'
    <3>1. CASE UNCHANGED <<free, buf>>
      BY <3>1 DEF Types, HeapTypes
    <3>2. CASE free' = free /\ buf' = [buf EXCEPT ![call[c].buf] = Answer(c)]
      BY <3>2 DEF Types, HeapTypes, Contents, Answer
    <3>3. CASE call[c].buf \in Bufs /\ Kfree(call[c].buf)
      BY <3>3 DEF Types, HeapTypes, Kfree, Contents, Blank
    <3>4. CASE free' = free /\ buf' \in [Bufs -> Contents]
      BY <3>4 DEF Types, HeapTypes
    <3> QED BY <1>4, <3>1, <3>2, <3>3, <3>4, HeapSteps DEF Types
  <2> QED BY <1>1, <2>1, <2>2, <2>3 DEF Types
<1>5. ASSUME NEW k \in Workers, WorkStep(k)
      PROVE  Types'
  <2>1. WorkTypes'
    BY <1>5, WorkStepTypes DEF Types
  <2>2. ListTypes'
    <3>1. CASE DeletePid(k)
      BY <3>1, ListStepTypes DEF Types
    <3>2. CASE ~DeletePid(k)
      BY <1>5, <3>2, WorkFrame DEF Types, ListTypes, Listed
    <3> QED BY <3>1, <3>2
  <2> QED BY <1>1, <1>5, <2>1, <2>2, WorkFrame DEF Types, CallTypes, HeapTypes, ProcessTypes
<1>6. ASSUME TimerStep \/ RemoveFile \/ ModuleStep
      PROVE  Types'
  <2>1. ListTypes' /\ ProcessTypes'
    <3>1. CASE FreeList
      BY <1>6, <3>1, ListStepTypes, ModuleFrame DEF Types, ProcessTypes, FreeList
    <3>2. CASE ~FreeList
      BY <1>6, <3>2, ModuleFrame DEF Types, ListTypes, Listed, ProcessTypes
    <3> QED BY <3>1, <3>2
  <2> QED BY <1>1, <1>6, <2>1, ModuleFrame DEF Types, CallTypes, WorkTypes, HeapTypes
<1>7. CASE UNCHANGED vars
  BY <1>1, <1>7 DEF vars, listVars, heap, hist, Types, CallTypes, WorkTypes, ListTypes, Listed, HeapTypes,
     ProcessTypes
<1> QED BY <1>2, <1>3, <1>4, <1>5, <1>6, <1>7, StepCases
-----------------------------------------------------------------------------
\* A call comes to a locked place with a lock that was free, and leaves it with an unlock.
LEMMA CallLocks ==
    ASSUME CallTypes, NEW c \in Callers, CallStep(c), oops' = "no"
    PROVE  \/ lock' = lock /\ (call'[c].pc \in CallLocked => call[c].pc \in CallLocked)
           \/ lock = NoOne /\ lock' = c
           \/ call[c].pc \in CallLocked /\ lock' = NoOne /\ call'[c].pc \notin CallLocked
<1> USE DEF callFrame, listVars, InCall, ToCall, CallLocked
<1>0. call \in [Callers -> CallRecords]
  BY DEF CallTypes
<1>1. CASE \E p \in Pids : AcceptPid(c, p)
  BY <1>0, <1>1 DEF AcceptPid, CallRecords
<1>2. CASE RejectPid(c)
  BY <1>0, <1>2 DEF RejectPid, CallRecords, EndCall, IdleCall
<1>3. CASE WriteLock(c)
  BY <1>0, <1>3 DEF WriteLock, CallRecords, CanLock
<1>4. CASE CheckPid(c)
  BY <1>0, <1>4 DEF CheckPid, CallRecords
<1>5. CASE AddPid(c)
  BY <1>0, <1>5 DEF AddPid, CallRecords
<1>6. CASE WriteUnlock(c)
  BY <1>0, <1>6 DEF WriteUnlock, CallRecords, Unlocked, IdleCall
<1>7. CASE ReadLock(c)
  BY <1>0, <1>7 DEF ReadLock, CallRecords, CanLock
<1>8. CASE PrintPid(c)
  BY <1>0, <1>8 DEF PrintPid, CallRecords
<1>9. CASE ReadUnlock(c)
  BY <1>0, <1>9 DEF ReadUnlock, CallRecords
<1>10. CASE FreeEmpty(c)
  BY <1>0, <1>10 DEF FreeEmpty, CallRecords
<1>11. CASE PrintMessage(c)
  BY <1>0, <1>11 DEF PrintMessage, CallRecords
<1>12. CASE CopyOut(c)
  BY <1>0, <1>12 DEF CopyOut, CallRecords, IdleCall
<1>13. CASE EarlyWait(c)
  BY <1>0, <1>13 DEF EarlyWait, CallRecords
<1>14. CASE EndWrite(c)
  BY <1>0, <1>14 DEF EndWrite, CallRecords
<1>15. CASE EndReport(c)
  BY <1>0, <1>15 DEF EndReport, CallRecords
<1>16. CASE MemoryBreaks(c)
  BY <1>0, <1>16 DEF MemoryBreaks, CallRecords
<1> QED BY <1>1, <1>2, <1>3, <1>4, <1>5, <1>6, <1>7, <1>8, <1>9, <1>10, <1>11, <1>12, <1>13, <1>14, <1>15, <1>16
        DEF CallStep, PrintInside, PrintPast

\* So does a worker.
LEMMA WorkLocks ==
    ASSUME WorkTypes, NEW k \in Workers, WorkStep(k)
    PROVE  \/ lock' = lock /\ (work'[k].pc \in WorkLocked => work[k].pc \in WorkLocked)
           \/ lock = NoOne /\ lock' = k
           \/ work[k].pc \in WorkLocked /\ lock' = NoOne /\ work'[k].pc \notin WorkLocked
<1> USE DEF workFrame, listVars, InWork, WorkLocked
<1>0. work \in [Workers -> WorkRecords]
  BY DEF WorkTypes
<1>1. CASE WorkStarts(k)
  BY <1>0, <1>1 DEF WorkStarts, WorkRecords
<1>2. CASE WorkLock(k)
  BY <1>0, <1>2 DEF WorkLock, WorkRecords, CanLock, WalkFrom
<1>3. CASE LookUp(k)
  BY <1>0, <1>3 DEF LookUp, WorkRecords
<1>4. CASE DeletePid(k)
  BY <1>0, <1>4 DEF DeletePid, WorkRecords
<1>5. CASE WorkUnlock(k)
  BY <1>0, <1>5 DEF WorkUnlock, WorkRecords, IdleWork
<1> QED BY <1>1, <1>2, <1>3, <1>4, <1>5 DEF WorkStep

\* And so does kmlab_exit; kmlab_init initializes a mutex nobody holds, or the model ends.
LEMMA ModuleLocks ==
    ASSUME TimerStep \/ RemoveFile \/ ModuleStep, oops' = "no"
    PROVE  \/ lock' = lock /\ (mod' = "freeing" => mod = "freeing")
           \/ lock = NoOne /\ lock' = Rmmod
           \/ mod = "freeing" /\ lock' = NoOne /\ mod' # "freeing"
<1> USE DEF modFrame, modVars, listVars, ToModule, InModule, CanLock
<1>1. CASE TimerExpires
  BY <1>1 DEF TimerExpires
<1>2. CASE TimerHandles
  BY <1>2 DEF TimerHandles
<1>3. CASE TimerMissesQueue
  BY <1>3 DEF TimerMissesQueue
<1>4. CASE RemoveFile
  BY <1>4 DEF RemoveFile
<1>5. CASE CreateFile
  BY <1>5 DEF CreateFile
<1>6. CASE ArmTimer
  BY <1>6 DEF ArmTimer
<1>7. CASE MutexInit
  BY <1>7 DEF MutexInit
<1>8. CASE FileRemoved
  BY <1>8 DEF FileRemoved
<1>9. CASE DelTimer
  BY <1>9 DEF DelTimer
<1>10. CASE DestroyQueue
  BY <1>10 DEF DestroyQueue
<1>11. CASE QueueDrained
  BY <1>11 DEF QueueDrained
<1>12. CASE ExitLock
  BY <1>12 DEF ExitLock
<1>13. CASE FreeList
  BY <1>13 DEF FreeList
<1> QED BY <1>1, <1>2, <1>3, <1>4, <1>5, <1>6, <1>7, <1>8, <1>9, <1>10, <1>11, <1>12, <1>13 DEF TimerStep, ModuleStep

\* One context at a time is between prime_lock and prime_unlock.
LEMMA LockKept ==
    ASSUME Types, LockInv, [Next]_vars
    PROVE  LockInv'
<1> SUFFICES ASSUME oops' = "no"
             PROVE  LockInv'
  BY DEF LockInv
<1> USE ContextsAssumption
<1>1. ASSUME NEW p \in Pids, ProcessEnds(p) \/ ProcessStarts(p)
      PROVE  LockInv'
  BY <1>1 DEF ProcessEnds, ProcessStarts, listVars, modVars, LockInv
<1>2. ASSUME NEW c \in Callers, Begin(c)
      PROVE  LockInv'
  <2>1. call'[c].pc \notin CallLocked /\ \A d \in Callers \ {c} : call'[d] = call[d]
    BY <1>2, BeginTypes DEF Types, CallLocked
  <2>2. UNCHANGED <<lock, work, mod, oops>>
    BY <1>2, BeginSteps DEF callFrame, listVars, modVars
  <2> QED BY <2>1, <2>2 DEF LockInv
<1>3. ASSUME NEW c \in Callers, CallStep(c)
      PROVE  LockInv'
  <2>1. \A d \in Callers \ {c} : call'[d] = call[d]
    BY <1>3, CallStepTypes DEF Types
  <2>2. UNCHANGED <<work, mod>> /\ oops = "no"
    BY <1>3, CallFrame
  <2> QED BY <1>3, <2>1, <2>2, CallLocks DEF LockInv, Types
<1>4. ASSUME NEW k \in Workers, WorkStep(k)
      PROVE  LockInv'
  <2>1. \A j \in Workers \ {k} : work'[j] = work[j]
    BY <1>4, WorkStepTypes DEF Types
  <2>2. UNCHANGED <<call, mod>> /\ oops = "no"
    BY <1>4, WorkFrame
  <2> QED BY <1>4, <2>1, <2>2, WorkLocks DEF LockInv, Types
<1>5. ASSUME TimerStep \/ RemoveFile \/ ModuleStep
      PROVE  LockInv'
  <2>1. UNCHANGED <<call, work>> /\ oops = "no"
    BY <1>5, ModuleFrame
  <2> QED BY <1>5, <2>1, ModuleLocks DEF LockInv
<1>6. CASE UNCHANGED vars
  BY <1>6 DEF vars, listVars, modVars, LockInv
<1> QED BY <1>1, <1>2, <1>3, <1>4, <1>5, <1>6, StepCases
-----------------------------------------------------------------------------
\* Whoever is at a locked place is alone there.
LEMMA CallAlone ==
    ASSUME LockInv, oops = "no", NEW c \in Callers, call[c].pc \in CallLocked
    PROVE  /\ \A d \in Callers \ {c} : call[d].pc \notin CallLocked
           /\ \A k \in Workers : work[k].pc \notin WorkLocked
BY ContextsAssumption DEF LockInv

\* The same of a worker.
LEMMA WorkAlone ==
    ASSUME LockInv, oops = "no", NEW k \in Workers, work[k].pc \in WorkLocked
    PROVE  /\ \A c \in Callers : call[c].pc \notin CallLocked
           /\ \A j \in Workers \ {k} : work[j].pc \notin WorkLocked
BY ContextsAssumption DEF LockInv

\* And of kmlab_exit while it frees the list.
LEMMA ExitAlone ==
    ASSUME LockInv, oops = "no", mod = "freeing"
    PROVE  /\ \A c \in Callers : call[c].pc \notin CallLocked
           /\ \A k \in Workers : work[k].pc \notin WorkLocked
BY ContextsAssumption DEF LockInv

\* list_add of a pid that the walk before did not find.
LEMMA AddKeepsList ==
    ASSUME Types, LockInv, ListInv, NEW c \in Callers, AddPid(c)
    PROVE  /\ ListInv'
           /\ ListedPids' = ListedPids \cup {call[c].pid}
<1>1. PICK b \in Blocks \ Listed : /\ pidOf' = [pidOf EXCEPT ![b] = call[c].pid]
                                   /\ list' = <<b>> \o list
  BY DEF AddPid
<1>2. /\ oops = "no" /\ call[c].pc = "add" /\ call' = [call EXCEPT ![c].pc = "wunlock"]
      /\ work' = work
  BY DEF AddPid, InCall, ToCall
<1>3. call'[c].pc = "wunlock" /\ \A d \in Callers \ {c} : call'[d] = call[d]
  BY <1>2 DEF Types, CallTypes, CallRecords
<1>4. /\ \A d \in Callers \ {c} : call[d].pc \notin CallLocked
      /\ \A k \in Workers : work[k].pc \notin WorkLocked
  BY <1>2, CallAlone DEF CallLocked
<1>5. call[c].pid \notin ListedPids
  BY <1>2 DEF ListInv, NewPidIsNew
<1>6. Len(list) \in Nat /\ Listed \subseteq Blocks
  BY Links, LenProperties DEF Types, ListTypes
<1>7. /\ Len(list') = Len(list) + 1 /\ list'[1] = b
      /\ \A i \in 1 .. Len(list) : list'[i + 1] = list[i]
      /\ Listed' = Listed \cup {b}
  BY <1>1, AddToList DEF Types
<1>8. \A i \in 1 .. Len(list') : i = 1 \/ (i - 1 \in 1 .. Len(list) /\ list'[i] = list[i - 1])
  BY <1>6, <1>7
<1>9. \A i \in 1 .. Len(list) : list[i] \in Listed /\ list[i] # b
  BY <1>1 DEF Listed
<1>10. pidOf'[b] = call[c].pid /\ \A x \in Listed : pidOf'[x] = pidOf[x]
  BY <1>1, <1>6 DEF Types, ListTypes
<1>11. \A x \in Listed : pidOf[x] # call[c].pid
  BY <1>5 DEF ListedPids
<1>12. ListedOnce'
  <2> SUFFICES ASSUME NEW i \in 1 .. Len(list'), NEW j \in 1 .. Len(list'), list'[i] = list'[j]
               PROVE  i = j
    BY DEF ListedOnce
  <2>1. CASE i = 1 \/ j = 1
    BY <1>7, <1>8, <1>9, <2>1
  <2>2. CASE i - 1 \in 1 .. Len(list) /\ j - 1 \in 1 .. Len(list)
    <3>1. list[i - 1] = list[j - 1]
      BY <1>6, <1>7, <2>2
    <3> QED BY <1>6, <2>2, <3>1 DEF ListInv, ListedOnce
  <2> QED BY <1>8, <2>1, <2>2
<1>13. NoPidTwice'
  <2> SUFFICES ASSUME NEW i \in 1 .. Len(list'), NEW j \in 1 .. Len(list'),
                      pidOf'[list'[i]] = pidOf'[list'[j]]
               PROVE  i = j
    BY DEF NoPidTwice
  <2>1. \A m \in 1 .. Len(list) : pidOf'[list[m]] = pidOf[list[m]] /\ pidOf[list[m]] # pidOf'[b]
    BY <1>9, <1>10, <1>11
  <2>2. CASE i = 1 \/ j = 1
    BY <1>7, <1>8, <2>1, <2>2
  <2>3. CASE i - 1 \in 1 .. Len(list) /\ j - 1 \in 1 .. Len(list)
    <3>1. list'[i] = list[i - 1] /\ list'[j] = list[j - 1]
      BY <1>6, <1>7, <2>3
    <3>2. pidOf[list[i - 1]] = pidOf[list[j - 1]]
      BY <2>1, <2>3, <3>1
    <3> QED BY <1>6, <2>3, <3>2 DEF ListInv, NoPidTwice
  <2> QED BY <1>8, <2>2, <2>3
<1>14. NewPidIsNew' /\ WalkingCalls'
  BY <1>3, <1>4 DEF NewPidIsNew, WalkingCalls, CallLocked
<1>15. WalkingWork'
  BY <1>2, <1>4 DEF WalkingWork, WorkLocked
<1>16. ListedPids' = ListedPids \cup {call[c].pid}
  BY <1>7, <1>10 DEF ListedPids
<1> QED BY <1>12, <1>13, <1>14, <1>15, <1>16 DEF ListInv

\* list_del of the block the work handler is on, whose link it has read before.
LEMMA DeleteKeepsList ==
    ASSUME Types, LockInv, ListInv, NEW k \in Workers, DeletePid(k)
    PROVE  /\ ListInv'
           /\ ListedPids \subseteq ListedPids' \cup {pidOf[work[k].cur]}
           /\ work'[k].pc # "delete" /\ \A j \in Workers \ {k} : work[j].pc \notin WorkLocked
<1> DEFINE b == work[k].cur
           t == work[k].tmp
<1>1. /\ oops = "no" /\ work[k].pc = "delete" /\ call' = call
      /\ pidOf' = [pidOf EXCEPT ![b] = NoOne]
      /\ work' = [work EXCEPT ![k] = WalkFrom(t)]
      /\ list' = IF b \in Listed THEN Unlink(b) ELSE list
  BY DEF DeletePid, InWork, workFrame
<1>2. /\ \A c \in Callers : call[c].pc \notin CallLocked
      /\ \A j \in Workers \ {k} : work[j].pc \notin WorkLocked
  BY <1>1, WorkAlone DEF WorkLocked
<1>3. b \in Listed /\ t = After(b)
  BY <1>1 DEF ListInv, WalkingWork
<1> HIDE DEF b, t
<1>4. list' = Unlink(b)
  BY <1>1, <1>3
<1>5. PICK x \in Listed : x = b
  BY <1>3
<1>6. PICK y \in Listed \cup {Head0} : y = t
  BY <1>3, Links DEF Types, ListTypes
<1>7. /\ Len(list') = Len(list) - 1 /\ Listed' = Listed \ {x} /\ ListedOnce'
      /\ \A i \in 1 .. Len(list') : list'[i] = IF i < IndexOf(x) THEN list[i] ELSE list[i + 1]
  BY <1>4, <1>5, TakeOffList DEF Types, ListInv
<1>8. /\ \A z \in Listed' : pidOf'[z] = pidOf[z] /\ z \in Listed
      /\ Listed \subseteq Listed' \cup {x} /\ Listed \subseteq Blocks
  BY <1>1, <1>5, <1>7, Links DEF Types, ListTypes
<1>9. Len(list) \in Nat /\ IndexOf(x) \in 1 .. Len(list)
  BY Links, LenProperties DEF Types, ListTypes
<1>10. NoPidTwice'
  <2> SUFFICES ASSUME NEW i \in 1 .. Len(list'), NEW j \in 1 .. Len(list'),
                      pidOf'[list'[i]] = pidOf'[list'[j]]
               PROVE  i = j
    BY DEF NoPidTwice
  <2> DEFINE old(n) == IF n < IndexOf(x) THEN n ELSE n + 1
  <2>1. \A n \in 1 .. Len(list') : old(n) \in 1 .. Len(list) /\ list'[n] = list[old(n)]
    BY <1>7, <1>9
  <2>2. \A n \in 1 .. Len(list') : list'[n] \in Listed'
    BY DEF Listed
  <2>3. pidOf[list'[i]] = pidOf[list'[j]]
    BY <1>8, <2>2
  <2> HIDE DEF old
  <2>4. old(i) = old(j)
    BY <2>1, <2>3 DEF ListInv, NoPidTwice
  <2> QED BY <1>9, <2>4 DEF old
<1>11. NewPidIsNew' /\ WalkingCalls'
  BY <1>1, <1>2 DEF NewPidIsNew, WalkingCalls, CallLocked
<1>12. work'[k] = WalkFrom(y) /\ \A j \in Workers \ {k} : work'[j] = work[j]
  BY <1>1, <1>6 DEF Types, WorkTypes
<1>13. ASSUME y # Head0
       PROVE  y \in Listed' /\ After(y)' = After(y)
  BY <1>3, <1>4, <1>5, <1>6, <1>13, LinkOutlivesBlock DEF Types, ListInv
<1>14. /\ work'[k].cur = y /\ work'[k].tmp = After(y) /\ work'[k].pc # "delete"
       /\ work'[k].pc = "walk" => y # Head0
  BY <1>12 DEF WalkFrom
<1>15. WalkingWork'
  <2> SUFFICES ASSUME NEW j \in Workers, work'[j].pc \in {"walk", "delete"}
               PROVE  (work[j].cur \in Listed /\ work[j].tmp = After(work[j].cur))'
    BY DEF WalkingWork
  <2>1. j = k
    BY <1>2, <1>12 DEF WorkLocked
  <2>2. work'[j].cur = y /\ y \in Listed' /\ work'[j].tmp = After(y)'
    BY <1>13, <1>14, <2>1
  <2> QED BY <2>2 DEF After, IndexOf, Listed
<1>16. ListedPids \subseteq ListedPids' \cup {pidOf[b]}
  BY <1>5, <1>8 DEF ListedPids
<1> QED BY <1>2, <1>7, <1>10, <1>11, <1>14, <1>15, <1>16 DEF ListInv, b

\* __kmlab_exit empties the list when nobody walks it.
LEMMA FreeKeepsList ==
    ASSUME LockInv, FreeList
    PROVE  ListInv'
<1>1. /\ oops = "no" /\ mod = "freeing" /\ call' = call /\ work' = work /\ list' = <<>>
  BY DEF FreeList, ToModule, InModule
<1>2. /\ \A c \in Callers : call[c].pc \notin CallLocked
      /\ \A k \in Workers : work[k].pc \notin WorkLocked
  BY <1>1, ExitAlone
<1>3. Len(list') = 0
  BY <1>1
<1>4. ListedOnce' /\ NoPidTwice'
  BY <1>3 DEF ListedOnce, NoPidTwice
<1> QED BY <1>1, <1>2, <1>4 DEF ListInv, NewPidIsNew, WalkingCalls, WalkingWork, CallLocked, WorkLocked

\* The invariants that are about the list alone only change with the list.
LEMMA SameList ==
    ASSUME UNCHANGED <<list, pidOf>>
    PROVE  /\ ListedOnce' = ListedOnce /\ NoPidTwice' = NoPidTwice
           /\ Listed' = Listed /\ ListedPids' = ListedPids /\ First' = First
           /\ \A b : After(b)' = After(b) /\ BlockAt(b)' = BlockAt(b)
BY DEF ListedOnce, NoPidTwice, Listed, ListedPids, First, After, IndexOf, BlockAt

\* What a walk has passed, and that the pid to be added is new, is kept by every step of
\* a call that does not change the list.
LEMMA CallKeepsWalks ==
    ASSUME Types, ListInv, NEW c \in Callers, CallStep(c), ~AddPid(c)
    PROVE  NewPidIsNew' /\ WalkingCalls'
<1>1. UNCHANGED <<list, pidOf>>
  BY CallFrame
<1>2. \A d \in Callers \ {c} : call'[d] = call[d]
  BY CallStepTypes DEF Types
<1>3. call \in [Callers -> CallRecords] /\ CallShape(call[c]) /\ Len(call[c].seen) \in Nat
  <2>1. call \in [Callers -> CallRecords] /\ CallShape(call[c])
    BY DEF Types, CallTypes
  <2>2. call[c].seen \in Seq(Pids \cup {NoOne})
    BY <2>1 DEF CallRecords
  <2> QED BY <2>1, <2>2, LenProperties
<1>4. list \in Seq(Blocks) /\ Len(list) \in Nat /\ \A i \in 1 .. Len(list) : list[i] \in Blocks /\ list[i] # Head0
  BY LenProperties, ElementOfSeq, BoundsAssumption DEF Types, ListTypes, Blocks, Head0
<1> DEFINE OK == /\ call'[c].pc = "add" => call'[c].pid \notin ListedPids
                 /\ call'[c].pc = "walk" =>
                       /\ Len(call'[c].seen) <= Len(list)
                       /\ call'[c].cur = BlockAt(Len(call'[c].seen) + 1)
                       /\ \A i \in 1 .. Len(call'[c].seen) : call'[c].seen[i] = pidOf[list[i]]
<1>5. ASSUME CheckPid(c)
      PROVE  OK
  <2>1. call'[c] = [call[c] EXCEPT !.pc = IF call[c].pid \in ListedPids THEN "wunlock" ELSE "add"]
    BY <1>3, <1>5 DEF CheckPid, ToCall
  <2>2. /\ call'[c].pid = call[c].pid
        /\ call'[c].pc = IF call[c].pid \in ListedPids THEN "wunlock" ELSE "add"
    BY <1>3, <2>1 DEF CallRecords
  <2> QED BY <2>2
<1>6. ASSUME ReadLock(c)
      PROVE  OK
  <2>1. call'[c].cur = First /\ call'[c].seen = <<>> /\ call'[c].pc = "walk"
    BY <1>3, <1>6 DEF ReadLock, CallRecords, CallShape, InCall
  <2>2. First = BlockAt(1) /\ Len(<<>>) = 0
    BY <1>4, EmptySeq DEF First, BlockAt
  <2> QED BY <1>4, <2>1, <2>2
<1>7. ASSUME PrintPid(c)
      PROVE  OK
  <2> DEFINE n == Len(call[c].seen)
             b == call[c].cur
  <2>1. /\ call[c].pc = "walk" /\ b # Head0
        /\ call' = [call EXCEPT ![c].seen = Append(call[c].seen, pidOf[b]), ![c].cur = After(b)]
    BY <1>7 DEF PrintPid, InCall
  <2>2. /\ n <= Len(list) /\ b = BlockAt(n + 1)
        /\ \A i \in 1 .. n : call[c].seen[i] = pidOf[list[i]]
    BY <2>1 DEF ListInv, WalkingCalls
  <2>3. n + 1 \in 1 .. Len(list) /\ b = list[n + 1]
    BY <1>3, <1>4, <2>1, <2>2 DEF BlockAt
  <2>4. After(b) = BlockAt(n + 2)
    BY <1>3, <2>3, PlaceInList DEF Types, ListInv
  <2> DEFINE longer == Append(call[c].seen, pidOf[b])
  <2>5. /\ Len(longer) = n + 1 /\ longer[n + 1] = pidOf[b]
        /\ \A i \in 1 .. n : longer[i] = call[c].seen[i]
    <3>1. call[c].seen \in Seq(Pids \cup {NoOne}) /\ pidOf[b] \in Pids \cup {NoOne}
      BY <1>3, <1>4, <2>3 DEF CallRecords, Types, ListTypes
    <3> QED BY <3>1, AppendProperties
  <2>6. call'[c].seen = longer /\ call'[c].cur = After(b) /\ call'[c].pc = "walk"
    BY <1>3, <2>1 DEF CallRecords
  <2> HIDE DEF longer, n, b
  <2>7. n \in Nat
    BY <1>3 DEF n
  <2>8. \A i \in 1 .. n + 1 : longer[i] = pidOf[list[i]]
    BY <2>2, <2>3, <2>5, <2>7 DEF n
  <2>9. (n + 1) + 1 = n + 2 /\ n + 1 <= Len(list)
    BY <1>4, <2>3, <2>7
  <2> QED BY <2>4, <2>5, <2>6, <2>8, <2>9
<1>8. ASSUME ~CheckPid(c), ~ReadLock(c), ~PrintPid(c)
      PROVE  OK
  <2>1. call'[c] = call[c] \/ call'[c].pc \notin {"add", "walk"}
    <3> USE <1>3 DEF CallRecords, InCall, ToCall
    <3>1. CASE \E p \in Pids : AcceptPid(c, p)
      BY <3>1 DEF AcceptPid
    <3>2. CASE RejectPid(c)
      BY <3>2 DEF RejectPid, EndCall, IdleCall
    <3>3. CASE WriteLock(c)
      BY <3>3 DEF WriteLock
    <3>4. CASE WriteUnlock(c)
      BY <3>4 DEF WriteUnlock, IdleCall
    <3>5. CASE ReadUnlock(c)
      BY <3>5 DEF ReadUnlock
    <3>6. CASE FreeEmpty(c)
      BY <3>6 DEF FreeEmpty
    <3>7. CASE PrintMessage(c)
      BY <3>7 DEF PrintMessage
    <3>8. CASE CopyOut(c)
      BY <3>8 DEF CopyOut, IdleCall
    <3>9. CASE EarlyWait(c) \/ MemoryBreaks(c)
      BY <3>9 DEF EarlyWait, MemoryBreaks, modFrame
    <3>10. CASE EndWrite(c)
      BY <3>10 DEF EndWrite
    <3>11. CASE EndReport(c)
      BY <3>11 DEF EndReport
    <3> QED BY <1>8, <3>1, <3>2, <3>3, <3>4, <3>5, <3>6, <3>7, <3>8, <3>9, <3>10, <3>11
            DEF CallStep, PrintInside, PrintPast
  <2> QED BY <2>1 DEF ListInv, NewPidIsNew, WalkingCalls
<1>9. OK
  BY <1>5, <1>6, <1>7, <1>8
<1> HIDE DEF OK
<1>10. NewPidIsNew'
  <2> SUFFICES ASSUME NEW d \in Callers, call'[d].pc = "add"
               PROVE  call'[d].pid \notin ListedPids'
    BY DEF NewPidIsNew
  <2> QED BY <1>1, <1>2, <1>9, SameList DEF OK, ListInv, NewPidIsNew
<1>11. WalkingCalls'
  <2> SUFFICES ASSUME NEW d \in Callers, call'[d].pc = "walk"
               PROVE  /\ Len(call'[d].seen) <= Len(list')
                      /\ call'[d].cur = BlockAt(Len(call[d].seen) + 1)'
                      /\ \A i \in 1 .. Len(call'[d].seen) : call'[d].seen[i] = pidOf'[list'[i]]
    BY DEF WalkingCalls
  <2> QED BY <1>1, <1>2, <1>9 DEF OK, ListInv, WalkingCalls, BlockAt
<1> QED BY <1>10, <1>11

\* The steps of a worker that only read the list keep it on a listed block.
LEMMA WorkKeepsWalks ==
    ASSUME Types, ListInv, NEW k \in Workers, WorkStep(k), ~DeletePid(k)
    PROVE  WalkingWork'
<1>1. UNCHANGED <<list, pidOf>>
  BY WorkFrame
<1>2. \A j \in Workers \ {k} : work'[j] = work[j]
  BY WorkStepTypes DEF Types
<1>3. work \in [Workers -> WorkRecords]
  BY DEF Types, WorkTypes
<1>4. ASSUME NEW b \in Listed \cup {Head0}, work'[k] = WalkFrom(b), work'[k].pc \in {"walk", "delete"}
      PROVE  work'[k].cur \in Listed /\ work'[k].tmp = After(work'[k].cur)
  BY <1>4 DEF WalkFrom
<1>5. work'[k].pc \in {"walk", "delete"} =>
          work'[k].cur \in Listed /\ work'[k].tmp = After(work'[k].cur)
  <2>1. CASE WorkStarts(k)
    BY <1>3, <2>1 DEF WorkStarts, WorkRecords
  <2>2. CASE WorkLock(k)
    <3>1. work'[k] = WalkFrom(First) /\ First \in Listed \cup {Head0}
      BY <1>3, <2>2, Links DEF WorkLock, Types, ListTypes
    <3> QED BY <1>4, <3>1
  <2>3. CASE LookUp(k)
    <3>1. /\ work[k].pc = "walk"
          /\ work'[k] = [work[k] EXCEPT !.pc = "delete"] \/ work'[k] = WalkFrom(work[k].tmp)
      BY <1>3, <2>3 DEF LookUp, InWork
    <3>2. work[k].cur \in Listed /\ work[k].tmp = After(work[k].cur)
      BY <3>1 DEF ListInv, WalkingWork
    <3>3. CASE work'[k] = [work[k] EXCEPT !.pc = "delete"]
      <4>1. work'[k].cur = work[k].cur /\ work'[k].tmp = work[k].tmp
        BY <1>3, <3>3 DEF WorkRecords
      <4> QED BY <3>2, <4>1
    <3>4. CASE work'[k] = WalkFrom(work[k].tmp)
      <4>1. work[k].tmp \in Listed \cup {Head0}
        BY <3>2, Links DEF Types, ListTypes
      <4> QED BY <1>4, <3>4, <4>1
    <3> QED BY <3>1, <3>3, <3>4
  <2>4. CASE WorkUnlock(k)
    BY <1>3, <2>4 DEF WorkUnlock, IdleWork
  <2> QED BY <2>1, <2>2, <2>3, <2>4 DEF WorkStep
<1> SUFFICES ASSUME NEW j \in Workers, work'[j].pc \in {"walk", "delete"}
             PROVE  (work[j].cur \in Listed /\ work[j].tmp = After(work[j].cur))'
  BY DEF WalkingWork
<1>6. work'[j].cur \in Listed /\ work'[j].tmp = After(work'[j].cur)
  BY <1>2, <1>5 DEF ListInv, WalkingWork
<1> QED BY <1>1, <1>6 DEF Listed, After, IndexOf

\* The invariants of the list, together.
LEMMA ListKept ==
    ASSUME Types, LockInv, ListInv, [Next]_vars
    PROVE  ListInv'
<1>1. ASSUME UNCHANGED <<list, pidOf>>
      PROVE  ListedOnce' /\ NoPidTwice'
  BY <1>1 DEF ListInv, ListedOnce, NoPidTwice
<1>2. ASSUME UNCHANGED <<list, pidOf, call>>
      PROVE  NewPidIsNew' /\ WalkingCalls'
  BY <1>2 DEF ListInv, NewPidIsNew, WalkingCalls, ListedPids, Listed, BlockAt
<1>3. ASSUME UNCHANGED <<list, pidOf, work>>
      PROVE  WalkingWork'
  BY <1>3 DEF ListInv, WalkingWork, Listed, After, IndexOf
<1>4. ASSUME NEW c \in Callers, Begin(c)
      PROVE  ListInv'
  <2>1. UNCHANGED <<list, pidOf, work>>
    BY <1>4, BeginSteps DEF callFrame, listVars
  <2>2. call'[c].pc \in {"parse", "wpast", "rlock"} /\ \A d \in Callers \ {c} : call'[d] = call[d]
    BY <1>4, BeginTypes DEF Types
  <2>3. NewPidIsNew' /\ WalkingCalls'
    BY <2>1, <2>2 DEF ListInv, NewPidIsNew, WalkingCalls, ListedPids, Listed, BlockAt
  <2> QED BY <1>1, <1>3, <2>1, <2>3 DEF ListInv
<1>5. ASSUME NEW c \in Callers, CallStep(c)
      PROVE  ListInv'
  <2>1. CASE AddPid(c)
    BY <2>1, AddKeepsList
  <2>2. CASE ~AddPid(c)
    <3>1. UNCHANGED <<list, pidOf, work>>
      BY <1>5, <2>2, CallFrame
    <3>2. NewPidIsNew' /\ WalkingCalls'
      BY <1>5, <2>2, CallKeepsWalks
    <3> QED BY <1>1, <1>3, <3>1, <3>2 DEF ListInv
  <2> QED BY <2>1, <2>2
<1>6. ASSUME NEW k \in Workers, WorkStep(k)
      PROVE  ListInv'
  <2>1. CASE DeletePid(k)
    BY <2>1, DeleteKeepsList
  <2>2. CASE ~DeletePid(k)
    <3>1. UNCHANGED <<list, pidOf, call>>
      BY <1>6, <2>2, WorkFrame
    <3>2. WalkingWork'
      BY <1>6, <2>2, WorkKeepsWalks
    <3> QED BY <1>1, <1>2, <3>1, <3>2 DEF ListInv
  <2> QED BY <2>1, <2>2
<1>7. ASSUME TimerStep \/ RemoveFile \/ ModuleStep
      PROVE  ListInv'
  <2>1. CASE FreeList
    BY <2>1, FreeKeepsList
  <2>2. CASE ~FreeList
    <3>1. UNCHANGED <<list, pidOf, call, work>>
      BY <1>7, <2>2, ModuleFrame
    <3> QED BY <1>1, <1>2, <1>3, <3>1 DEF ListInv
  <2> QED BY <2>1, <2>2
<1>8. ASSUME UNCHANGED <<list, pidOf, call, work>>
      PROVE  ListInv'
  BY <1>1, <1>2, <1>3, <1>8 DEF ListInv
<1> QED BY <1>4, <1>5, <1>6, <1>7, <1>8, StepCases DEF vars, listVars, ProcessEnds, ProcessStarts
-----------------------------------------------------------------------------
\* The work handler deletes only what it has looked up and not found, and no process
\* that was granted a registration since.
LEMMA WorkKeepsGrants ==
    ASSUME Types, LockInv, ListInv, GrantInv, NEW k \in Workers, WorkStep(k)
    PROVE  GrantInv'
<1>1. UNCHANGED <<alive, granted>> /\ oops = "no" /\ \A j \in Workers \ {k} : work'[j] = work[j]
  BY WorkFrame, WorkStepTypes DEF Types
<1>2. work \in [Workers -> WorkRecords]
  BY DEF Types, WorkTypes
<1>3. CASE DeletePid(k)
  <2>1. /\ ListedPids \subseteq ListedPids' \cup {pidOf[work[k].cur]}
        /\ work'[k].pc # "delete" /\ \A j \in Workers \ {k} : work[j].pc \notin WorkLocked
    BY <1>3, DeleteKeepsList
  <2>2. pidOf[work[k].cur] \notin granted
    BY <1>3 DEF DeletePid, InWork, GrantInv
  <2>3. RegisteredStaysListed'
    BY <1>1, <2>1, <2>2 DEF GrantInv, RegisteredStaysListed
  <2>4. \A j \in Workers : work'[j].pc # "delete"
    BY <1>1, <2>1 DEF WorkLocked
  <2> QED BY <1>1, <2>3, <2>4 DEF GrantInv
<1>4. CASE ~DeletePid(k)
  <2>1. UNCHANGED <<list, pidOf>> /\ ListedPids' = ListedPids
    BY <1>4, WorkFrame, SameList
  <2>2. ASSUME work'[k].pc = "delete"
        PROVE  pidOf'[work'[k].cur] \notin granted'
    <3>1. CASE LookUp(k)
      <4>1. work'[k] = IF Gone(pidOf[work[k].cur]) THEN [work[k] EXCEPT !.pc = "delete"]
                                                   ELSE WalkFrom(work[k].tmp)
        BY <1>2, <3>1 DEF LookUp
      <4>2. Gone(pidOf[work[k].cur])
        BY <2>2, <4>1 DEF WalkFrom
      <4>3. work'[k].cur = work[k].cur
        BY <1>2, <4>1, <4>2 DEF WorkRecords
      <4> QED BY <1>1, <2>1, <4>2, <4>3 DEF Gone, GrantInv
    <3>2. CASE ~LookUp(k)
      BY <1>2, <1>4, <2>2, <3>2
         DEF WorkStep, WorkStarts, WorkLock, WorkUnlock, WalkFrom, IdleWork, WorkRecords
    <3> QED BY <3>1, <3>2
  <2>3. \A j \in Workers : work'[j].pc = "delete" => pidOf'[work'[j].cur] \notin granted'
    BY <1>1, <2>1, <2>2 DEF GrantInv
  <2> QED BY <1>1, <2>1, <2>3 DEF GrantInv, RegisteredStaysListed
<1> QED BY <1>3, <1>4

\* What was granted stays granted and listed while the process lives.
LEMMA GrantKept ==
    ASSUME Types, LockInv, ListInv, GrantInv, [Next]_vars
    PROVE  GrantInv'
<1>1. ASSUME UNCHANGED <<list, pidOf, work>>, granted' \subseteq granted, granted' \subseteq alive'
      PROVE  GrantInv'
  <2>1. ListedPids' = ListedPids
    BY <1>1, SameList
  <2> QED BY <1>1, <2>1 DEF GrantInv, RegisteredStaysListed
<1>2. ASSUME NEW p \in Pids, ProcessEnds(p) \/ ProcessStarts(p)
      PROVE  GrantInv'
  <2>1. UNCHANGED <<list, pidOf, work>>
    BY <1>2 DEF ProcessEnds, ProcessStarts, listVars
  <2>2. granted' \subseteq granted /\ granted' \subseteq alive'
    BY <1>2 DEF ProcessEnds, ProcessStarts, hist, GrantInv
  <2> QED BY <1>1, <2>1, <2>2
<1>3. ASSUME NEW c \in Callers, Begin(c)
      PROVE  GrantInv'
  <2>1. UNCHANGED <<alive, list, pidOf, work, granted>>
    BY <1>3, BeginSteps DEF callFrame, listVars, hist
  <2> QED BY <1>1, <2>1 DEF GrantInv
<1>4. ASSUME NEW c \in Callers, CallStep(c)
      PROVE  GrantInv'
  <2>1. UNCHANGED <<alive, work>> /\ oops = "no"
    BY <1>4, CallFrame
  <2>2. CASE AddPid(c)
    <3>1. ListedPids' = ListedPids \cup {call[c].pid}
      BY <2>2, AddKeepsList
    <3>2. granted' = granted \cup ({call[c].pid} \cap alive) /\ call[c].pc = "add"
      BY <2>2 DEF AddPid, InCall
    <3>3. \A k \in Workers : work[k].pc # "delete"
      BY <2>1, <3>2, CallAlone DEF CallLocked, WorkLocked
    <3> QED BY <2>1, <3>1, <3>2, <3>3 DEF GrantInv, RegisteredStaysListed
  <2>3. CASE ~AddPid(c)
    <3>1. UNCHANGED <<list, pidOf, granted>>
      BY <1>4, <2>3, CallFrame
    <3> QED BY <1>1, <2>1, <3>1 DEF GrantInv
  <2> QED BY <2>2, <2>3
<1>5. ASSUME NEW k \in Workers, WorkStep(k)
      PROVE  GrantInv'
  BY <1>5, WorkKeepsGrants
<1>6. ASSUME TimerStep \/ RemoveFile \/ ModuleStep
      PROVE  GrantInv'
  <2>1. UNCHANGED <<alive, work>>
    BY <1>6, ModuleFrame
  <2>2. CASE FreeList
    BY <2>1, <2>2 DEF FreeList, GrantInv, RegisteredStaysListed
  <2>3. CASE ~FreeList
    <3>1. UNCHANGED <<list, pidOf, granted>>
      BY <1>6, <2>3, ModuleFrame
    <3> QED BY <1>1, <2>1, <3>1 DEF GrantInv
  <2> QED BY <2>2, <2>3
<1>7. CASE UNCHANGED vars
  BY <1>1, <1>7 DEF vars, listVars, hist, GrantInv
<1> QED BY <1>2, <1>3, <1>4, <1>5, <1>6, <1>7, StepCases
-----------------------------------------------------------------------------
\* kmalloc hands out a free buffer, and a call frees and writes its own.
LEMMA HeapKept ==
    ASSUME Types, HeapInv, [Next]_vars
    PROVE  HeapInv'
<1> USE ContextsAssumption
<1>1. \A c \in Callers : call[c].pc = "idle" => call[c].buf \notin Bufs
  BY DEF Types, CallTypes, CallShape
<1>2. buf \in [Bufs -> Contents]
  BY DEF Types, HeapTypes
<1>3. \A c \in Callers : call[c].buf = NoOne \/ call[c].buf \in Bufs
  BY DEF Types, CallTypes, CallShape
<1>4. ASSUME NEW c \in Callers, Begin(c)
      PROVE  HeapInv'
  <2>1. /\ call[c].pc = "idle" /\ emptied' = emptied /\ spilled' = spilled
        /\ \A d \in Callers \ {c} : call'[d] = call[d]
    BY <1>4, BeginSteps, BeginTypes DEF Types, callFrame, hist
  <2>2. PICK b \in free : call'[c].buf = b /\ free' = free \ {b} /\ b \in Bufs /\ buf'[b].by = c
                          /\ \A x \in Bufs \ {b} : buf'[x] = buf[x]
    <3>1. PICK pc \in {"parse", "wpast", "rlock"}, b \in free :
              /\ call' = [call EXCEPT ![c] = [IdleCall EXCEPT !.pc = pc, !.buf = b]]
              /\ free' = free \ {b}
              /\ \/ buf' = [buf EXCEPT ![b] = Answer(c)]
                 \/ buf' = [buf EXCEPT ![b] = Text(c)]
      BY <1>4, BeginSteps DEF TakesBuffer
    <3>2. b \in Bufs
      BY DEF Types, HeapTypes
    <3>3. [IdleCall EXCEPT !.pc = pc, !.buf = b].buf = b
      BY DEF IdleCall
    <3>4. call'[c].buf = b
      BY <3>1, <3>3 DEF Types, CallTypes
    <3>5. buf'[b].by = c /\ \A x \in Bufs \ {b} : buf'[x] = buf[x]
      BY <1>2, <3>1, <3>2 DEF Answer, Text
    <3> QED BY <3>1, <3>2, <3>4, <3>5
  <2>3. NoBufferLost'
    BY <1>1, <2>1, <2>2 DEF HeapInv, NoBufferLost
  <2>4. BuffersAreOwn'
    BY <1>3, <2>1, <2>2 DEF HeapInv, BuffersAreOwn
  <2> QED BY <2>3, <2>4 DEF HeapInv
<1>5. ASSUME NEW c \in Callers, CallStep(c)
      PROVE  HeapInv'
  <2> DEFINE b == call[c].buf
  <2>1. \A d \in Callers \ {c} : call'[d] = call[d]
    BY <1>5, CallStepTypes DEF Types
  <2>2. (emptied' = emptied \/ emptied') /\ (spilled' = spilled \/ spilled' = TRUE)
    BY <1>5, CallFrame DEF FreeEmpty
  <2>3. CASE UNCHANGED <<free, buf>> /\ call'[c].buf = b
    <3>1. NoBufferLost'
      BY <2>1, <2>3 DEF HeapInv, NoBufferLost
    <3>2. BuffersAreOwn'
      BY <2>1, <2>2, <2>3 DEF HeapInv, BuffersAreOwn
    <3> QED BY <3>1, <3>2 DEF HeapInv
  <2>4. CASE /\ b \in Bufs /\ free' = free /\ buf' = [buf EXCEPT ![b] = Answer(c)]
             /\ call'[c].buf = b
    <3>1. buf'[b].by = c /\ \A x \in Bufs \ {b} : buf'[x] = buf[x]
      BY <1>2, <2>4 DEF Answer
    <3>2. NoBufferLost'
      BY <2>1, <2>4 DEF HeapInv, NoBufferLost
    <3>3. BuffersAreOwn'
      BY <1>3, <2>1, <2>2, <2>4, <3>1 DEF HeapInv, BuffersAreOwn
    <3> QED BY <3>2, <3>3 DEF HeapInv
  <2>6. CASE free' = free /\ spilled' = TRUE /\ call'[c].buf = b
    <3>1. NoBufferLost'
      BY <2>1, <2>6 DEF HeapInv, NoBufferLost
    <3>2. BuffersAreOwn'
      BY <2>1, <2>2, <2>6 DEF HeapInv, BuffersAreOwn
    <3> QED BY <3>1, <3>2 DEF HeapInv
  <2>5. CASE b \in Bufs /\ Kfree(b) /\ (call'[c] = IdleCall \/ FreeEmpty(c))
    <3>1. free' = free \cup {b} /\ \A x \in Bufs \ {b} : buf'[x] = buf[x]
      BY <1>2, <2>5 DEF Kfree
    <3>2. NoBufferLost'
      BY <2>1, <3>1 DEF HeapInv, NoBufferLost
    <3>3. CASE FreeEmpty(c)
      <4>1. emptied'
        BY <3>3 DEF FreeEmpty
      <4> QED BY <3>2, <4>1 DEF HeapInv, BuffersAreOwn
    <3>4. CASE call'[c] = IdleCall
      <4>1. call'[c].buf = NoOne
        BY <3>4 DEF IdleCall
      <4>2. ASSUME NEW d \in Callers, d # c, call'[d].buf # NoOne, ~emptied'
            PROVE  /\ call'[d].buf \notin free'
                   /\ \A e \in Callers \ {d} : call'[e].buf # call'[d].buf
                   /\ ~spilled' => buf'[call'[d].buf].by = d
        <5>1. ~emptied /\ (~spilled' => ~spilled)
          BY <2>2, <4>2
        <5>2. /\ call[d].buf \notin free /\ call[d].buf # b
              /\ \A e \in Callers \ {d} : call[e].buf # call[d].buf
              /\ ~spilled => buf[call[d].buf].by = d
          BY <2>1, <4>2, <5>1 DEF HeapInv, BuffersAreOwn
        <5>3. call'[d] = call[d] /\ call[d].buf \in Bufs
          BY <1>3, <2>1, <4>2
        <5>4. call[d].buf \notin free' /\ buf'[call[d].buf] = buf[call[d].buf]
          BY <3>1, <5>2, <5>3
        <5>5. \A e \in Callers \ {d} : call'[e].buf # call[d].buf
          BY <2>1, <4>1, <4>2, <5>2, <5>3
        <5> HIDE DEF b
        <5> QED BY <5>1, <5>2, <5>3, <5>4, <5>5
      <4>3. BuffersAreOwn'
        BY <4>1, <4>2 DEF BuffersAreOwn
      <4> QED BY <3>2, <4>3 DEF HeapInv
    <3> QED BY <2>5, <3>3, <3>4
  <2> QED BY <1>5, <2>3, <2>4, <2>5, <2>6, HeapSteps DEF Types
<1>6. ASSUME UNCHANGED <<free, buf, call, emptied, spilled>>
      PROVE  HeapInv'
  BY <1>6 DEF HeapInv, NoBufferLost, BuffersAreOwn
<1> QED BY <1>4, <1>5, <1>6, StepCases, WorkFrame, ModuleFrame
        DEF vars, heap, hist, ProcessEnds, ProcessStarts
-----------------------------------------------------------------------------
\* kmlab_exit goes on only when the calls and the work are over, and the timer, once it
\* is off, does not come back.
LEMMA ExitKept ==
    ASSUME Types, ExitInv, [Next]_vars
    PROVE  ExitInv'
<1> DEFINE CallsOver == \A c \in Callers : call[c].pc = "idle"
           WorkOver  == works = 0 /\ \A k \in Workers : work[k].pc = "idle"
<1>1. ASSUME UNCHANGED <<call, work, works, timer, wq, mod, raced, list, lock>>, oops' # "queue" \/ oops' = oops
      PROVE  ExitInv'
  BY <1>1 DEF ExitInv
<1>2. ASSUME NEW p \in Pids, ProcessEnds(p) \/ ProcessStarts(p)
      PROVE  ExitInv'
  BY <1>1, <1>2 DEF ProcessEnds, ProcessStarts, listVars, modVars, hist
<1>3. ASSUME NEW c \in Callers, Begin(c)
      PROVE  ExitInv'
  <2>1. /\ mod \in {"proc", "armed", "live"}
        /\ UNCHANGED <<work, works, timer, wq, mod, oops, raced, list, lock>>
    BY <1>3, BeginSteps DEF FileUsable, callFrame, listVars, modVars, hist
  <2> QED BY <2>1 DEF ExitInv, Stopped, Destroyed
<1>4. ASSUME NEW c \in Callers, CallStep(c)
      PROVE  ExitInv'
  <2>1. call[c].pc # "idle"
    BY <1>4 DEF CallStep, InCall, AcceptPid, RejectPid, WriteLock, CheckPid, AddPid, WriteUnlock, ReadLock, PrintPid,
             PrintInside, PrintPast, ReadUnlock, FreeEmpty, PrintMessage, CopyOut, EarlyWait, EndWrite, EndReport, MemoryBreaks
  <2>2. mod \notin Stopped \cup {"removed"}
    BY <2>1 DEF ExitInv
  <2>3. UNCHANGED <<timer, works, work, mod, wq, raced>> /\ oops' # "queue"
    BY <1>4, CallFrame
  <2> QED BY <2>2, <2>3 DEF ExitInv, Stopped, Destroyed
<1>5. ASSUME NEW k \in Workers, WorkStep(k)
      PROVE  ExitInv'
  <2>1. UNCHANGED <<call, timer, wq, mod, oops, raced>>
    BY <1>5, WorkFrame
  <2>2. ~WorkOver
    BY <1>5 DEF WorkStep, InWork, WorkStarts, WorkLock, LookUp, DeletePid, WorkUnlock
  <2>3. ~raced => mod \notin Destroyed
    BY <2>2 DEF ExitInv
  <2> QED BY <2>1, <2>3 DEF ExitInv, Destroyed
<1>6. ASSUME TimerStep \/ RemoveFile \/ ModuleStep
      PROVE  ExitInv'
  <2> USE DEF modFrame, hist, modVars, listVars, ToModule, InModule, Stopped, Destroyed
  <2>0. raced \in BOOLEAN /\ mod \in ModSteps
    BY DEF Types, ModuleTypes
  <2>1. CASE TimerExpires
    BY <2>0, <2>1 DEF TimerExpires, ExitInv
  <2>2. CASE TimerHandles
    BY <2>0, <2>2 DEF TimerHandles, ExitInv, Rearmed
  <2>3. CASE TimerMissesQueue
    BY <2>0, <2>3 DEF TimerMissesQueue, ExitInv
  <2>4. CASE RemoveFile
    BY <2>0, <2>4 DEF RemoveFile, ExitInv
  <2>5. CASE CreateFile
    BY <2>0, <2>5 DEF CreateFile, ExitInv
  <2>6. CASE ArmTimer
    BY <2>0, <2>6 DEF ArmTimer, ExitInv
  <2>7. CASE MutexInit
    BY <2>0, <2>7 DEF MutexInit, ExitInv
  <2>8. CASE FileRemoved
    BY <2>0, <2>8 DEF FileRemoved, ExitInv
  <2>9. CASE DelTimer
    <3>1. /\ mod = "removed" /\ mod' = "stopped" /\ oops = "no" /\ oops' = oops /\ wq' = wq
          /\ UNCHANGED <<call, list, lock>>
      BY <2>9 DEF DelTimer
    <3>2. ~raced' => timer # "running"
      BY <2>9, Zenon DEF DelTimer
    <3>3. timer # "running" => timer' = "off"
      BY <2>9 DEF DelTimer, TimerAfterDel, Types, ModuleTypes
    <3> QED BY <3>1, <3>2, <3>3 DEF ExitInv
  <2>10. CASE DestroyQueue
    BY <2>0, <2>10 DEF DestroyQueue, ExitInv
  <2>11. CASE QueueDrained
    BY <2>0, <2>11 DEF QueueDrained, ExitInv
  <2>12. CASE ExitLock
    BY <2>0, <2>12 DEF ExitLock, ExitInv
  <2>13. CASE FreeList
    BY <2>0, <2>13 DEF FreeList, ExitInv
  <2> QED BY <1>6, <2>1, <2>2, <2>3, <2>4, <2>5, <2>6, <2>7, <2>8, <2>9, <2>10, <2>11, <2>12, <2>13 DEF TimerStep, ModuleStep
<1>7. CASE UNCHANGED vars
  BY <1>1, <1>7 DEF vars, listVars, modVars, hist
<1> QED BY <1>2, <1>3, <1>4, <1>5, <1>6, <1>7, StepCases
-----------------------------------------------------------------------------
\* Before insmod the invariants hold.
LEMMA KInit ==
    ASSUME Init
    PROVE  KInv
<1> USE ContextsAssumption, BoundsAssumption DEF Init, Blocks
<1>1. CallTypes /\ WorkTypes
  <2>1. IdleCall \in CallRecords /\ CallShape(IdleCall)
    BY EmptySeq DEF IdleCall, CallRecords, CallShape, CallPcs, Head0
  <2>2. IdleWork \in WorkRecords
    BY DEF IdleWork, WorkRecords, Head0
  <2> QED BY <2>1, <2>2 DEF CallTypes, WorkTypes
<1>2. Len(list) = 0 /\ list \in Seq(Blocks) /\ Listed = {} /\ ListedPids = {}
  BY EmptySeq DEF Listed, ListedPids
<1>3. ListTypes /\ HeapTypes /\ ProcessTypes
  BY <1>2 DEF ListTypes, HeapTypes, Contents, ProcessTypes, Blank
<1>4. ModuleTypes
  <2>1. raced \in BOOLEAN /\ emptied \in BOOLEAN /\ spilled \in BOOLEAN
    BY Zenon
  <2>2. works \in 0 .. MaxWork
    OBVIOUS
  <2>3. /\ lock = NoOne /\ timer = "off" /\ wq = "none" /\ mod = "absent" /\ oops = "no"
    BY Zenon
  <2> QED BY <2>1, <2>2, <2>3, Zenon DEF ModuleTypes, ModSteps
<1>5. \A c \in Callers : call[c].pc = "idle" /\ call[c].buf = NoOne
  BY DEF IdleCall
<1>6. \A k \in Workers : work[k].pc = "idle"
  BY DEF IdleWork
<1>7. LockInv
  BY <1>5, <1>6 DEF LockInv, CallLocked, WorkLocked
<1>8. ListInv
  BY <1>2, <1>5, <1>6 DEF ListInv, ListedOnce, NoPidTwice, NewPidIsNew, WalkingCalls, WalkingWork
<1>9. GrantInv
  BY <1>6 DEF GrantInv, RegisteredStaysListed
<1>10. HeapInv
  BY <1>5 DEF HeapInv, NoBufferLost, BuffersAreOwn
<1>11. ExitInv
  BY <1>5, <1>6 DEF ExitInv, Stopped, Destroyed
<1> QED BY <1>1, <1>3, <1>4, <1>7, <1>8, <1>9, <1>10, <1>11 DEF KInv, Types

\* The inductive invariant of the kernel module: types, lock, list, grants, heap, unloading.
LEMMA KInvariant == Spec => []KInv
<1>1. Init => KInv
  BY KInit
<1>2. KInv /\ [Next]_vars => KInv'
  <2> SUFFICES ASSUME KInv, [Next]_vars
               PROVE  KInv'
    OBVIOUS
  <2>1. Types' /\ LockInv'
    BY TypesKept, LockKept DEF KInv, ListInv
  <2>2. ListInv' /\ GrantInv'
    BY ListKept, GrantKept DEF KInv
  <2>3. HeapInv' /\ ExitInv'
    BY HeapKept, ExitKept DEF KInv
  <2> QED BY <2>1, <2>2, <2>3 DEF KInv
<1> QED BY <1>1, <1>2, PTL DEF Spec

\* A report that has a line for each block passed, followed by the blocks from the next
\* one on, is the whole list.
LEMMA ReportIsTheList ==
    ASSUME ListTypes, ListedOnce, NEW seen \in Seq(Pids \cup {NoOne}), Len(seen) <= Len(list),
           \A i \in 1 .. Len(seen) : seen[i] = pidOf[list[i]]
    PROVE  LET cur == BlockAt(Len(seen) + 1)
           IN  /\ cur \in Listed \cup {Head0}
               /\ seen \o PidsFrom(cur) = [i \in 1 .. Len(list) |-> pidOf[list[i]]]
<1> DEFINE n == Len(seen)
           cur == BlockAt(n + 1)
           whole == [i \in 1 .. Len(list) |-> pidOf[list[i]]]
           P == Pids \cup {NoOne}
<1>1. n \in Nat /\ Len(list) \in Nat
  BY LenProperties DEF ListTypes
<1>2. \A i \in 1 .. Len(list) : list[i] \in Blocks /\ pidOf[list[i]] \in P
  BY ElementOfSeq DEF ListTypes
<1>3. whole \in Seq(P) /\ Len(whole) = Len(list)
  BY <1>1, <1>2, SeqDef
<1>4. CASE n = Len(list)
  <2>1. cur = Head0
    BY <1>1, <1>4 DEF BlockAt
  <2>2. PidsFrom(cur) = <<>>
    BY <2>1 DEF PidsFrom
  <2>3. seen \o <<>> = seen
    BY ConcatEmptySeq
  <2>4. seen = whole
    BY <1>3, <1>4, SeqEqual
  <2> QED BY <2>1, <2>2, <2>3, <2>4
<1>5. CASE n < Len(list)
  <2> DEFINE rest == [i \in 1 .. Len(list) - n |-> pidOf[list[n + i]]]
  <2>1. n + 1 \in 1 .. Len(list) /\ cur = list[n + 1]
    BY <1>1, <1>5 DEF BlockAt
  <2>2. cur \in Listed /\ IndexOf(cur) = n + 1
    BY <2>1, PlaceInList
  <2>3. cur # Head0
    BY <1>2, <2>1, BoundsAssumption DEF Blocks, Head0
  <2>4. PidsFrom(cur) = rest
    <3>1. PICK m : m = Len(list) - n
      OBVIOUS
    <3>2. Len(list) - (n + 1) + 1 = m
      BY <1>1, <3>1
    <3>3. \A i \in 1 .. m : (n + 1) + i - 1 = n + i
      BY <1>1, <3>1
    <3>4. PidsFrom(cur) = [i \in 1 .. m |-> pidOf[list[(n + 1) + i - 1]]]
      BY <2>2, <2>3, <3>2 DEF PidsFrom
    <3>5. [i \in 1 .. m |-> pidOf[list[(n + 1) + i - 1]]] = [i \in 1 .. m |-> pidOf[list[n + i]]]
      BY ONLY <3>3, Zenon
    <3> QED BY <3>1, <3>4, <3>5
  <2>5. rest \in Seq(P) /\ Len(rest) = Len(list) - n
    <3>1. Len(list) - n \in Nat /\ \A i \in 1 .. Len(list) - n : n + i \in 1 .. Len(list)
      BY <1>1, <1>5
    <3> QED BY <1>2, <3>1, SeqDef
  <2> HIDE DEF cur, whole
  <2>6. /\ seen \o rest \in Seq(P) /\ Len(seen \o rest) = Len(list)
        /\ \A i \in 1 .. Len(list) : (seen \o rest)[i] = IF i <= n THEN seen[i] ELSE rest[i - n]
    <3> HIDE DEF rest
    <3> QED BY <1>1, <2>5, ConcatProperties
  <2>7. \A i \in 1 .. Len(list) : (seen \o rest)[i] = whole[i]
    BY <1>1, <2>6 DEF whole
  <2>8. seen \o rest = whole
    <3> HIDE DEF rest
    <3> QED BY <1>3, <2>6, <2>7, SeqEqual
  <2> QED BY <2>2, <2>4, <2>8 DEF whole, cur
<1> QED BY <1>1, <1>4, <1>5
-----------------------------------------------------------------------------
\* Every variable of the kernel module, its callers and its workers stays in its type, and
\* a block on the list holds a pid (kmlab.c:61-240).
THEOREM TypeCorrect == Spec => []TypeOK
<1>1. KInv => TypeOK
  BY DEF KInv, Types, TypeOK, CallTypes, CallRecords, WorkTypes, WorkRecords, ListTypes, HeapTypes,
     ProcessTypes, ModuleTypes
<1> QED BY <1>1, KInvariant, PTL

\* No pid is on the list twice: __register_pid looks for it under the lock under which it
\* adds it (kmlab.c:44-55, 89-96).
THEOREM NoPidIsListedTwice == Spec => []NoPidTwice
<1>1. KInv => NoPidTwice
  BY DEF KInv, ListInv
<1> QED BY <1>1, KInvariant, PTL

\* get_status and work_handler never stand on a freed block, and a report is the list as
\* it is under the lock (kmlab.c:109-115, 174-184).
THEOREM WalksStayCurrent == Spec => []WalksAreCurrent
<1>1. KInv => WalksAreCurrent
  <2> SUFFICES ASSUME KInv
               PROVE  WalksAreCurrent
    OBVIOUS
  <2> USE DEF KInv, Types, ListInv
  <2>1. ASSUME NEW c \in Callers, call[c].pc = "walk"
        PROVE  /\ call[c].cur \in Listed \cup {Head0}
               /\ call[c].seen \o PidsFrom(call[c].cur) = [i \in 1 .. Len(list) |-> pidOf[list[i]]]
    <3>1. call[c].seen \in Seq(Pids \cup {NoOne})
      BY DEF CallTypes, CallRecords
    <3>2. /\ Len(call[c].seen) <= Len(list) /\ call[c].cur = BlockAt(Len(call[c].seen) + 1)
          /\ \A i \in 1 .. Len(call[c].seen) : call[c].seen[i] = pidOf[list[i]]
      BY <2>1 DEF WalkingCalls
    <3> QED BY <3>1, <3>2, ReportIsTheList
  <2>2. WalkingWork
    OBVIOUS
  <2> QED BY <2>1, <2>2 DEF WalksAreCurrent, WalkingWork
<1> QED BY <1>1, KInvariant, PTL

\* A process that lives and was accepted by register_pid stays on the list, although
\* get_cpu_use and list_del are two steps of the work handler (kmlab.c:89-96, 174-184).
THEOREM RegisteredAreListed == Spec => []RegisteredStaysListed
<1>1. KInv => RegisteredStaysListed
  BY DEF KInv, GrantInv
<1> QED BY <1>1, KInvariant, PTL

\* Unless the timer's handler was running at del_timer, kmlab_exit leaves no timer, work,
\* call, block or buffer, and the handler never meets a destroyed queue (kmlab.c:214-240).
THEOREM ExitLeavesNothing == Spec => []ExitIsClean
<1>1. KInv => ExitIsClean
  <2> SUFFICES ASSUME KInv, ~raced
               PROVE  /\ oops # "queue"
                      /\ mod \in Destroyed =>
                            /\ timer = "off" /\ works = 0
                            /\ \A k \in Workers : work[k].pc = "idle"
                            /\ \A c \in Callers : call[c].pc = "idle"
                      /\ mod = "gone" => list = <<>> /\ lock = NoOne /\ free = Bufs
    BY DEF ExitIsClean, Destroyed
  <2>1. ASSUME mod = "gone"
        PROVE  free = Bufs
    <3>1. \A c \in Callers : call[c].pc = "idle"
      BY <2>1 DEF KInv, ExitInv, Stopped
    <3>2. \A c \in Callers : call[c].buf = NoOne
      BY <3>1 DEF KInv, Types, CallTypes, CallShape
    <3> QED BY <3>2, ContextsAssumption DEF KInv, Types, HeapTypes, HeapInv, NoBufferLost
  <2> QED BY <2>1 DEF KInv, ExitInv, Destroyed, Stopped
<1> QED BY <1>1, KInvariant, PTL

\* Until a read finds the list empty, the buffer of a call is not free and no other call's,
\* whatever is written past the ends of buffers; and until something is, it holds what this
\* call put there (kmlab.c:61-104, 120-150).
THEOREM BuffersStayOwn == Spec => []BuffersAreOwn
<1>1. KInv => BuffersAreOwn
  BY DEF KInv, HeapInv
<1> QED BY <1>1, KInvariant, PTL
=============================================================================
