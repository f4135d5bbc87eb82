------------------------------- MODULE Kmlab -------------------------------
(***************************************************************************)
(* The kernel module of Computer_Science-360/lab4/kmlab.c: a list of       *)
(* registered processes behind one proc file, a timer that every five      *)
(* seconds queues work that refreshes the list, and the loading and        *)
(* unloading of the module.                                                *)
(*                                                                         *)
(* The contexts run concurrently: callers of the proc file (lab4/userapp.c *)
(* and the shell commands of kmlab_test.sh), the timer's handler, the work *)
(* queue's workers, and insmod and rmmod, which follow one another.        *)
(* prime_lock and prime_unlock, which no file of the repository defines,   *)
(* are taken as the lock and unlock of the struct mutex they are given.    *)
(*                                                                         *)
(* The processor times are left out, and so are the calls that return      *)
(* before they touch anything shared (no memory for the buffer, n out of   *)
(* range, a file position past 0): these change nothing.  The allocations  *)
(* whose result nobody tests succeed.                                      *)
(*                                                                         *)
(* A write of MAX_BUF_SIZE bytes and a report of more than LINES lines go  *)
(* past the end of their buffer.  What lies there is another call's        *)
(* buffer, memory of no consequence, or memory the kernel cannot do        *)
(* without, which ends the model.                                          *)
(***************************************************************************)
EXTENDS Naturals, Sequences, FiniteSets

CONSTANTS
    Pids,       \* process ids
    Callers,    \* processes that read and write the proc file
    Workers,    \* worker threads of the work queue
    BUFS,       \* buffers kmalloc may hand out for the calls
    BLOCKS,     \* registration blocks kmalloc may hand out
    LINES,      \* lines of a report that fit into MAX_BUF_SIZE bytes
    NoOne,      \* no context, no pid
    MaxWork     \* bound of the model: work items queued at the same time

ASSUME BoundsAssumption ==
    BLOCKS \in Nat /\ BUFS \in Nat /\ LINES \in Nat /\ MaxWork \in Nat
VARIABLES
    alive,      \* pids of the processes that exist
    list,       \* registration_list: blocks, the first one first
    pidOf,      \* the pid in each registration block, NoOne in a free one
    lock,       \* the holder of access_lock
    free,       \* buffers the allocator considers free
    buf,        \* what each buffer holds
    call,       \* each caller: where it is in register_pid or get_status
    timer,      \* update_timer: "running" is its handler
    works,      \* work items queued
    work,       \* each worker: where it is in work_handler
    wq,         \* the work queue
    mod,        \* how far kmlab_init or kmlab_exit has come
    oops,       \* why the model has ended: a bad queue or mutex; "no" while it runs
    raced,      \* history: del_timer ran while the handler was running
    emptied,    \* history: a read has found the list empty and freed its buffer twice
    spilled,    \* history: a call has written past the end of its buffer
    granted     \* history: live processes whose registration was accepted

listVars  == <<list, pidOf, lock>>
heap      == <<free, buf>>
hist      == <<raced, emptied, spilled, granted>>
modVars   == <<mod, oops, wq>>
callFrame == <<alive, timer, works, work, modVars, hist>>
workFrame == <<alive, heap, call, timer, modVars, hist>>
modFrame  == <<alive, list, pidOf, heap, call, works, work>>
vars      == <<alive, listVars, heap, call, timer, works, work, modVars, hist>>

Blocks == 1 .. BLOCKS
Bufs   == 1 .. BUFS
Head0  == 0                     \* the list head, where every walk ends
Rmmod  == "rmmod"               \* kmlab_exit as a holder of the lock

ASSUME ContextsAssumption ==
    /\ Callers \cap Workers = {}
    /\ NoOne \notin Callers \cup Workers \cup Pids \cup Bufs
    /\ Rmmod \notin Callers \cup Workers \cup {NoOne}

\* What a buffer may hold, and whose it is: the text of a write, which may be any number
\* or none, as may be what a write past the end of another buffer leaves; the report or
\* the message of a read; and what is no number, as after kfree.
Text(c)   == [kind |-> "text", by |-> c]
Garbled   == [kind |-> "text", by |-> NoOne]
Answer(c) == [kind |-> "answer", by |-> c]
Blank     == [kind |-> "blank", by |-> NoOne]

Listed     == {list[i] : i \in 1 .. Len(list)}
ListedPids == {pidOf[b] : b \in Listed}
IndexOf(b) == CHOOSE i \in 1 .. Len(list) : list[i] = b
First      == IF list = <<>> THEN Head0 ELSE list[1]

\* The link of block b; that of a block off the list leads nowhere.
After(b) == IF b \in Listed /\ IndexOf(b) < Len(list) THEN list[IndexOf(b) + 1] ELSE Head0

NeverUnlinks(b) == list       \* mutant: the block freed and left on the list
\* list_del
Unlink(b) == [i \in 1 .. Len(list) - 1 |-> IF i < IndexOf(b) THEN list[i] ELSE list[i + 1]]

IdleCall == [pc |-> "idle", buf |-> NoOne, pid |-> NoOne, seen |-> <<>>, cur |-> Head0]
IdleWork == [pc |-> "idle", cur |-> Head0, tmp |-> Head0]

InCall(c, pc) == oops = "no" /\ call[c].pc = pc
InWork(k, pc) == oops = "no" /\ work[k].pc = pc
InModule(at)  == oops = "no" /\ mod = at
ToCall(c, pc) == call' = [call EXCEPT ![c].pc = pc]

Init ==
    /\ alive = Pids
    /\ list = <<>> /\ pidOf = [b \in Blocks |-> NoOne] /\ lock = NoOne
    /\ free = Bufs /\ buf = [b \in Bufs |-> Blank]
    /\ call = [c \in Callers |-> IdleCall]
    /\ timer = "off" /\ works = 0 /\ wq = "none"
    /\ work = [k \in Workers |-> IdleWork]
    /\ mod = "absent" /\ oops = "no"
    /\ raced = FALSE /\ emptied = FALSE /\ spilled = FALSE /\ granted = {}

GoneInverted(p) == p \in alive    \* mutant: the result taken the wrong way round
\* get_cpu_use does not find the process.
Gone(p) == p \notin alive

\* A process ends, or a new one gets the pid.
ProcessEnds(p) ==
    /\ oops = "no" /\ p \in alive
    /\ alive' = alive \ {p}
    /\ granted' = granted \ {p}
    /\ UNCHANGED <<listVars, heap, call, timer, works, work, modVars, raced, emptied, spilled>>

ProcessStarts(p) ==
    /\ oops = "no" /\ p \notin alive
    /\ alive' = alive \cup {p}
    /\ UNCHANGED <<listVars, heap, call, timer, works, work, modVars, hist>>

-----------------------------------------------------------------------------
(* access_lock.  mutex_init comes after the file can be used (kmlab.c:203-  *)
(* 207): a mutex of zeros works as long as nobody has to wait for it or     *)
(* holds it when it is initialized.  The model ends when the mutex breaks.  *)

NeverHeld == TRUE             \* mutant: prime_lock does not wait
CanLock == lock = NoOne

StillHeld == lock             \* mutant: an error return without prime_unlock
Unlocked  == NoOne

MutexReady == mod \notin {"absent", "proc", "armed"}

\* Waiting for the lock on the zeroed wait list.
EarlyWait(c) ==
    /\ oops = "no" /\ call[c].pc \in {"wlock", "rlock"}
    /\ lock # NoOne /\ ~MutexReady
    /\ oops' = "mutex"
    /\ UNCHANGED <<modFrame, lock, timer, wq, mod, hist>>

-----------------------------------------------------------------------------
(* register_pid, the file's write (kmlab.c:61-104, 41-56).                  *)

FileUsable == mod \in {"proc", "armed", "live"}

\* The buffer kmalloc hands out, one is as good as another, and its first content.
Kmalloc(b, content) ==
    /\ b \in free /\ \A x \in free : b <= x
    /\ free' = free \ {b}
    /\ buf' = [buf EXCEPT ![b] = content]

\* kfree: the allocator overwrites the buffer, and may hand it out again.
Kfree(b) == free' = free \cup {b} /\ buf' = [buf EXCEPT ![b] = Blank]

\* kmalloc, memset, copy_from_user and, inside the buffer, the terminating zero.
\* MAX_BUF_SIZE bytes leave no room for it.
BeginWrite(c, b) ==
    /\ InCall(c, "idle") /\ FileUsable
    /\ Kmalloc(b, Text(c))
    /\ \E pc \in {"parse", "wpast"} :
          call' = [call EXCEPT ![c] = [IdleCall EXCEPT !.pc = pc, !.buf = b]]
    /\ UNCHANGED <<callFrame, listVars>>

\* The buffers after a write past the end of b: what is there may be another call's.
PastEnd(b, content) == {buf} \cup {[buf EXCEPT ![x] = content] : x \in Bufs \ (free \cup {b})}

\* kern_buf[n] = 0 behind the buffer.  Another call that owns the place overwrites the
\* zero, and the text may then run on.
EndWrite(c) ==
    /\ InCall(c, "wpast")
    /\ \/ buf' \in PastEnd(call[c].buf, Blank)
       \/ buf' = [buf EXCEPT ![call[c].buf] = Garbled]
    /\ spilled' = TRUE
    /\ ToCall(c, "parse")
    /\ UNCHANGED <<alive, listVars, free, timer, works, work, modVars, raced, emptied, granted>>

\* kstrtoul finds a number, and get_cpu_use its process, outside the lock.
AcceptPid(c, p) ==
    /\ InCall(c, "parse")
    /\ buf[call[c].buf].kind = "text" /\ ~Gone(p)
    /\ call' = [call EXCEPT ![c].pc = "wlock", ![c].pid = p]
    /\ UNCHANGED <<callFrame, listVars, heap>>

Continue(c) == [call[c] EXCEPT !.pc = "wlock"]  \* mutant: no return after kfree
EndCall(c)  == IdleCall

\* No number, or no process.
RejectPid(c) ==
    /\ InCall(c, "parse")
    /\ Kfree(call[c].buf)
    /\ call' = [call EXCEPT ![c] = EndCall(c)]
    /\ UNCHANGED <<callFrame, listVars>>

WriteLock(c) ==
    /\ InCall(c, "wlock") /\ CanLock
    /\ lock' = c
    /\ ToCall(c, "check")
    /\ UNCHANGED <<callFrame, heap, list, pidOf>>

\* The walk of __register_pid that looks for the pid.
CheckPid(c) ==
    /\ InCall(c, "check")
    /\ ToCall(c, IF call[c].pid \in ListedPids THEN "wunlock" ELSE "add")
    /\ UNCHANGED <<callFrame, listVars, heap>>

\* kmalloc of the block and list_add.
AddPid(c) ==
    /\ InCall(c, "add")
    /\ \E b \in Blocks \ Listed :
        /\ \A x \in Blocks \ Listed : b <= x
        /\ pidOf' = [pidOf EXCEPT ![b] = call[c].pid]
        /\ list' = <<b>> \o list
    /\ granted' = granted \cup ({call[c].pid} \cap alive)
    /\ ToCall(c, "wunlock")
    /\ UNCHANGED <<alive, lock, heap, timer, works, work, modVars, raced, emptied, spilled>>

\* prime_unlock, kfree and the return.
WriteUnlock(c) ==
    /\ InCall(c, "wunlock")
    /\ lock' = Unlocked
    /\ Kfree(call[c].buf)
    /\ call' = [call EXCEPT ![c] = IdleCall]
    /\ UNCHANGED <<callFrame, list, pidOf>>

-----------------------------------------------------------------------------
(* get_status, the file's read (kmlab.c:120-150, 109-115).                  *)

BeginRead(c, b) ==
    /\ InCall(c, "idle") /\ FileUsable
    /\ Kmalloc(b, Answer(c))
    /\ call' = [call EXCEPT ![c] = [IdleCall EXCEPT !.pc = "rlock", !.buf = b]]
    /\ UNCHANGED <<callFrame, listVars>>

ReadLock(c) ==
    /\ InCall(c, "rlock") /\ CanLock
    /\ lock' = c
    /\ call' = [call EXCEPT ![c].pc = "walk", ![c].cur = First]
    /\ UNCHANGED <<callFrame, heap, list, pidOf>>

\* One line of the report.
PrintPid(c) ==
    /\ InCall(c, "walk") /\ call[c].cur # Head0
    /\ call' = [call EXCEPT ![c].seen = Append(@, pidOf[call[c].cur]),
                            ![c].cur = After(@)]
    /\ UNCHANGED <<alive, listVars, free, timer, works, work, modVars, raced, emptied, granted>>

Fits(c) == Len(call[c].seen) < LINES

\* sprintf inside the buffer.
PrintInside(c) ==
    /\ PrintPid(c) /\ Fits(c)
    /\ buf' = [buf EXCEPT ![call[c].buf] = Answer(c)]
    /\ UNCHANGED spilled

\* sprintf past its end.
PrintPast(c) ==
    /\ PrintPid(c) /\ ~Fits(c)
    /\ \E after \in PastEnd(call[c].buf, Garbled) :
          buf' = [after EXCEPT ![call[c].buf] = Answer(c)]
    /\ spilled' = TRUE

ReadUnlock(c) ==
    /\ InCall(c, "walk") /\ call[c].cur = Head0
    /\ lock' = NoOne
    /\ call' = [call EXCEPT ![c].pc = CASE call[c].seen = <<>>     -> "empty"
                                        [] Len(call[c].seen) > LINES -> "rpast"
                                        [] OTHER                     -> "copy",
                            ![c].seen = <<>>]
    /\ UNCHANGED <<callFrame, heap, list, pidOf>>

\* kern_buf[length] = 0 behind the buffer.
EndReport(c) ==
    /\ InCall(c, "rpast")
    /\ buf' \in PastEnd(call[c].buf, Blank)
    /\ spilled' = TRUE
    /\ ToCall(c, "copy")
    /\ UNCHANGED <<alive, listVars, free, timer, works, work, modVars, raced, emptied, granted>>

\* Nothing was printed: the buffer is freed first and printed into afterwards.
FreeEmpty(c) ==
    /\ InCall(c, "empty")
    /\ Kfree(call[c].buf)
    /\ ToCall(c, "message")
    /\ emptied' = TRUE
    /\ UNCHANGED <<alive, timer, works, work, modVars, raced, spilled, granted, listVars>>

PrintMessage(c) ==
    /\ InCall(c, "message")
    /\ buf' = [buf EXCEPT ![call[c].buf] = Answer(c)]
    /\ ToCall(c, "copy")
    /\ UNCHANGED <<callFrame, listVars, free>>

\* A write past the end hits what the kernel needs; or the allocator's link in a freed
\* buffer is overwritten, or it meets a buffer twice in its list.
MemoryBreaks(c) ==
    /\ \/ InCall(c, "wpast") \/ InCall(c, "rpast")
       \/ InCall(c, "walk") /\ call[c].cur # Head0 /\ ~Fits(c)
       \/ (InCall(c, "message") \/ InCall(c, "copy")) /\ call[c].buf \in free
    /\ oops' = "memory"
    /\ UNCHANGED <<modFrame, lock, timer, wq, mod, hist>>

\* copy_to_user, kfree and the return.
CopyOut(c) ==
    /\ InCall(c, "copy")
    /\ Kfree(call[c].buf)
    /\ call' = [call EXCEPT ![c] = IdleCall]
    /\ UNCHANGED <<callFrame, listVars>>

-----------------------------------------------------------------------------
(* The timer and the work queue (kmlab.c:163-196).                          *)

\* Five seconds are over.  They are taken to be longer than kmlab_init.
TimerExpires ==
    /\ oops = "no" /\ timer = "pending" /\ mod # "armed"
    /\ timer' = "running"
    /\ UNCHANGED <<modFrame, lock, modVars, hist>>

NotRearmed == "off"           \* mutant: no mod_timer in timer_handler
Rearmed    == "pending"

\* timer_handler: queue_work and mod_timer.  A queue that is being destroyed drops
\* the work.
TimerHandles ==
    /\ oops = "no" /\ timer = "running"
    /\ \/ wq = "up" /\ works < MaxWork /\ works' = works + 1
       \/ wq = "draining" /\ UNCHANGED works
    /\ timer' = Rearmed
    /\ UNCHANGED <<alive, listVars, heap, call, work, modVars, hist>>

\* Without a queue (alloc_workqueue failed), or with one that is gone.
TimerMissesQueue ==
    /\ oops = "no" /\ timer = "running" /\ wq \in {"none", "destroyed"}
    /\ oops' = IF wq = "none" THEN "noqueue" ELSE "queue"
    /\ UNCHANGED <<modFrame, lock, timer, mod, wq, hist>>

WorkStarts(k) ==
    /\ InWork(k, "idle") /\ works > 0
    /\ works' = works - 1
    /\ work' = [work EXCEPT ![k].pc = "lock"]
    /\ UNCHANGED <<workFrame, listVars>>

\* list_for_each_entry_safe comes to block b: its link is read before it is used.
WalkFrom(b) == [pc |-> IF b = Head0 THEN "unlock" ELSE "walk", cur |-> b, tmp |-> After(b)]

WorkLock(k) ==
    /\ InWork(k, "lock") /\ CanLock
    /\ lock' = k
    /\ work' = [work EXCEPT ![k] = WalkFrom(First)]
    /\ UNCHANGED <<workFrame, list, pidOf, works>>

\* get_cpu_use of the current block's pid.
LookUp(k) ==
    /\ InWork(k, "walk")
    /\ work' = [work EXCEPT ![k] = IF Gone(pidOf[@.cur]) THEN [@ EXCEPT !.pc = "delete"]
                                   ELSE WalkFrom(@.tmp)]
    /\ UNCHANGED <<workFrame, listVars, works>>

\* list_del and kfree of the current block.
DeletePid(k) ==
    /\ InWork(k, "delete")
    /\ list' = IF work[k].cur \in Listed THEN Unlink(work[k].cur) ELSE list
    /\ pidOf' = [pidOf EXCEPT ![work[k].cur] = NoOne]
    /\ work' = [work EXCEPT ![k] = WalkFrom(@.tmp)]
    /\ UNCHANGED <<workFrame, lock, works>>

WorkUnlock(k) ==
    /\ InWork(k, "unlock")
    /\ lock' = NoOne
    /\ work' = [work EXCEPT ![k] = IdleWork]
    /\ UNCHANGED <<workFrame, list, pidOf, works>>

-----------------------------------------------------------------------------
(* kmlab_init (kmlab.c:198-210) and kmlab_exit (kmlab.c:225-240, 214-221).  *)

ToModule(from, to) == InModule(from) /\ mod' = to

CreateFile ==
    ToModule("absent", "proc") /\ UNCHANGED <<modFrame, lock, timer, wq, oops, hist>>

\* mod_timer, then alloc_workqueue, which may fail.
ArmTimer ==
    /\ ToModule("proc", "armed")
    /\ timer' = "pending" /\ wq' \in {"up", "none"}
    /\ UNCHANGED <<modFrame, lock, oops, hist>>

MutexInit ==
    /\ ToModule("armed", "live")
    /\ lock' = NoOne
    /\ oops' = IF lock = NoOne THEN "no" ELSE "mutex"
    /\ UNCHANGED <<modFrame, timer, wq, hist>>

\* proc_remove: no new calls, then it waits for those that are under way.
RemoveFile ==
    ToModule("live", "remove") /\ UNCHANGED <<modFrame, lock, timer, wq, oops, hist>>

FileRemoved ==
    /\ ToModule("remove", "removed")
    /\ \A c \in Callers : call[c].pc = "idle"
    /\ UNCHANGED <<modFrame, lock, timer, wq, oops, hist>>

TimerKept     == timer        \* mutant: del_timer left out
TimerAfterDel == IF timer = "pending" THEN "off" ELSE timer

\* del_timer: a pending timer is off, a running handler runs on.
DelTimer ==
    /\ ToModule("removed", "stopped")
    /\ timer' = TimerAfterDel
    /\ raced' = (timer = "running")
    /\ UNCHANGED <<modFrame, lock, wq, oops, emptied, spilled, granted>>

\* flush_workqueue, whose waiting is part of that of destroy_workqueue: this takes
\* no more work and waits for what there is.
DestroyQueue ==
    /\ ToModule("stopped", "drain")
    /\ wq' = IF wq = "up" THEN "draining" ELSE wq
    /\ UNCHANGED <<modFrame, lock, timer, oops, hist>>

QueueDrained ==
    /\ ToModule("drain", "destroyed")
    /\ works = 0 /\ \A k \in Workers : work[k].pc = "idle"
    /\ wq' = IF wq = "draining" THEN "destroyed" ELSE wq
    /\ UNCHANGED <<modFrame, lock, timer, oops, hist>>

ExitLock ==
    /\ ToModule("destroyed", "freeing") /\ CanLock
    /\ lock' = Rmmod
    /\ UNCHANGED <<modFrame, timer, wq, oops, hist>>

\* __kmlab_exit and prime_unlock.
FreeList ==
    /\ ToModule("freeing", "gone")
    /\ list' = <<>> /\ pidOf' = [b \in Blocks |-> NoOne] /\ lock' = NoOne
    /\ granted' = {}
    /\ UNCHANGED <<alive, heap, call, works, work, timer, wq, oops, raced, emptied, spilled>>

-----------------------------------------------------------------------------
CallStep(c) ==
    \/ (\E p \in Pids : AcceptPid(c, p)) \/ RejectPid(c) \/ WriteLock(c) \/ CheckPid(c) \/ AddPid(c)
    \/ WriteUnlock(c) \/ ReadLock(c) \/ PrintInside(c) \/ ReadUnlock(c)
    \/ FreeEmpty(c) \/ PrintMessage(c) \/ CopyOut(c) \/ EarlyWait(c)
    \/ EndWrite(c) \/ PrintPast(c) \/ EndReport(c) \/ MemoryBreaks(c)

WorkStep(k) ==
    WorkStarts(k) \/ WorkLock(k) \/ LookUp(k) \/ DeletePid(k) \/ WorkUnlock(k)

TimerStep == TimerExpires \/ TimerHandles \/ TimerMissesQueue

ModuleStep ==
    \/ CreateFile \/ ArmTimer \/ MutexInit
    \/ FileRemoved \/ DelTimer \/ DestroyQueue \/ QueueDrained \/ ExitLock \/ FreeList

Next ==
    \/ \E p \in Pids : ProcessEnds(p) \/ ProcessStarts(p)
    \/ \E c \in Callers, b \in Bufs : BeginWrite(c, b) \/ BeginRead(c, b)
    \/ \E c \in Callers : CallStep(c)
    \/ \E k \in Workers : WorkStep(k)
    \/ TimerStep \/ RemoveFile \/ ModuleStep

Spec == Init /\ [][Next]_vars

\* The kernel runs every context that can go on, hands a mutex to one that has
\* waited for it long enough, and lets timers expire.  Nobody has to call the
\* file, to unload the module, or to end.
FairSpec ==
    /\ Spec
    /\ WF_vars(TimerStep) /\ WF_vars(ModuleStep) /\ SF_vars(ExitLock)
    /\ \A c \in Callers : WF_vars(CallStep(c)) /\ SF_vars(WriteLock(c)) /\ SF_vars(ReadLock(c))
    /\ \A k \in Workers : WF_vars(WorkStep(k)) /\ SF_vars(WorkLock(k))

-----------------------------------------------------------------------------
CallPcs == {"idle", "wpast", "parse", "wlock", "check", "add", "wunlock", "rlock",
            "walk", "rpast", "empty", "message", "copy"}
ModSteps == {"absent", "proc", "armed", "live", "remove", "removed", "stopped",
             "drain", "destroyed", "freeing", "gone"}

\* The types, and a block on the list holds a pid.
TypeOK ==
    /\ alive \subseteq Pids /\ granted \subseteq Pids
    /\ list \in Seq(Blocks)
    /\ pidOf \in [Blocks -> Pids \cup {NoOne}]
    /\ \A b \in Listed : pidOf[b] \in Pids
    /\ lock \in Callers \cup Workers \cup {NoOne, Rmmod}
    /\ free \subseteq Bufs
    /\ call \in [Callers -> [pc : CallPcs, buf : Bufs \cup {NoOne}, pid : Pids \cup {NoOne},
                             seen : Seq(Pids \cup {NoOne}), cur : 0 .. BLOCKS]]
    /\ timer \in {"off", "pending", "running"}
    /\ works \in 0 .. MaxWork
    /\ work \in [Workers -> [pc : {"idle", "lock", "walk", "delete", "unlock"},
                             cur : 0 .. BLOCKS, tmp : 0 .. BLOCKS]]
    /\ wq \in {"none", "up", "draining", "destroyed"}
    /\ mod \in ModSteps
    /\ oops \in {"no", "noqueue", "mutex", "queue", "memory"}
    /\ raced \in BOOLEAN /\ emptied \in BOOLEAN /\ spilled \in BOOLEAN

\* No process is registered twice, although two callers may both have found its
\* pid valid (kmlab.c:44-49, 89-96).
NoPidTwice ==
    \A i, j \in 1 .. Len(list) : pidOf[list[i]] = pidOf[list[j]] => i = j

\* The pids from block b to the end of the list.
PidsFrom(b) ==
    IF b = Head0 THEN <<>>
    ELSE [i \in 1 .. Len(list) - IndexOf(b) + 1 |-> pidOf[list[IndexOf(b) + i - 1]]]

\* A walk is never on a block that has been taken off and freed, and a report is
\* the list as it is under the lock (kmlab.c:109-115, 174-184).
WalksAreCurrent ==
    /\ \A c \in Callers : call[c].pc = "walk" =>
          /\ call[c].cur \in Listed \cup {Head0}
          /\ call[c].seen \o PidsFrom(call[c].cur)
                = [i \in 1 .. Len(list) |-> pidOf[list[i]]]
    /\ \A k \in Workers : work[k].pc \in {"walk", "delete"} =>
          work[k].cur \in Listed /\ work[k].tmp = After(work[k].cur)

\* A process whose registration was accepted stays listed as long as it lives,
\* whatever the work handler looked up earlier under the same pid.
RegisteredStaysListed == granted \subseteq ListedPids

\* Unless the timer's handler was running at del_timer (kmlab.c:231), the module
\* leaves nothing behind: no timer, no work, no call, no block; and the handler
\* never meets a queue that has been destroyed.
ExitIsClean ==
    ~raced =>
        /\ oops # "queue"
        /\ mod \in {"destroyed", "freeing", "gone"} =>
              /\ timer = "off" /\ works = 0
              /\ \A k \in Workers : work[k].pc = "idle"
              /\ \A c \in Callers : call[c].pc = "idle"
        /\ mod = "gone" => list = <<>> /\ lock = NoOne /\ free = Bufs

\* A process that has ended is taken off the list at some later expiry of the timer,
\* unless its pid is used again, the module is unloaded or the model has ended.
EndedAreDropped ==
    \A p \in Pids :
        (p \in ListedPids /\ p \notin alive) ~>
            (p \notin ListedPids \/ p \in alive \/ oops # "no" \/ ~FileUsable)

\* rmmod returns: proc_remove, destroy_workqueue and the lock are not waited for
\* without end.
RmmodReturns == (mod = "remove") ~> (mod = "gone" \/ oops # "no")

\* Until a read finds the list empty and frees its buffer twice (kmlab.c:137-148), a
\* call's buffer is its own: it is not free and no other call has it, whatever is
\* written past the end of a buffer; and until something is (kmlab.c:80, 112, 142), it
\* holds what this call put there.
BuffersAreOwn ==
    ~emptied =>
        \A c \in Callers : call[c].buf # NoOne =>
            /\ call[c].buf \notin free
            /\ \A d \in Callers \ {c} : call[d].buf # call[c].buf
            /\ ~spilled => buf[call[c].buf].by = c

\* What a read copies out is what this read printed.
Copied(c) == call[c].pc = "copy" => buf[call[c].buf].by = c

\* Claimed, and not so: a reader gets the list of the registered pids.  It does not when
\* another call writes past the end of its own buffer.
ReadersGetTheList == ~emptied => \A c \in Callers : Copied(c)

\* Claimed, and not so: with no pid on the list a reader is told so.  It is not when the
\* buffer it has freed is another call's by then, nor is then a reader of a list.
ReadersOfNoneAreTold == ~spilled => \A c \in Callers : Copied(c)

\* Claimed, and not so: the timer and the work are stopped before the list is freed.  They
\* are not when del_timer meets a running handler.
StoppedBeforeFreeing ==
    mod \in {"freeing", "gone"} =>
        timer = "off" /\ works = 0 /\ \A k \in Workers : work[k].pc = "idle"

=============================================================================
