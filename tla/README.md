# A verification project for PastWork

The repository collects course projects: the labs of
`Computer_Science-360` (C: a file tree, a shell, a scheduling simulator, a
kernel module, a caching proxy with the csapp library and the Tiny server) and
`CampusSafe` (a Django site for incident reports). This directory holds TLA+
modules of its programs, the TLC configurations that check them, and proofs
checked by TLAPS. Every definition is translated from the source lines that
`PROJECT.json` names under `map`.

Run a configuration with `tlc -config X.cfg M` and a proof module with
`tlapm M.tla`; `PROJECT.json` says which module goes with which configuration
and what is expected. The configurations that it does not list are in section 3.

## 1. Inventory

Paths are relative to `src/`; `lab2/…` means `Computer_Science-360/lab2/…`.

| component | state it keeps | operations | what makes it correct |
|---|---|---|---|
| **Shell**: main loop, `eval`, `do_bgfg`, `waitfg`, handlers (`lab2/tsh.c`) | the signal mask, where the main program and each handler are, children and pending signals in the kernel | read a command; fork, `setpgid`, `execve`; `addjob`; `fg`/`bg`; `waitfg`; SIGCHLD, SIGINT, SIGTSTP, SIGQUIT handlers | one foreground job at most; no command read while there is one; the list agrees with the children; no wakeup lost; every zombie reaped |
| **Job list** (`lab2/tsh.c`) | `jobs[MAXJOBS]`, `nextjid` | `initjobs`, `addjob`, `deletejob`, `maxjid`, `fgpid`, `getjobpid`, `getjobjid` | a slot is used in all fields or none; a pid, and a job id, names one job |
| **Printing helpers** (`lab2/tsh.c:162-238`) | none | convert and write text | – |
| **Proxy cache** (`lab5/proxy.c`) | cache lines, `usedcnt`, `readcnt`, `gtime`, semaphores `mutex` and `w` | `initialize_cache`, `reader`, `writer` | a writer is alone; what a client is sent begins with the object asked for, whole; the least recently used line is evicted; nobody waits for ever |
| **Proxy connections** (`lab5/proxy.c`) | one detached thread per connection, with its request and `object_buf` | `main`, `thread`, `doit`, `parse_request`, `send_to_server` | every connection is served or the process ends |
| **csapp / RIO** (`lab5/csapp.c`, and a copy in `lab5/tiny`) | a read buffer per descriptor (`rio_t`) | `rio_readinitb`, `rio_read`, `rio_readlineb`, `rio_writen`; wrappers that exit | the bytes of the stream, in order, each once, whatever the sizes of the reads |
| **Tiny** (`lab5/tiny/tiny.c`, `cgi-bin/adder.c`) | the connection it serves, its `rio_t`, the CGI child | `main`, `doit`, `read_requesthdrs`, `parse_uri`, `serve_static`, `serve_dynamic`, `clienterror`; adder | each client gets the answer to its own request, all of it; every client is served |
| **Scheduler simulator** (`lab3/scheduler.c`) | the array of processes, the ready queue, the pause queue and the blocked list as linked lists, the running process, the clock | per cycle: `proceedForward`, `execxuteB`, `creation`, `executeR`, `countdown`, under FCFS, RR, "block" (one process at a time) and SJF; `Extra` between passes | no process is lost or in two queues; the order of the chosen algorithm; the printed times add up; every pass ends |
| **Kernel module** (`lab4/kmlab.c`, used by `lab4/userapp.c` and `kmlab_test.sh`) | the list of registration blocks, a buffer per call, `update_timer`, the work queue `wq`, `access_lock`, how far loading and unloading have come | `register_pid`, `get_status`, `timer_handler`, `work_handler`, `kmlab_init`, `kmlab_exit` | a process is listed once; no walk meets a freed block; who was accepted and lives stays listed; who has ended is dropped; unloading returns and leaves nothing behind; a buffer belongs to one call, whatever is written past another |
| **File tree** (`lab1/lab1_hutchins.c`) | a tree of nodes by child and sibling pointers, the current directory | `mkdir`, `rmdir`, `cd`, `create`, `rm`, `pwd`, `ls` | – (it does not compile, see section 6) |
| **Reports** (`CampusSafe/crimoapp/views.py`) | a JSON file shared by all requests | test, load, append, open (which truncates), dump; restart | the file has accepted reports only, once each, in the order filed; none is lost while requests come one by one |
| **Emergency button** (`…/static/crimoapp/script.js`, `alertsend` in `views.py`) | countdown, interval handle and the intervals that tick, positions and POSTs under way | press, release, tick, position, POST, insert | every alert goes back to an unbroken hold of its own |
| **Registration** (`…/forms.py`, `views.py`) | users in the data base | check the name, save, log in | a name belongs to one user |
| models, migrations, settings, templates | – | declarative | – |

### How they interact

* The shell's main program and its handlers share `jobs` and `nextjid`. The
  kernel joins them: `fork` makes a child, a child's stop or death makes SIGCHLD
  pending (signals do not queue), `waitpid` in the handler takes it away, `kill`
  from a handler or from `do_bgfg` reaches the process group of the child.
* The proxy's threads share the cache. `mutex` protects `readcnt`; `w` is held
  by one writer or by all readers together. A hit is found as a reader, and the
  line is touched later as a writer, by its index, when another thread may have
  replaced it. A miss is fetched without any lock. A line that is replaced keeps the end of
  what it held, when that was longer.
* The proxy and Tiny call the csapp wrappers, which end the whole process when a
  system call fails.
* Callers of the kernel module's file and its workers share the list under
  `access_lock`; the timer's handler queues the work; unloading waits for the
  calls, stops the timer, and waits for the work, in this order. The buffers of the calls lie
  in one heap, in which a text that is too long for its buffer ends in another.
* CampusSafe's report requests share one file without a lock. The button's page
  sends its alerts to the same server.

### Which behaviours are hard

Handlers that interrupt the main program, and one another, at any instruction;
SIGCHLDs that merge; a process group that does not exist yet or any more; a
full job list; two readers' and writers' semaphores used in nested fashion; a
cache line used after its lock was given up; the wrap of job ids and time
stamps; list surgery in the scheduler; a timer that re-arms itself while its
module unloads, and a pid that comes back while it is looked up; reads that end
in the middle of a line; a file that goes between `stat` and `open`, or a program between
`stat` and `execve`; texts that are longer than their buffer, or shorter than what the buffer held; a file
truncated before it is rewritten; mouse events in an unexpected order.
`PROJECT.json` lists them as hazards, each at its line, with the properties that
are about it or the reason why there is none.

## 2. The modules

| module | models | extends / uses |
|---|---|---|
| `JobList` | the job list's functions as operators | – |
| `Tsh` | the shell with its handlers, and the kernel around it | `JobList`, `JobControl` |
| `JobControl` | abstract: what the shell promises about its jobs | – |
| `Proxy` | the proxy's threads and the cache | `ObjectCache` |
| `ObjectCache` | abstract: an atomic cache with LRU eviction | – |
| `MCProxy` | sets of requests and the symmetry for TLC | `Proxy` |
| `Scheduler` | one call of `listoutputs`: two passes of an algorithm | `CpuQueue` |
| `CpuQueue` | abstract: the ready queue as a sequence, and one processor | – |
| `MCScheduler` | sets of inputs for TLC | `Scheduler` |
| `Kmlab` | the kernel module, its callers, timer, work queue, loading and unloading | – |
| `MCKmlab` | the symmetry for TLC | `Kmlab` |
| `Rio` | the buffered reader and `rio_writen` | – |
| `LineStream` | abstract: the lines of each connection, in order | – |
| `Tiny` | the Tiny server, its clients, files and CGI program | `Rio`, `LineStream` |
| `MCTiny` | sets of requests and files for TLC | `Tiny` |
| `Reports` | the report requests and their file | – |
| `EmergencyButton` | one page's button | – |
| `CampusSafe` | the page and the server together | `EmergencyButton`, `Reports` |
| `Extrema` | lemmas on smallest and largest elements | – |
| `JobListProofs`, `TshProofs`, `ProxyProofs`, `KmlabProofs`, `TinyProofs`, `CampusSafeProofs`, `SchedulerProofs` | lemmas, inductive invariants, theorems | the modules they are about |

### Tsh

*One step* is the code between two points at which a handler, a child or the
user can make a difference. `main.pc` is where the main program is, `main.pid`,
`main.slot` and `main.cmd` are its locals; `stack` holds the handlers that have
started, the running one last; `chld` and `kbd` are their frames.

| code | in the model |
|---|---|
| `eval` up to `fork` (325-345) | `Fork`; a failed fork is `ForkFails` |
| the child: `setpgid`, `execve` (347-357) | `ChildSetpgid`, `ChildExec` |
| `addjob` with the signals blocked, and the mask restored (358-366) | `AddJob` |
| `do_bgfg` (458-498) | `BgFg`, `ReadPid`, `SendCont`, `Mark`, `ReadArg`: it runs with SIGCHLD enabled, so each read and write of the slot is a step |
| `waitfg` (506-517) | `WaitfgBlock`, `WaitfgTest`, `WaitfgSuspend`, and `Return`, which ends `sigsuspend` |
| `sigchld_handler` (530-562) | `ChldWait` (the `waitpid`), `ChldUpdate`, `ChldUnknown`, `ChldDone` |
| `sigint_handler`, `sigtstp_handler` (569-596) | `KeyLook` (`fgpid`), `KeyKill` (`Kill`) |
| `sigquit_handler`, `quit`, `problem`, `unix_error` | `Sigquit`, `Quit`, `Exit` |
| the kernel | `Deliver` (a pending signal that neither the main program nor its own handler blocks), `Becomes`, `After`, `ChildRuns` |

Left out: `parseline`, commands that only print, messages, and SIGINT that reaches a child
before `execve`, which does nothing there.

### Proxy

A thread's `pc` follows the code: `enter`, `first`, `entered`, `scan`, `send`,
`leave`, `last`, `left` in `reader`; `fetch` in `doit`; `lock`, `touch` or
`name`, `payload`, `stamp`, and `unlock` in `writer`. The two `strcpy`s and the
time stamp of an insertion are separate steps, as are the semaphore operations.
A thread that has finished stands for the next one created. An object is known
by the request that was asked for it, or is `Junk`, the content of an
uninitialized buffer (an empty answer leaves it so); a request is a key (host and
path, what the code compares) and a port (which it does not). Every wrapper that
exits on an error is a step `Exit` that ends all threads.

A line's payload is memory of `MAX_OBJECT_SIZE` parts and the size of the text in
it. `Strcpy` overwrites the parts of the new text and leaves the others, `Send`
gives the client all of them, as `reader` does (207). Hence what is promised of a hit is in two
statements: `ServesWhatWasAsked`, that it begins with the whole object of the key, which
holds; and `SentIsTheObject`, that nothing of another object follows, which does not (`ProxyTail`).
What `strcpy` makes of an answer is a text of any size: a binary
object ends at its first zero byte.

`ObjectCache` has one client per thread, which asks once, then hits and touches
the line it hit, or misses and inserts at most once; so a second insertion or a
touch of another line is no step of it. What the code does and `ObjectCache` therefore allows: a
touch after the line has been given to another key, and a second line for a key that two
clients had both missed.

### Scheduler

The program is sequential; its difficulty is the surgery on three linked lists.
A step is one of the functions that `datapoint` calls, or one turn of a loop in
them, as `pc` says: `proceed`, `wake` (the walk of `execxuteB`, with its local
`presentN`), `create` (the loop of `creation`, with its index `i`), `yield`, `resume`, `pick`,
`park` (the four parts of `executeR`), `count`. `Prime` is the array of the
`countPrime` processes. The ready queue `ready`
keeps `Afront`, `Aback`, `placement` and the links `freshPrime`, because they can
disagree; `pc = "crash"` is a NULL pointer dereferenced by `dsetup`. The pause
queue and the blocked list are sequences: both are only used consistently. The
one trait of the blocked list's links that matters, that a node that has been
removed has no successor, is `AfterRemoval`. Unsigned counters are integers, of
which a negative one is one that has wrapped (`BurstTime` is compared signed,
`CPUBurst` with 0 only).

A number read from `random-numbers` may be any, so a burst is any of `1..B`; the
values drawn at the start and in `Extra` are never used and are not drawn. A
process with `C = 0` is excluded (`CallsAssumption`): under FCFS, RR and "block"
it is taken from the queue and forgotten (line 405), and the simulation does not
end.

The compiled program and the model have been compared on 80 random inputs of
three and four processes with `B = 1` (no choice left) under every algorithm:
finishing times, I/O times and waiting times are the same, and so are the cases
in which the program does not end or crashes.

### Kmlab

The contexts of the kernel are: `Callers` (processes in `write` or `read` of the
proc file), the timer's handler, the work queue's `Workers`, and insmod and rmmod,
which follow one another. A step goes from one point at which another context can
make a difference to the next.

| code | in the model |
|---|---|
| `register_pid` (61-104) | `BeginWrite` (buffer and text), `EndWrite` (the zero behind a text of `MAX_BUF_SIZE` bytes), `AcceptPid` or `RejectPid` (`get_cpu_use` before the lock), `WriteLock`, `CheckPid`, `AddPid`, `WriteUnlock` |
| `get_status` (120-150) | `BeginRead`, `ReadLock`, `PrintInside` and `PrintPast` (a line each), `ReadUnlock`, `EndReport` (the zero behind a report that is too long), `FreeEmpty` and `PrintMessage` (nothing was printed), `CopyOut` |
| `timer_handler` (163-170) | `TimerExpires`, `TimerHandles`, `TimerMissesQueue` |
| `work_handler` (174-196) | `WorkStarts`, `WorkLock`, `LookUp` and `DeletePid` (separate: the process may change in between), `WorkUnlock` |
| `kmlab_init` (198-210) | `CreateFile`, `ArmTimer`, `MutexInit` |
| `kmlab_exit` (225-240) | `RemoveFile`, `FileRemoved`, `DelTimer`, `DestroyQueue`, `QueueDrained`, `ExitLock`, `FreeList` |
| a process ends, its pid is used again | `ProcessEnds`, `ProcessStarts` |

`prime_lock` and `prime_unlock` are not defined in any file; they are taken as the
lock and unlock of the mutex they are given. The list is a sequence of blocks, and a
block that is freed is no longer in it, so that a walk standing on one shows.
`buf` says what each buffer holds and whose that is, and `free` which ones the
allocator may hand out, so that the use of a freed one shows. The processor times and calls
that return before they touch anything shared are left out;
allocations nobody tests succeed. The five seconds of the timer are taken to be
longer than `kmlab_init`. `oops` ends the model: the handler meets no queue
(`alloc_workqueue` has failed) or one that is destroyed, somebody waits for or
holds the mutex before `mutex_init`, or memory breaks.

Of the lengths of texts the model keeps whether they fit. A report of up to `LINES`
lines does; a write may fill its buffer, so that its zero comes behind it (lines
72, 80). What is written past the end changes another call's buffer, or one of no
consequence (`PastEnd`), or what the kernel cannot do without (`MemoryBreaks`). A
zero in another's buffer leaves no number in it (`Blank`), or ends an answer early; a line of
a report leaves some number (`Garbled`); and the writer whose own zero is
overwritten reads on behind its text. That is why `AcceptPid` takes the pid when the text is
parsed, and for any content that is a text.

Three things the code does not keep are exceptions of the properties, by name, and
each has a configuration that shows it.
`raced`: `del_timer` ran while the handler was running (line 231), which then queues
work and re-arms the timer (`KmlabExit`). `emptied`: a read found the list empty and printed
into a freed buffer, lines 137-139 (`KmlabNone`). `spilled`: a call has written past the
end of its buffer (`KmlabPast`). Only what the exception really breaks depends
on it: the list, the walks and the grants do not depend on any, and whose a
buffer is does not depend on `spilled`; only its content does.

### Rio, LineStream and Tiny

`Rio` has the variables of one `rio_t` and the connection's two directions. Its
steps are one `read`, which brings any part of what is there, one byte moved
by `rio_readlineb`, one `write`. EINTR leaves `rio_cnt` at -1, as in the code; Tiny
installs no handler, so this is a fault the library is written for rather than one
Tiny meets. A byte of the model is a word, a CR or an LF.

`LineStream` gives out each connection's bytes a line at a time. The mapping
(`Ahead`) puts what is in the caller's buffer, in `rio_buf` and on the way together.

`Tiny` is `main` and `doit`: `Accept`, `DoRequest` (the request line), `ReadHeaders`
(a turn of its loop), `Stat`, `Write` (one `write` of an answer), `OpenFile`, `Fork`,
`Wait`, `CloseConn`. `rio` keeps its content from one connection to the next, as the
bytes on the stack do, so that a missing reset shows; the `buf` of
`read_requesthdrs` (`hdr`) and the words `sscanf` does not find start with any
content. `Exit` is any wrapper whose call fails, and SIGPIPE, at any point. A client
sends a line at a time and may close at any moment; a file may be removed, empty or
unreadable. Overlong uris, `get_filetype` and the wording of answers are left out.

`Log` stands for what the server's `printf`s have left in the buffer of its stdout,
which `Fork` copies to the child. The child that runs the program loses it with
`execve`; the one that cannot, because the program has gone since `stat`, ends with
`exit(0)` and may flush it to the client (`ChildRuns`; where stdout is a terminal, nothing is held
back). `GetAnswers` says what the answer to a request is: an answer of headers only is
one only for an adder that crashes without its `&`, for a program that has gone, and for a client that has
closed; one with the log is one only for a program that has gone. That there is
none with the log is what `ClientsGetNoLog` says, and it is refuted.

### Reports, EmergencyButton, CampusSafe

A report request is `Begin`, `Test` (`os.path`), `Load`, `OpenForWriting` (the file
is empty from then on) and `Dump`; the history request ends with `ShowHistory`, and
`dashboard` (68-77) loads the file in the same way. The dumps are smaller than Python's buffer and are written when
the file is closed; a dump over one that is as long or longer may leave a file that
cannot be parsed (`Torn`).

`FiledInOrder` says, whatever overlaps or is cut off, that the file, and what any request has
loaded, is a subsequence of the accepted reports. That none is missing
(`FiledReportsStay`) is refuted for two report requests that overlap and, with one thread, for a
restart between truncation and dump. `troubled` is the history of these two, and the last
part of `FiledInOrder` says that there is no third way to lose a report.

The button is one callback per step, with every interval that ticks, because
`clearInterval` clears the one of the latest handle only. `tidy` names what the code
does not survive: a second press while one is held, a release outside of the button,
a press after an alert. `NoAlertUnheld` is `AlertAfterHold` without it, and refuted. `CampusSafe` puts page and server together: `Fetch`,
`PostLost`, `alertsend`, `RestartServer`.

## 3. What the runs check

| run | bounds | shows |
|---|---|---|
| `TshSafety` | 2 children, 2 slots, ctrl-c, ctrl-z, SIGCONT | `TypeOK`, `AtMostOneFG`, `PromptHasNoFG`, `ListedAreChildren`, `ChildrenAreListed`, `HandlerReapsAllListed`, `NoMissedWakeup` |
| `TshRefines` | 3 children, 2 slots | the shell implements `JobControl`, also when the list is full |
| `TshLive` | 2 children, fair | `ZombiesReaped`, `WaitfgReturns` |
| `ProxySafety` | 3 threads, 2 lines, 2 keys, one of them at a second port too, objects of 1 or 2 parts | `TypeOK`, `WriterAlone`, `ServesWhatWasAsked`, `StampsDistinct`, `EvictsOldest`, that the proxy implements `ObjectCache` |
| `ProxyLive` | 3 threads, 1 line, fair | `EveryRequestEnds` |
| `Scheduler` | 3 processes, bursts of 1 to 3, jobs of 1 or 3, arrivals at 0, 1 or 3, M of 0 or 2, all four algorithms | `TypeOK`, `EveryoneSomewhere`, `TimesAddUp`, `NoOverrun`, `WorkConserving`, `LatenessBounded`, `OneAtATimeTogether`, that the queue implements `CpuQueue`, `ListoutputsReturns` |
| `KmlabSafety` | 2 pids, 2 callers, 1 worker, 2 buffers, 2 blocks, 1 queued work, reports of 1 line, from insmod to rmmod | `TypeOK`, `NoPidTwice`, `WalksAreCurrent`, `RegisteredStaysListed`, `ExitIsClean`, `BuffersAreOwn` |
| `KmlabLive` | 1 pid, 1 caller, 2 workers, 2 queued works, every report too long, fair | `EndedAreDropped`, `RmmodReturns` |
| `Tiny` | 2 clients, 7 requests, 2 states of the files, a read buffer of 3 and a line buffer of 5, fair | `TypeOK`, `AnswersOwnRequest`, that the reader implements `LineStream`, `EveryClientServed` |
| `CampusSafe` | 2 threads, 3 reports, 2 presses, a countdown of 3 | `FiledInOrder`, `AlertAfterHold` |
| `SchedulerStuck` | as `Scheduler`, "block" | a finding, below |
| `TshKeys` | 2 children | a finding, below |

Why the bounds are enough to be interesting. Two children are the least with
which SIGCHLDs merge, a foreground job coexists with another one, and a child
ends while the handler deals with its sibling; a third one overflows the list of `TshRefines`; two handlers are the most that a
third can interrupt, and all three nest. `JidBound` only limits forks (no new job
once `nextjid` exceeds it), so that ids stay finite; pids are reused. Three threads make a
reader, a second reader and a writer compete; two threads that miss the same key insert it
twice, which fills the two lines and evicts the other key, and the other key evicts in turn. Objects of two sizes are what lets a
shorter one follow a longer one in a line. `MaxTime`
limits the requests that may move `gtime`; four of them fill both lines, evict,
and touch. Three processes are the least with which a node is taken from the
middle of a queue and with which one of two blocked processes is overlooked; with
jobs of three cycles a process runs several bursts. `TimeBound` stops the clock only
where the program never ends, which is what `SchedulerStuck` is about: what goes on there goes on
without change but for the clocks. For that reason deadlock is not checked in `Scheduler`; `ListoutputsReturns`
says where the program does not stop. Its condition under "block", `BlockCopes`, names the inputs for which
the queues stay in order, and TLC refutes it, or `WorkConserving`, without any one of its parts. The other properties hold under
"block" for all inputs of three processes.

`Kmlab`: two callers register one pid at the same time, or one reads while the other
registers, or writes past its buffer into the other's; the second pid is what a walk
goes on to after a deletion, and the second line a report has no room for. Two workers run together in `KmlabLive`
and, with the safety properties, in `KmlabWorkers`; one caller is enough there, for the workers meet a caller only through the lock. `MaxWork` only delays the timer's handler while the
queue is that long. `Tiny`: the read buffer of three and the
line buffer of five are smaller than the requests, so lines span reads, reads
span lines, and one header line fills the buffer up to its line end; the second client
is the one who may find bytes, or an answer, of the first. `CampusSafe`:
two presses are what re-uses a countdown or overwrites a handle; three reports are
what makes a dump lie over a longer one. `Presses` and `MaxReports` bound these
counters.

What the code does not keep is stated as a property too, and TLC refutes it. `TshKeys` and
`SchedulerStuck` are runs of `PROJECT.json`, whose `findings` quote what the repository says; the
others are further configurations beside them:

| configuration | property | what TLC shows | what the repository says |
|---|---|---|---|
| `TshKeys` | `ShellSurvivesKeys` | ctrl-c before the child has called `setpgid` ends the shell | see `findings` |
| `TshFgNone` | `WaitfgAlwaysReturns` | `fg` on a job that ends before its pid is read: `waitfg(0)` sleeps for ever | "Block until process pid is no longer the foreground process" (`tsh.c:504`) |
| `ProxyTail` | `SentIsTheObject` | a hit on a line that held a longer object sends the end of that one too | "storing local copies of objects from servers then responding to future requests by reading them out of its cache" (`lab5_documentation.pdf`, page 1) |
| `SchedulerStuck` | `SomethingLeftToDo` | under "block" all processes that are left wait in the pause queue, and the program loops for ever | see `findings` |
| `SchedulerOverlap` | `OneAtATime` | under "block", with the arrivals of `input-5`, a second process runs before the first has terminated | `sample_io/output/detailed/uni-output-5-detailed:11`: the others stay ready until the first has terminated |
| `SchedulerCrash` | `NeverCrashes` | under "block" four processes that arrive together end in a NULL pointer | `sample_io/output/normal/uni-output-4`: every process of a list of five finishes |
| `SchedulerLate` | `WokenInTime` | of two processes whose I/O ends in the same cycle one is made ready a cycle late | `fcfs-output-5-detailed:60-61`: both leave in the same cycle |
| `KmlabPast` | `ReadersGetTheList` | a write past the end of its buffer damages a reader's report | "the kernel module must print a list of all the registered PIDs in the system" (`lab4_documentation.pdf`, page 3) |
| `KmlabNone` | `ReadersOfNoneAreTold` | the message for an empty list is printed into a buffer that another call has been given | "No PID registered" (`kmlab.c:139`) |
| `KmlabExit` | `StoppedBeforeFreeing` | the handler that `del_timer` does not wait for re-arms the timer while the list is freed | "need to stop any asynchronous entity running (e.g., timers, workqueues) before deallocating memory structures" (`lab4_documentation.pdf`, page 6) |
| `TinyLog` | `ClientsGetNoLog` | the child of a failed `Execve` sends the client the server's log lines | "Redirect stdout to client", "Run CGI program" (`tiny.c:211-212`) |
| `CampusSafeOverlap` | `FiledReportsStay` | two overlapping requests: the later dump is without the earlier report | "Incident report filed check the Dashboard for more Information" (`report.html:328`) |
| `CampusSafeCrash` | `FiledReportsStay` | a restart between truncation and dump: all reports are gone | the same |
| `CampusSafeUnheld` | `NoAlertUnheld` | a press released outside of the button sends its alert | "Alert canceled button not held long enough." (`script.js:24`) |

`KmlabWorkers` is one more configuration that passes: 2 pids, 1 caller, 2 workers and 2 queued works with
`WalksAreCurrent`, `RegisteredStaysListed` and `ExitIsClean`.

`HandlerReapsAllListed` is the form of the handler's comment ("reaps all available
zombie children") that holds: a child that did not fit on the list ends the
handler's loop, and others stay. `WaitfgReturns` is about the
pids of children: with `fg` on a job that is deleted before its slot is marked, an empty slot is
marked FG and `waitfg(0)` sleeps for ever, because 0 is also what `fgpid` returns when there is
no foreground job (`TshFgNone`). `NoMissedWakeup` therefore speaks of a foreground job that is there.
`LatenessBounded` and `WokenInTime` are about the same walk of the blocked list: no process is missed for
`countPrime` cycles or more, and one may be missed for a cycle, which the sample output for the same
situation (`fcfs-output-5`, cycles 54 and 55) does not show. What `NoOverrun` says of the unsigned
counters is said of `CPUBurst` and `quantum`; `BurstTime` does wrap while a process is missed.

The lists are shorter than `MAXJOBS` (16); the code does the same things at any size.

## 4. Fairness

`Tsh`: strong fairness of the main program's steps, of each handler and of the
delivery of each signal. They are all done by one process (or by the kernel on
its return to it), which the scheduler runs again and again; strong, because a
key pressed repeatedly may interrupt, that is disable, the code below without
end, and between two presses the processor does run it. A forked child reaches
`execve` (weak fairness of `ChildSetpgid` and `ChildExec`). Nothing obliges the
user to type, nor a child to exit or stop.

`Proxy`: weak fairness of each thread's own steps and of the end server, which
answers or fails. It is not assumed that a semaphore is fair. Hence
`EveryRequestEnds` is conditional on `ConnectionsStop`: readers that overlap for
ever keep `readcnt` above zero and starve writers, and every request, hit or
miss, ends as a writer.

`Scheduler`: weak fairness of the loop of `listoutputs` as a whole: the program
is one thread and never waits.

`Kmlab`: weak fairness of each caller, worker, the timer and of the module's steps: the kernel
runs what can run, and timers expire. Strong fairness of the steps that take
`access_lock`: a kernel mutex is handed to one that has waited for it long enough.
Nobody has to call the file, to unload the module, or to end.

`Tiny`: weak fairness of the server, its reader and its child, and of clients
sending what they mean to. Closing, removing files and failing calls are not
obliged. `EveryClientServed` excepts a server that is left in its header lines
for ever (`EndlessHeaders`): lines without CR, and a connection that ends before its
blank line, keep it there, and nobody else is served.

`Reports` and `EmergencyButton` state safety only: neither code promises that
a request ends.

## 5. What is proved

For every set of processes, every list length, every set of threads, requests,
clients and callers, and every size of the caches and buffers. The named `ASSUME`s
are all that is used:

* the constants are natural numbers, positive where the code declares an array of that
  length or counts down from it (`MAXJOBSAssumption`, `LinesAssumption`,
  `BoundsAssumption`, `RioAssumption`, `HoldAssumption`, `ReportsAssumption`);
* a scheduled process has positive `B` and `C` (`CallsAssumption`); the number of processes and the
  clock's bound are natural numbers (`CountAssumption`, `TimeBoundAssumption`);
* there are finitely many pids (`PidsFinite`: the kernel's `pid_max`) and threads
  (`ThreadsAssumption`), pids are not 0 (`PidsAssumption`);
* the model values are what they stand for: no request is the junk of an
  uninitialized buffer (`RequestsAssumption`, `NoneAssumption`), callers, workers and
  `rmmod` are different contexts (`ContextsAssumption`), a request is bytes, and its first line
  is what the answer is for (`TinyAssumption`).

| theorem | says |
|---|---|
| `TshProofs!TypeCorrect` | `Spec => []TypeOK` |
| `TshProofs!AtMostOneForeground` | `Spec => []AtMostOneFG` |
| `TshProofs!NoForegroundAtPrompt` | `Spec => []PromptHasNoFG` |
| `TshProofs!NoWakeupIsMissed` | `Spec => []NoMissedWakeup` |
| `TshProofs!ListedJobsAreChildren` | `Spec => []ListedAreChildren` |
| `TshProofs!AllChildrenAreListed` | `Spec => []ChildrenAreListed` |
| `TshProofs!HandlerForgetsNoChild` | `Spec => []HandlerReapsAllListed` |
| `TshProofs!ShellImplementsJobControl` | `Spec => ImplementsJobControl` |
| `ProxyProofs!TypeCorrect` | `Spec => []TypeOK` |
| `ProxyProofs!WriterIsAlone` | `Spec => []WriterAlone` |
| `ProxyProofs!ServedWhatWasAsked` | `Spec => []ServesWhatWasAsked` |
| `ProxyProofs!UsesAreDistinct` | `Spec => []StampsDistinct` |
| `ProxyProofs!OnlyTheOldestIsEvicted` | `Spec => EvictsOldest` |
| `ProxyProofs!ProxyImplementsObjectCache` | `Spec => ImplementsObjectCache` |
| `KmlabProofs!TypeCorrect` | `Spec => []TypeOK` |
| `KmlabProofs!NoPidIsListedTwice` | `Spec => []NoPidTwice` |
| `KmlabProofs!WalksStayCurrent` | `Spec => []WalksAreCurrent` |
| `KmlabProofs!RegisteredAreListed` | `Spec => []RegisteredStaysListed` |
| `KmlabProofs!ExitLeavesNothing` | `Spec => []ExitIsClean` |
| `KmlabProofs!BuffersStayOwn` | `Spec => []BuffersAreOwn` |
| `TinyProofs!TypeCorrect` | `Spec => []TypeOK` |
| `TinyProofs!ReaderImplementsLineStream` | `Spec => ImplementsLineStream` |
| `TinyProofs!EachClientItsAnswer` | `Spec => []AnswersOwnRequest` |
| `CampusSafeProofs!AlertsComeFromHolds` | `Spec => []AlertAfterHold` |
| `CampusSafeProofs!FiledReportsInOrder` | `Spec => []FiledInOrder` |
| `SchedulerProofs!SchedulerTypes` | `Spec => []TypeOK` |
| `SchedulerProofs!TimesAlwaysAddUp` | `Spec => []TimesAddUp` |
| `SchedulerProofs!NeverOverrun` | `Spec => []NoOverrun` |
| `SchedulerProofs!LatenessIsBounded` | `Spec => []LatenessBounded` |
| `SchedulerProofs!NobodyIsLost` | `Spec => [](selectAlg # BLOCK => EveryoneSomewhere)` |
| `SchedulerProofs!ProcessorNeverIdles` | `Spec => [](selectAlg # BLOCK => WorkConserving)` |
| `SchedulerProofs!SchedulerImplementsCpuQueue` | `Spec /\ selectAlg # BLOCK => ImplementsCpuQueue` |
| `SchedulerProofs!OneRunsAtATime` | `Spec => []OneAtATimeTogether` |

The arguments for `Tsh`:

* **FGInv** (at most one foreground job, none at the prompt). That at most one slot is
  FG is not inductive: nothing in it keeps `addjob` from making a second. `FGInv`
  adds that outside of `arg` and `waitfg` no slot is FG, that `do_bgfg` has marked
  only its own slot, and that in `waitfg` the FG slot has the pid waited for; then
  `waitfg` returning proves that no slot is FG any more. The handlers only ever
  take the state FG away.
* **WakeInv**. `NoMissedWakeup` says of a sleeping shell that has a pid to wait for that a job with it is in the
  foreground. The invariant adds that SIGCHLD's
  handler is not running while SIGCHLD is blocked (`forked`, `test`, `tosleep`) and
  that the test still holds at `tosleep`. While the shell is asleep the list changes
  only inside a handler, and the last handler's return wakes it. The test compares numbers, so
  for the pid 0 it says nothing of a job; that `fgpid` returns any other number only for a slot marked FG
  is what makes it one.
* **ChildInv**. `ListedAreChildren` needs that a stop to be reported is one of an
  unreaped child, that the handler's frame is in use only while the handler is on
  the stack, and that a forked child, not yet listed, cannot be reaped or be on
  the list: it is here that blocking SIGCHLD around `fork` and `addjob` is used.
* **ListInv**. While the list has a slot for every pid, a child that is not listed has
  just been forked, and `addjob` finds a free slot for it: the listed jobs are different pids, so
  with a pid that is not among them there are fewer of them than slots (a pigeonhole
  argument, lemma `RoomForOneMore`). `HandlerReapsAllListed` is inductive with it: only then is
  what the handler's `waitpid` returns a listed job, so that the loop goes on.
* **The refinement of `JobControl`**. A fork, a successful `bg` or `fg` and the end of
  the shell are its `Read`; `addjob` launches the job, or changes nothing when the list is full;
  marking the slot resumes the job; the update in SIGCHLD's handler stops or ends it; `waitfg`'s
  test is where the foreground command is done. Every other step leaves the jobs as they are. The abstract jobs are a
  function of the slots, so the lemmas compute what one changed slot does to them.

For `Proxy`:

* **SemInv**. `MutexInv`: `mutex` is 1 exactly if no thread is
  between its `P` and its `V`. `CountInv`: `readcnt` is the number of counted
  readers; a thread about to take `w` is the only one counted, a thread about to
  give it back finds none. `WInv`: `w` is 0 exactly if there is a writer or a
  reader for whom it is held, and never both. `WriterAlone` is a part of `WInv`;
  the types of `readcnt`, `mutex` and `w` follow too, so `TypeOK` and `SemInv`
  are proved together.
* **CacheInv**. `LineInv`: a thread's buffer holds its own object or junk, and the
  line of a thread that sends, or is between the two copies of an insertion, bears
  the thread's key. `PayloadInv`: the text in every payload, as far as its size, is a whole object of its line's name, except
  on a line whose writer is between the two copies. With `SemInv` nobody reads then. What is behind the text is not
  in the invariant: `ServesWhatWasAsked` says nothing of it.
* **UseInv**. `StampInv`: the lines in use have distinct stamps up to `gtime`, and
  `gtime` itself is a stamp only while a writer is about to tick. `UseInvOf`: the line a thread found is in
  use and stays so, the one it fills is the next free line or one in use. So a
  write gives its line a stamp that no other has, and the line with the least stamp, which a full
  cache gives up, is one.
* **The refinement of `ObjectCache`**. The abstract lines are the lines in use, with the one that is
  being written already finished. An insertion takes effect at its first `strcpy`: it is
  `Insert` or `Replace` there, and the second copy, the stamp and the
  tick are stutters. This is sound only because the writer is alone (`SemInv`) and because the
  stamp that is to be written is the clock of the first copy. A hit takes effect when it is sent, a touch
  when the stamp is written. An abstract object is the text of a payload, so that two payloads that differ
  behind it are the same line, and `StrcpyMakes` gives the text of what was copied.

For `Kmlab`, one inductive invariant `KInv`, of six parts, for as long as the mutex
has not been used before it was initialized (`oops`):

* **LockInv**: whoever is at a locked place holds the lock. **ListInv**: the list names a block once
  and a pid once, a block that a caller has allocated for a pid is not on it, and a walk
  stands on a listed block and has seen the list up to it. **GrantInv**: a pid that was
  accepted is alive and listed, and the handler that has decided to delete a block is not at one of theirs.
* **HeapInv**: allocated buffers are those of calls, each of one call, until a read of an empty list has
  freed its buffer twice; this is not touched by what is written past a buffer, which changes contents only.
  That the content is the call's own needs that nothing has been (`spilled`). **ExitInv**: what `rmmod` has
  already stopped stays stopped, from `proc_remove` on, unless `del_timer` met the
  running handler (`raced`).

For `Tiny`:

* **The refinement of `LineStream`**: bytes ahead of the reader are those in `rio_buf` and
  those in the kernel's. A client that sends or closes is `Send` and `End`, the
  return of `rio_readlineb` is `Give`, closing the connection is `Drop`; every `read`, however much of
  the buffer it fills, and every copied byte are stutters. Needed are the bounds of
  `rio_cnt` and `rio_bufptr`, which are also `TypeOK`.
* **FreshInv** and **AnswerInv**: an untouched connection still has its whole request ahead, so the first
  line read from it is its request line; what a client has got and what the
  server still has to write are together an answer to that line, and nobody but the connection
  served, or served before, has got anything. Which answers there are (`GetAnswers`) grows while
  files go and clients close, and never shrinks (`AnswersGrow`): an answer that was right stays so. The child
  adds to the answer of its own connection only, because the server waits for it.

For `CampusSafe`: while presses do not overlap there is at most the interval of the
handle, and what the countdown has lost is the time the button was held, so an alert
is posted after `HOLD` (**AlertInv**). **ReportInv**: the file and what each request has loaded are
subsequences of the accepted reports. A request writes what it loaded with its own report
behind, and at the same moment this report becomes the last accepted one, so the
new file is a subsequence again (`SubsequenceGrows`), whatever others have written
in between. No case is excluded. That none is missing without trouble is the part **AllIsKept**: there is one report
request at a time, the one about to write has loaded everything, and while it writes it keeps what the empty file has not.

For `Scheduler`, one inductive invariant `IInv`, for all four algorithms (`selectAlg` never changes):

* **Seats**: the paused are ready, once each, a process runs exactly if it is `selection`, and it is
  blocked exactly if it is on the blocked list. **Counted**: `placement` is the number of processes
  that wait (`Waiting`: ready, and not paused). This holds whatever has become of the pointers.
* **Order**. Either the pointers are the sequence of those that wait (**Linked**): they represent (`Represents`)
  what is read off by following `freshPrime` from `Afront`, the last node is `Aback`, the nodes are
  distinct, all others have no link. The lemmas `QsetupAppends`, `dsetupRemoves` and `UnlinkRemoves` say
  that the functions on the pointers do what the operations on the sequence do. Or, under "block" only,
  they have come apart, in one of two ways: `pauseQue` has just moved `Afront` to the last node, past
  others (**Slipped**), and one turn of the loop later there is no node at the front although
  `placement` is not 0 (**Stuck**). Then `Qsetup` adds behind a node that is not in the queue, and the
  queue stays `Stuck` until it is asked for its first (a NULL pointer) or the pass ends. Without
  these two the invariant is false under "block"; with them a process that is parked or selected
  is always one that waits, which is all that the times, the bursts and the lateness need.
* Except under "block" **Linked** holds and nobody is paused, so everyone is in the place that the condition
  names (`Places`), which is `EveryoneSomewhere`.
* **Arrivals** and **TimesAddUp**. That the times add up is not inductive alone: a process that has not arrived
  must do so when the clock shows its `A`. `Arrivals` says which processes the loop of
  `creation` has been past (`Visited`) in this cycle.
* **Bursts**: a burst is at most what the process still needs, so it ends with the process or before; who is
  ready or blocked has not used up its `C`, so the next burst is positive.
* **Lateness**: the position of a blocked process in the list and the cycles it is late are together at most
  `countPrime`, because a walk that misses it has taken away one ahead of it. While the walk goes on, it
  has not yet passed a process that is due. The blocked list is no longer than `countPrime`.
* **Counters** counts arrived and terminated processes, for the types and for the end of a pass.
* **The refinement of `CpuQueue`**: `Qsetup` (in the walk and in `creation`) is `Join`, taking the first or the
  shortest is `RunFirst` or `RunShortest`, `Terminate` and `insertB` are `Leave`, an expired quantum is `Preempt`,
  `countdown` is `Run`, and `Extra` between the passes is `Restart`. All other steps are stutters.
* **OneAtATime** needs a second invariant, `OInv`, on top of `IInv`, for arrivals in the same cycle (`Together`).
  `Alone`: at most one process has begun (`Began`: it has been given the processor and has not
  terminated). It is kept because `executeR` selects only when nobody has begun, or the one process ready is the one
  that has, and that is a question of who is ready at each part of `datapoint`:
  nobody has arrived (`Before`); or all arrive, and the first is still at the front (`First`); or the queue has come apart,
  and nobody is selected from it any more; or it is a round of the pause queue (`Rounds`). From one round to the next
  at most one process is ready that has not begun (`Spare`), left there because the loop of `executeR` parks half
  of the queue. It is not selected in the owner's place: it waits only while the owner runs, the owner's
  I/O takes a cycle at least, and before the owner is ready again `executeR` parks it; if the owner
  terminates first, nobody has begun. `Ran` adds that who leaves the processor has had a cycle of it.
  TLC has checked `OInv` with one to five processes.

`JobListProofs` has the lemmas on `addjob`, `deletejob`, `maxjid` and the scans;
`Extrema` that the scans' minima and maxima exist.

Only model-checked:

* liveness (`ZombiesReaped`, `WaitfgReturns`, `EveryRequestEnds`, `ListoutputsReturns`,
  `EndedAreDropped`, `RmmodReturns`, `EveryClientServed`): fairness is beyond the prover;
* `EveryoneSomewhere` and the refinement of `CpuQueue` under "block", for three processes and any arrivals;
  with four they fail, when `pauseQue` loses some of them. `WorkConserving` under "block", for inputs of
  three processes that `BlockCopes` names: with others it fails;
* what is refuted (section 3) has no theorem. In particular `OneAtATime` without `Together` is false for three processes
  that arrive one after the other, and for four of which three arrive together, because half of the ready queue is
  not parked.

## 6. Not modelled

Not modelled, and why:

* `lab1/lab1_hutchins.c`: it is rejected by the compiler (`dirname` and `basename`
  are declared again as arrays, `mkdir`, `rmdir` and the other commands are used in
  a table before they are declared), so there is no program whose states a model could have.
* Pure text work: the shell's printing helpers and `parseline`, the proxy's and
  Tiny's string handling beyond its outcomes, `get_filetype`.
* `rio_readn`, `rio_readnb`, `open_clientfd`, `open_listenfd` and the wrappers no modelled
  step calls.
* The inside of a fetch of the proxy, which is one step. Its outcomes are: the object, or its beginning up to a zero
  byte; whatever `object_buf` held, when the answer is empty; an answer of `MAX_OBJECT_SIZE` or more, which goes
  uncached, or has overrun `object_buf` (line 96, before the test in 99) so far that the process ends;
  a failed call, which ends the process. The bytes between `object_buf` and the stack's canary, which a slightly
  larger answer overwrites first, are not modelled, and neither are those that more than 20 headers overwrite
  behind `headers` (line 128), except as another request or the end of the process.
* The shell's test driver; Django's forms (the data base's unique index, outside of the
  repository, decides between two registrations), models, settings and templates.

Some hazards in `PROJECT.json` have no property, each with a note why: the code has them, and the model
takes them. Of these the repository makes no statement that they break: a repeated job id after the
wrap of `nextjid` (`tsh.c:646`); readers that starve the writers (`proxy.c:212`); a touch of a line that
another key has by then (`proxy.c:87`); the port, which is not part of the key (`proxy.c:83`); an object with a
zero byte, one that is too large, and an empty one (`proxy.c:96`); and calls during `insmod`
(`kmlab.c:205`). The freed buffer of a read of an empty list (`kmlab.c:138`) is what `KmlabNone` shows.
