-------------------------------- MODULE Tsh --------------------------------
(***************************************************************************)
(* The shell of Computer_Science-360/lab2/tsh.c: its read/eval loop, the   *)
(* three signal handlers that interrupt it, and the part of the kernel     *)
(* they talk to (children, their stops and deaths, pending signals).       *)
(*                                                                         *)
(* One thread of control: the main program runs when no handler is on the  *)
(* stack, otherwise the handler on top of the stack does.  A handler       *)
(* blocks its own signal only (sa_mask is empty, tsh.c:799), so handlers   *)
(* of different signals nest.  A step is the code between two points at    *)
(* which a handler, a child or the user can make a difference.             *)
(*                                                                         *)
(* A child is alone in its process group.  The commands that only print    *)
(* (jobs, a blank line, an argument that names no job) are left out.       *)
(***************************************************************************)
EXTENDS Sequences, FiniteSets, JobList

CONSTANTS
    Pids,       \* process ids the kernel may hand out, positive
    Outside,    \* signals from outside: ctrl-c ("INT") and ctrl-z ("TSTP") for
                \* the shell, "CONT" for a stopped child
    JidBound    \* bound of the model: no fork once nextjid exceeds it

ASSUME PidsAssumption == Pids \subseteq Nat \ {0}
ASSUME PidsFinite == IsFiniteSet(Pids)          \* the kernel's pid_max
ASSUME OutsideAssumption == Outside \subseteq {"INT", "TSTP", "CONT"}
ASSUME JidBoundAssumption == JidBound \in Nat

VARIABLES
    proc,       \* state of each process, as the kernel knows it
    unwaited,   \* stopped children whose stop waitpid has not yet reported
    pend,       \* signals pending for the shell; a set: they do not queue
    jobs,       \* the job list
    nextjid,    \* next job id to allocate
    main,       \* the main program: where it is and its locals
    chld,       \* the frame of sigchld_handler
    kbd,        \* the frames of sigint_handler and sigtstp_handler
    stack       \* signals whose handlers have started, the running one last

kernelVars == <<proc, unwaited, pend>>
listVars   == <<jobs, nextjid>>
frameVars  == <<chld, kbd, stack>>
vars       == <<proc, unwaited, pend, jobs, nextjid, main, chld, kbd, stack>>

Keys    == {"INT", "TSTP"}
Signals == Keys \cup {"CHLD"}

\* forked: before setpgid; grouped: before execve, with the shell's handlers,
\* that find no foreground job in the child's copy of the list; doomed:
\* stopped with a SIGINT that takes effect once the process continues.
Stopped    == {"stopped", "doomed"}
Zombie     == {"exited", "signaled"}
ProcStates == {"free", "forked", "grouped", "running"} \cup Stopped \cup Zombie

Dead    == {"quit", "error", "problem"}
MainPcs == {"prompt", "forked", "cont", "kill", "mark", "arg",
            "waitfg", "test", "tosleep", "asleep"} \cup Dead

AtPrompt == [pc |-> "prompt", pid |-> 0, slot |-> 0, cmd |-> "BG"]
NoChld   == [pc |-> "idle", pid |-> 0, stat |-> "exited"]
NoKey    == [pc |-> "idle", pid |-> 0]

Init ==
    /\ proc = [p \in Pids |-> "free"]
    /\ unwaited = {}
    /\ pend = {}
    /\ jobs = InitJobs
    /\ nextjid = 1
    /\ main = AtPrompt
    /\ chld = NoChld
    /\ kbd = [s \in Keys |-> NoKey]
    /\ stack = <<>>

Alive       == main.pc \notin Dead
MainAt(pc)  == stack = <<>> /\ main.pc = pc
OnTop(s)    == Alive /\ stack # <<>> /\ stack[Len(stack)] = s
Started     == {stack[i] : i \in DOMAIN stack}

-----------------------------------------------------------------------------
(* The kernel. *)

\* A child changes state: SIGCHLD goes to the shell when it stops, continues
\* or dies, and only the latest stop can be waited for.
Becomes(pid, new) ==
    /\ proc' = [proc EXCEPT ![pid] = new]
    /\ unwaited' = CASE new = "stopped" -> unwaited \cup {pid}
                     [] new = "doomed"  -> unwaited
                     [] OTHER           -> unwaited \ {pid}
    /\ pend' = IF new = "doomed" THEN pend ELSE pend \cup {"CHLD"}

\* What a signal makes of a process with the default dispositions.
After(st, sig) ==
    CASE sig = "INT"  /\ st = "running" -> "signaled"
      [] sig = "INT"  /\ st = "stopped" -> "doomed"
      [] sig = "TSTP" /\ st = "running" -> "stopped"
      [] sig = "CONT" /\ st = "stopped" -> "running"
      [] sig = "CONT" /\ st = "doomed"  -> "signaled"
      [] OTHER                          -> st

\* Kill(-pid, sig) of tsh.c:154-160. kill(-0, ...) reaches the shell's own
\* group, where SIGCONT has no effect. A group that does not exist makes kill
\* fail, and problem() then ends the shell with _exit.
GroupExists(pid) == pid = 0 \/ proc[pid] \notin {"free", "forked"}

Kill(pid, sig) ==
    IF pid = 0 \/ After(proc[pid], sig) = proc[pid]
    THEN UNCHANGED kernelVars
    ELSE Becomes(pid, After(proc[pid], sig))

\* The shell ends wherever it is, and its stack is gone.
Exit(pc) ==
    /\ main' = [AtPrompt EXCEPT !.pc = pc]
    /\ chld' = NoChld
    /\ kbd' = [s \in Keys |-> NoKey]
    /\ stack' = <<>>
    /\ UNCHANGED <<kernelVars, listVars>>

\* eval's child (tsh.c:347-357): setpgid, then execve or the message and exit.
ChildSetpgid(pid) ==
    /\ proc[pid] = "forked"
    /\ proc' = [proc EXCEPT ![pid] = "grouped"]
    /\ UNCHANGED <<unwaited, pend>>

ChildExec(pid) ==
    /\ proc[pid] = "grouped"
    /\ \/ proc' = [proc EXCEPT ![pid] = "running"] /\ UNCHANGED <<unwaited, pend>>
       \/ Becomes(pid, "exited")

\* The program in the child exits, dies of a signal that is not the shell's,
\* stops itself (mystop.c), or is continued from outside.
ChildRuns(pid) ==
    \/ proc[pid] = "running" /\ \E new \in {"exited", "signaled", "stopped"} :
                                    Becomes(pid, new)
    \/ "CONT" \in Outside /\ proc[pid] \in Stopped /\ Becomes(pid, After(proc[pid], "CONT"))

Child(pid) ==
    /\ Alive
    /\ ChildSetpgid(pid) \/ ChildExec(pid) \/ ChildRuns(pid)
    /\ UNCHANGED <<listVars, main, frameVars>>

\* ctrl-c or ctrl-z at the terminal, or the same signal from another process.
Press(s) ==
    /\ Alive
    /\ s \in Outside
    /\ pend' = pend \cup {s}
    /\ UNCHANGED <<proc, unwaited, listVars, main, frameVars>>

\* SIGCHLD is blocked from before the fork until the job is listed
\* (tsh.c:343-361), and in waitfg except inside sigsuspend (tsh.c:511-515).
BlockedNotAroundFork == IF main.pc \in {"test", "tosleep"} THEN {"CHLD"} ELSE {}    \* mutant
BlockedNotInWaitfg   == IF main.pc = "forked" THEN {"CHLD"} ELSE {}                 \* mutant
BlockedByMain == IF main.pc \in {"forked", "test", "tosleep"} THEN {"CHLD"} ELSE {}

Deliver(s) ==
    /\ Alive
    /\ s \in pend \ (Started \cup BlockedByMain)
    /\ pend' = pend \ {s}
    /\ stack' = Append(stack, s)
    /\ IF s = "CHLD"
       THEN chld' = [NoChld EXCEPT !.pc = "wait"] /\ UNCHANGED kbd
       ELSE kbd' = [kbd EXCEPT ![s].pc = "look"] /\ UNCHANGED chld
    /\ UNCHANGED <<proc, unwaited, listVars, main>>

\* The running handler returns; sigsuspend returns with the last of them.
ReturnFromWaitfg ==           \* mutant: waitfg tests once, with if instead of while
    /\ stack' = SubSeq(stack, 1, Len(stack) - 1)
    /\ main' = IF Len(stack) = 1 /\ main.pc = "asleep" THEN AtPrompt ELSE main

Return ==
    /\ stack' = SubSeq(stack, 1, Len(stack) - 1)
    /\ main' = IF Len(stack) = 1 /\ main.pc = "asleep"
               THEN [main EXCEPT !.pc = "test"] ELSE main

-----------------------------------------------------------------------------
(* sigchld_handler (tsh.c:530-562). *)

Reportable == {p \in Pids : proc[p] \in Zombie \/ p \in unwaited}

\* waitpid(-1, &Cstat, WNOHANG | WUNTRACED) with a child to report.
ChldWait(pid) ==
    /\ OnTop("CHLD") /\ chld.pc = "wait"
    /\ pid \in Reportable
    /\ proc' = [proc EXCEPT ![pid] = IF @ \in Zombie THEN "free" ELSE @]
    /\ unwaited' = unwaited \ {pid}
    /\ chld' = [pc |-> "update", pid |-> pid,
                stat |-> IF proc[pid] \in Zombie THEN proc[pid] ELSE "stopped"]
    /\ UNCHANGED <<pend, listVars, main, kbd, stack>>

\* waitpid with nothing to report.
ChldDone ==
    /\ OnTop("CHLD") /\ chld.pc = "wait"
    /\ Reportable = {}
    /\ chld' = NoChld
    /\ Return
    /\ UNCHANGED <<kernelVars, listVars, kbd>>

\* A child that is not on the list ends the handler (tsh.c:538-541).
ChldUnknown ==
    /\ OnTop("CHLD") /\ chld.pc = "update"
    /\ SlotsOfPid(jobs, chld.pid) = {}
    /\ chld' = NoChld
    /\ Return
    /\ UNCHANGED <<kernelVars, listVars, kbd>>

ChldUpdateOnce ==             \* mutant: one child per signal, if instead of while
    /\ OnTop("CHLD") /\ chld.pc = "update"
    /\ jobs' = IF chld.stat = "stopped"
               THEN [i \in Slots |-> IF jobs[i].pid = chld.pid
                                     THEN [jobs[i] EXCEPT !.state = "ST"] ELSE jobs[i]]
               ELSE JobsAfterDelete(jobs, chld.pid)
    /\ chld' = NoChld
    /\ Return
    /\ UNCHANGED <<kernelVars, nextjid, kbd>>

ChldUpdateDropsStopped ==     \* mutant: a stopped job is deleted like an ended one
    /\ OnTop("CHLD") /\ chld.pc = "update"
    /\ jobs' = JobsAfterDelete(jobs, chld.pid)
    /\ chld' = [chld EXCEPT !.pc = "wait"]
    /\ UNCHANGED <<kernelVars, nextjid, main, kbd, stack>>

\* Otherwise the job is marked stopped or deleted.
ChldUpdate ==
    /\ OnTop("CHLD") /\ chld.pc = "update"
    /\ SlotsOfPid(jobs, chld.pid) # {}
    /\ LET hand == Min(SlotsOfPid(jobs, chld.pid)) IN
       /\ IF chld.stat = "stopped"
          THEN /\ jobs' = [jobs EXCEPT ![hand].state = "ST"]
               /\ UNCHANGED nextjid
          ELSE /\ jobs' = JobsAfterDelete(jobs, chld.pid)
               /\ nextjid' = NextJidAfterDelete(jobs, nextjid, chld.pid)
       /\ chld' = [chld EXCEPT !.pc = "wait"]
    /\ UNCHANGED <<kernelVars, main, kbd, stack>>

(* sigint_handler and sigtstp_handler (tsh.c:569-596). *)

KeyLook(s) ==
    /\ OnTop(s) /\ kbd[s].pc = "look"
    /\ IF FgPid(jobs) > 0
       THEN /\ kbd' = [kbd EXCEPT ![s] = [pc |-> "kill", pid |-> FgPid(jobs)]]
            /\ UNCHANGED <<stack, main>>
       ELSE kbd' = [kbd EXCEPT ![s] = NoKey] /\ Return
    /\ UNCHANGED <<kernelVars, listVars, chld>>

KeyKill(s) ==
    /\ OnTop(s) /\ kbd[s].pc = "kill"
    /\ IF GroupExists(kbd[s].pid)
       THEN /\ Kill(kbd[s].pid, s)
            /\ kbd' = [kbd EXCEPT ![s] = NoKey]
            /\ Return
            /\ UNCHANGED <<listVars, chld>>
       ELSE Exit("problem")

ChldHandler == (\E pid \in Pids : ChldWait(pid)) \/ ChldDone \/ ChldUnknown \/ ChldUpdate
KeyHandler(s) == KeyLook(s) \/ KeyKill(s)

-----------------------------------------------------------------------------
(* The main program: main, eval, do_bgfg, waitfg. *)

Goto(pc) == main' = [main EXCEPT !.pc = pc]

\* quit or end of input at the prompt.
Quit ==
    /\ MainAt("prompt")
    /\ Exit("quit")

\* sigquit_handler (tsh.c:811-815) exits wherever it strikes.
Sigquit ==
    /\ Alive
    /\ Exit("quit")

\* eval of a command that is not built in, up to the return of fork.
Fork(pid, cmd) ==
    /\ MainAt("prompt")
    /\ nextjid <= JidBound
    /\ proc[pid] = "free"
    /\ proc' = [proc EXCEPT ![pid] = "forked"]
    /\ main' = [AtPrompt EXCEPT !.pc = "forked", !.pid = pid, !.cmd = cmd]
    /\ UNCHANGED <<unwaited, pend, listVars, frameVars>>

ForkFails ==
    /\ MainAt("prompt")
    /\ Exit("error")

AddJobSwapped ==              \* mutant: bg and fg exchanged in the state of the job
    /\ MainAt("forked")
    /\ jobs' = JobsAfterAdd(jobs, nextjid, main.pid, IF main.cmd = "FG" THEN "BG" ELSE "FG")
    /\ nextjid' = NextJidAfterAdd(jobs, nextjid, main.pid)
    /\ main' = IF main.cmd = "FG" THEN [main EXCEPT !.pc = "waitfg"] ELSE AtPrompt
    /\ UNCHANGED <<kernelVars, frameVars>>

\* addjob with every signal blocked, so in one step, and the mask restored.
AddJob ==
    /\ MainAt("forked")
    /\ jobs' = JobsAfterAdd(jobs, nextjid, main.pid, main.cmd)
    /\ nextjid' = NextJidAfterAdd(jobs, nextjid, main.pid)
    /\ main' = IF main.cmd = "FG" THEN [main EXCEPT !.pc = "waitfg"] ELSE AtPrompt
    /\ UNCHANGED <<kernelVars, frameVars>>

\* bg or fg with an argument that finds the job in slot i, by its pid or by %
\* and its job id (tsh.c:458-489).
BgFg(i, cmd) ==
    /\ MainAt("prompt")
    /\ i \in {GetJobPid(jobs, jobs[i].pid), GetJobJid(jobs, jobs[i].jid)}
    /\ main' = [AtPrompt EXCEPT !.pc = "cont", !.slot = i, !.cmd = cmd]
    /\ UNCHANGED <<kernelVars, listVars, frameVars>>

\* Line 490: the argument of Kill, and the call.
ReadPid ==
    /\ MainAt("cont")
    /\ main' = [main EXCEPT !.pc = "kill", !.pid = jobs[main.slot].pid]
    /\ UNCHANGED <<kernelVars, listVars, frameVars>>

SendCont ==
    /\ MainAt("kill")
    /\ IF GroupExists(main.pid)
       THEN /\ Kill(main.pid, "CONT")
            /\ main' = [main EXCEPT !.pc = "mark", !.pid = 0]
            /\ UNCHANGED <<listVars, frameVars>>
       ELSE Exit("problem")

\* Lines 491-496.
Mark ==
    /\ MainAt("mark")
    /\ jobs' = [jobs EXCEPT ![main.slot].state = main.cmd]
    /\ main' = IF main.cmd = "FG" THEN [main EXCEPT !.pc = "arg"] ELSE AtPrompt
    /\ UNCHANGED <<kernelVars, nextjid, frameVars>>

\* Line 497: the argument of waitfg.
ReadArg ==
    /\ MainAt("arg")
    /\ main' = [main EXCEPT !.pc = "waitfg", !.pid = jobs[main.slot].pid, !.slot = 0]
    /\ UNCHANGED <<kernelVars, listVars, frameVars>>

\* waitfg (tsh.c:506-517): block SIGCHLD, test, sigsuspend, test again.
WaitfgBlock ==
    /\ MainAt("waitfg")
    /\ Goto("test")
    /\ UNCHANGED <<kernelVars, listVars, frameVars>>

WaitfgTest ==
    /\ MainAt("test")
    /\ main' = IF main.pid = FgPid(jobs) THEN [main EXCEPT !.pc = "tosleep"] ELSE AtPrompt
    /\ UNCHANGED <<kernelVars, listVars, frameVars>>

WaitfgSuspend ==
    /\ MainAt("tosleep")
    /\ Goto("asleep")
    /\ UNCHANGED <<kernelVars, listVars, frameVars>>

\* What the main program does by itself, once a command has been read.
MainStep ==
    \/ AddJob \/ ReadPid \/ SendCont \/ Mark \/ ReadArg
    \/ WaitfgBlock \/ WaitfgTest \/ WaitfgSuspend

\* What the user makes it do.
Command ==
    \/ Quit \/ Sigquit \/ ForkFails
    \/ \E pid \in Pids, cmd \in {"FG", "BG"} : Fork(pid, cmd)
    \/ \E i \in Slots, cmd \in {"FG", "BG"} : BgFg(i, cmd)

\* What its environment does to it.
Inputs ==
    \/ \E s \in Keys : Press(s)
    \/ \E s \in Signals : Deliver(s)
    \/ \E pid \in Pids : Child(pid)

\* The shell has ended; its children are no longer its own.
Ended == ~Alive /\ UNCHANGED vars

Next ==
    \/ Command
    \/ MainStep
    \/ ChldHandler
    \/ \E s \in Keys : KeyHandler(s)
    \/ Inputs
    \/ Ended

Spec == Init /\ [][Next]_vars

(***************************************************************************)
(* The processor runs the shell however often the user presses a key, so   *)
(* what the shell can do again and again it does.  Nothing obliges the     *)
(* user to type, nor a child to exit; a forked child does reach execve.    *)
(***************************************************************************)
Fairness ==
    /\ SF_vars(MainStep)
    /\ SF_vars(ChldHandler)
    /\ \A s \in Keys : SF_vars(KeyHandler(s))
    /\ \A s \in Signals : SF_vars(Deliver(s))
    /\ \A pid \in Pids : WF_vars(/\ proc[pid] \in {"forked", "grouped"}
                                 /\ Child(pid))

FairSpec == Spec /\ Fairness

-----------------------------------------------------------------------------
(* What the shell promises. *)

Listed  == {i \in Slots : jobs[i].pid # 0}
Waiting == main.pc \in {"waitfg", "test", "tosleep", "asleep"}

MainType == [pc : MainPcs, pid : Pids \cup {0}, slot : Slots \cup {0}, cmd : {"FG", "BG"}]
ChldType == [pc : {"idle", "wait", "update"}, pid : Pids \cup {0},
             stat : Zombie \cup {"stopped"}]
KeyType  == [pc : {"idle", "look", "kill"}, pid : Pids \cup {0}]

\* The variables have their types; do_bgfg has found a job before it uses one.
TypeOK ==
    /\ proc \in [Pids -> ProcStates]
    /\ unwaited \subseteq Pids
    /\ pend \subseteq Signals
    /\ jobs \in [Slots -> Job(Pids)]
    /\ nextjid \in Nat \ {0}
    /\ main \in MainType
    /\ main.pc \in {"cont", "kill", "mark", "arg"} => main.slot \in Slots
    /\ chld \in ChldType
    /\ kbd \in [Keys -> KeyType]
    /\ stack \in Seq(Signals)

\* "At most 1 job can be in the FG state" (tsh.c:34), whatever the handlers do
\* to the list while do_bgfg and waitfg work on it.
AtMostOneFG == Cardinality(FgSlots(jobs)) <= 1

\* The shell reads no command while a job is in the foreground: waitfg does not
\* return before the handler has marked the job stopped or deleted it.
PromptHasNoFG == main.pc \in {"prompt", "forked"} => FgSlots(jobs) = {}

\* Every listed job is a child not yet reaped, and listed once; only the child
\* sigchld_handler has just reaped is listed without being one.
ListedAreChildren ==
    Alive => \A i \in Listed :
        /\ proc[jobs[i].pid] = "free" => chld.pc = "update" /\ chld.pid = jobs[i].pid
        /\ \A j \in Listed : jobs[i].pid = jobs[j].pid => i = j

\* While the list has room for every child, every child is listed as soon as
\* eval has added it: the handler never meets a child it does not know.
ChildrenAreListed ==
    Alive /\ Cardinality(Pids) <= MAXJOBS =>
        \A p \in Pids : \/ proc[p] = "free"
                        \/ main.pc = "forked" /\ main.pid = p
                        \/ SlotsOfPid(jobs, p) # {}

\* "The handler reaps all available zombie children" (tsh.c:526): no child
\* waits to be reported without a SIGCHLD that is pending or being handled.
HandlerReapsAll ==
    Alive /\ Reportable # {} => "CHLD" \in pend \cup Started

\* The same while the list has room for every child.
HandlerReapsAllListed == Cardinality(Pids) <= MAXJOBS => HandlerReapsAll

\* waitfg, given the pid of a job, sleeps only while that job is in the foreground:
\* a SIGCHLD that arrives between the test and sigsuspend is not lost
\* (tsh.c:511-513).  Given 0, it sleeps with no job in the foreground.
IsForeground(p) == \E i \in FgSlots(jobs) : p > 0 /\ jobs[i].pid = p

NoMissedWakeup ==
    main.pc = "asleep" /\ stack = <<>> /\ main.pid # 0 => IsForeground(main.pid)

\* The job list implements job control: a job is launched or resumed only by a
\* command, with no job in the foreground, is in the foreground only while the
\* shell waits, and is in one state at a time, whatever handlers run in between.
JobOf(p) ==
    IF SlotsOfPid(jobs, p) = {} THEN "none"
    ELSE jobs[Min(SlotsOfPid(jobs, p))].state

JC == INSTANCE JobControl WITH job     <- [p \in Pids |-> JobOf(p)],
                               reading <- main.pc = "prompt"

ImplementsJobControl == JC!Spec

\* A child that has died is reaped, as long as the shell lives.
ZombiesReaped ==
    Cardinality(Pids) <= MAXJOBS =>
        \A p \in Pids : proc[p] \in Zombie ~> proc[p] \notin Zombie \/ ~Alive

\* waitfg returns once the process it waits for has ended: "Block until process
\* pid is no longer the foreground process" (tsh.c:504).
WaitfgReturns ==
    Cardinality(Pids) <= MAXJOBS =>
        \A p \in Pids : Waiting /\ main.pid = p /\ proc[p] \in Zombie ~> ~Waiting

\* The same of every call, "Block until process pid is no longer the foreground
\* process" (tsh.c:504), also when the job was deleted before do_bgfg read its pid.
WaitfgAlwaysReturns ==
    \A p \in Pids \cup {0} :
        Waiting /\ main.pid = p /\ ~IsForeground(p) ~> ~Waiting

\* ctrl-c and ctrl-z are for the foreground job, "Catch it and send it along"
\* (tsh.c:566): no handler ends the shell.
ShellSurvivesKeys == [][\A s \in Keys : OnTop(s) => main'.pc # "problem"]_vars
=============================================================================
