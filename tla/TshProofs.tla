----------------------------- MODULE TshProofs -----------------------------
(***************************************************************************)
(* Theorems about Tsh, for every number of processes and of slots.         *)
(***************************************************************************)
EXTENDS Tsh, JobListProofs

-----------------------------------------------------------------------------
(* Type correctness. *)

USE DEF kernelVars, listVars, frameVars

\* The frames of nothing at all have their types.
LEMMA FrameTypes ==
    /\ AtPrompt \in MainType
    /\ NoChld \in ChldType
    /\ NoKey \in KeyType
BY DEF AtPrompt, NoChld, NoKey, MainType, ChldType, KeyType, MainPcs, Dead, Zombie

\* After a signal the process is in a state again.
LEMMA AfterType ==
    ASSUME NEW st \in ProcStates, NEW sig
    PROVE  After(st, sig) \in ProcStates
BY DEF After, ProcStates, Stopped, Zombie

\* A change of a child's state keeps the kernel's types.
LEMMA BecomesType ==
    ASSUME TypeOK, NEW pid \in Pids, NEW new \in ProcStates, Becomes(pid, new)
    PROVE  /\ proc' \in [Pids -> ProcStates]
           /\ unwaited' \subseteq Pids
           /\ pend' \subseteq Signals
BY DEF TypeOK, Becomes, Signals

\* So does kill, which reaches at most one child.
LEMMA KillType ==
    ASSUME TypeOK, NEW pid \in Pids \cup {0}, NEW sig, Kill(pid, sig)
    PROVE  /\ proc' \in [Pids -> ProcStates]
           /\ unwaited' \subseteq Pids
           /\ pend' \subseteq Signals
<1>1. CASE UNCHANGED kernelVars
  BY <1>1 DEF TypeOK
<1>2. CASE pid # 0 /\ Becomes(pid, After(proc[pid], sig))
  <2>1. pid \in Pids /\ proc[pid] \in ProcStates
    BY <1>2 DEF TypeOK
  <2> QED BY <1>2, <2>1, AfterType, BecomesType
<1> QED BY <1>1, <1>2 DEF Kill

\* A handler's return keeps the types of the stack and of the main program.
LEMMA ReturnType ==
    ASSUME TypeOK, stack # <<>>, Return
    PROVE  /\ stack' \in Seq(Signals)
           /\ main' \in MainType
           /\ main'.pc \in {"cont", "kill", "mark", "arg"} => main'.slot \in Slots
<1>1. stack' \in Seq(Signals)
  <2>1. stack \in Seq(Signals) /\ Len(stack) \in Nat /\ Len(stack) # 0
    BY DEF TypeOK
  <2> QED BY <2>1 DEF Return
<1>2. /\ main' \in MainType
      /\ main'.pc \in {"cont", "kill", "mark", "arg"} => main'.slot \in Slots
  BY DEF TypeOK, Return, MainType, MainPcs
<1> QED BY <1>1, <1>2

\* The end of the shell, in whichever way, keeps all types.
LEMMA ExitType ==
    ASSUME TypeOK, NEW pc \in Dead, Exit(pc)
    PROVE  TypeOK'
<1>1. main' \in MainType /\ main'.pc = pc
  BY FrameTypes DEF Exit, AtPrompt, MainType, MainPcs
<1>2. /\ chld' \in ChldType
      /\ kbd' \in [Keys -> KeyType]
      /\ stack' \in Seq(Signals)
  BY FrameTypes DEF Exit
<1> QED BY <1>1, <1>2 DEF Exit, Dead, TypeOK, MainType, ChldType, KeyType

\* The steps of the kernel and of the keyboard.
LEMMA KernelTypeOK ==
    ASSUME TypeOK, Inputs
    PROVE  TypeOK'
<1>1. ASSUME NEW pid \in Pids, Child(pid) PROVE TypeOK'
  <2>1. proc[pid] \in ProcStates
    BY DEF TypeOK
  <2>2. After(proc[pid], "CONT") \in ProcStates
    BY <2>1, AfterType
  <2>3. {"grouped", "running", "exited", "signaled", "stopped"} \subseteq ProcStates
    BY DEF ProcStates, Stopped, Zombie
  <2>4. CASE ChildSetpgid(pid)
    BY <1>1, <2>3, <2>4 DEF ChildSetpgid, Child, TypeOK
  <2>5. CASE ChildExec(pid)
    <3>1. CASE UNCHANGED <<unwaited, pend>>
      BY <1>1, <2>3, <2>5, <3>1, BecomesType DEF ChildExec, Child, TypeOK
    <3>2. CASE Becomes(pid, "exited")
      BY <1>1, <2>3, <3>2, BecomesType DEF Child, TypeOK
    <3> QED BY <2>5, <3>1, <3>2 DEF ChildExec
  <2>6. CASE ChildRuns(pid)
    <3>1. PICK new \in ProcStates : Becomes(pid, new)
      BY <2>2, <2>3, <2>6 DEF ChildRuns
    <3> QED BY <1>1, <3>1, BecomesType DEF Child, TypeOK
  <2> QED BY <1>1, <2>4, <2>5, <2>6 DEF Child
<1>2. ASSUME NEW s \in Keys, Press(s) PROVE TypeOK'
  BY <1>2 DEF Press, TypeOK, Signals
<1>3. ASSUME NEW s \in Signals, Deliver(s) PROVE TypeOK'
  <2>1. stack' \in Seq(Signals) /\ pend' \subseteq Signals
    BY <1>3 DEF Deliver, TypeOK
  <2>2. chld' \in ChldType
    BY <1>3, FrameTypes DEF Deliver, TypeOK, ChldType
  <2>3. kbd' \in [Keys -> KeyType]
    BY <1>3 DEF Deliver, TypeOK, KeyType
  <2> QED BY <1>3, <2>1, <2>2, <2>3 DEF Deliver, TypeOK
<1> QED BY <1>1, <1>2, <1>3 DEF Inputs

\* The steps of the handlers.
LEMMA HandlerTypeOK ==
    ASSUME TypeOK, ChldHandler \/ \E s \in Keys : KeyHandler(s)
    PROVE  TypeOK'
<1>1. ASSUME NEW pid \in Pids, ChldWait(pid) PROVE TypeOK'
  <2>1. proc' \in [Pids -> ProcStates]
    BY <1>1 DEF ChldWait, TypeOK, ProcStates
  <2>2. chld' \in ChldType
    BY <1>1 DEF ChldWait, ChldType
  <2> QED BY <1>1, <2>1, <2>2 DEF ChldWait, TypeOK
<1>2. CASE ChldDone \/ ChldUnknown
  <2>1. stack # <<>> /\ Return
    BY <1>2 DEF ChldDone, ChldUnknown, OnTop
  <2> QED BY <1>2, <2>1, ReturnType, FrameTypes DEF ChldDone, ChldUnknown, TypeOK
<1>3. CASE ChldUpdate
  <2> DEFINE hand == Min(SlotsOfPid(jobs, chld.pid))
  <2>1. hand \in Slots
    BY <1>3, FirstSlot DEF ChldUpdate, SlotsOfPid
  <2>2. jobs' \in [Slots -> Job(Pids)] /\ nextjid' \in Nat \ {0}
    <3>1. CASE chld.stat = "stopped"
      <4>1. jobs' = [jobs EXCEPT ![hand].state = "ST"] /\ UNCHANGED nextjid
        BY <1>3, <3>1 DEF ChldUpdate
      <4> HIDE DEF hand
      <4> QED BY <2>1, <4>1 DEF TypeOK, Job, JobStates
    <3>2. CASE chld.stat # "stopped"
      <4> HIDE DEF hand
      <4>1. /\ jobs' = JobsAfterDelete(jobs, chld.pid)
            /\ nextjid' = NextJidAfterDelete(jobs, nextjid, chld.pid)
        BY <1>3, <3>2 DEF ChldUpdate
      <4> QED BY <4>1, DeleteType DEF TypeOK
    <3> QED BY <3>1, <3>2
  <2>3. chld' \in ChldType
    BY <1>3 DEF ChldUpdate, TypeOK, ChldType
  <2> QED BY <1>3, <2>2, <2>3 DEF ChldUpdate, TypeOK
<1>4. ASSUME NEW s \in Keys, KeyLook(s) PROVE TypeOK'
  <2>1. kbd' \in [Keys -> KeyType]
    <3>1. FgPid(jobs) \in Pids \cup {0}
      BY FgPidCases DEF TypeOK, Job, FgSlots
    <3> QED BY <1>4, <3>1, FrameTypes DEF KeyLook, TypeOK, KeyType
  <2>2. /\ stack' \in Seq(Signals)
        /\ main' \in MainType
        /\ main'.pc \in {"cont", "kill", "mark", "arg"} => main'.slot \in Slots
    <3>1. CASE FgPid(jobs) > 0
      BY <1>4, <3>1 DEF KeyLook, TypeOK
    <3>2. CASE ~(FgPid(jobs) > 0)
      BY <1>4, <3>2, ReturnType DEF KeyLook, OnTop
    <3> QED BY <3>1, <3>2
  <2> QED BY <1>4, <2>1, <2>2 DEF KeyLook, TypeOK
<1>5. ASSUME NEW s \in Keys, KeyKill(s) PROVE TypeOK'
  <2>1. CASE GroupExists(kbd[s].pid)
    <3>1. kbd[s].pid \in Pids \cup {0} /\ Kill(kbd[s].pid, s)
      BY <1>5, <2>1 DEF KeyKill, TypeOK, KeyType
    <3>2. /\ stack' \in Seq(Signals)
          /\ main' \in MainType
          /\ main'.pc \in {"cont", "kill", "mark", "arg"} => main'.slot \in Slots
      BY <1>5, <2>1, ReturnType DEF KeyKill, OnTop
    <3> QED BY <1>5, <2>1, <3>1, <3>2, KillType, FrameTypes DEF KeyKill, TypeOK
  <2>2. CASE ~GroupExists(kbd[s].pid)
    BY <1>5, <2>2, ExitType DEF KeyKill, Dead
  <2> QED BY <2>1, <2>2
<1> QED BY <1>1, <1>2, <1>3, <1>4, <1>5 DEF ChldHandler, KeyHandler

\* The steps of the main program.
LEMMA MainTypeOK ==
    ASSUME TypeOK, Command \/ MainStep
    PROVE  TypeOK'
<1>1. CASE Quit \/ Sigquit \/ ForkFails
  BY <1>1, ExitType DEF Quit, Sigquit, ForkFails, Dead
<1>2. ASSUME NEW pid \in Pids, NEW cmd \in {"FG", "BG"}, Fork(pid, cmd) PROVE TypeOK'
  <2>1. main' \in MainType /\ main'.pc = "forked"
    BY <1>2, FrameTypes DEF Fork, AtPrompt, MainType, MainPcs
  <2> QED BY <1>2, <2>1 DEF Fork, TypeOK, ProcStates
<1>3. ASSUME NEW i \in Slots, NEW cmd \in {"FG", "BG"}, BgFg(i, cmd) PROVE TypeOK'
  BY <1>3, FrameTypes DEF BgFg, AtPrompt, TypeOK, MainType, MainPcs
<1>4. CASE AddJob
  <2>1. main' \in MainType /\ main'.pc \in {"waitfg", "prompt"}
    BY <1>4, FrameTypes DEF AddJob, AtPrompt, TypeOK, MainType, MainPcs
  <2>2. jobs' \in [Slots -> Job(Pids)] /\ nextjid' \in Nat \ {0}
    <3>1. main.pid \in Pids \cup {0} /\ main.cmd \in JobStates
      BY DEF TypeOK, MainType, JobStates
    <3>2. CASE main.pid = 0
      BY <1>4, <3>2 DEF AddJob, JobsAfterAdd, NextJidAfterAdd, TypeOK
    <3>3. CASE main.pid \in Pids
      BY <1>4, <3>1, <3>3, AddType, PidsAssumption DEF AddJob, TypeOK
    <3> QED BY <3>1, <3>2, <3>3
  <2> QED BY <1>4, <2>1, <2>2 DEF AddJob, TypeOK
<1>5. CASE ReadPid \/ ReadArg
  <2>1. main.pc \in {"cont", "arg"} => jobs[main.slot].pid \in Pids \cup {0}
    BY DEF TypeOK, Job
  <2> QED BY <1>5, <2>1 DEF ReadPid, ReadArg, MainAt, TypeOK, MainType, MainPcs
<1>6. CASE SendCont
  <2>1. CASE GroupExists(main.pid)
    <3>1. main.pid \in Pids \cup {0} /\ main.slot \in Slots
      BY <1>6 DEF SendCont, MainAt, TypeOK, MainType
    <3> QED BY <1>6, <2>1, <3>1, KillType DEF SendCont, TypeOK, MainType, MainPcs
  <2>2. CASE ~GroupExists(main.pid)
    BY <1>6, <2>2, ExitType DEF SendCont, Dead
  <2> QED BY <2>1, <2>2
<1>7. CASE Mark
  <2>1. main.slot \in Slots /\ main.cmd \in JobStates
    BY <1>7 DEF Mark, MainAt, TypeOK, MainType, JobStates
  <2>2. jobs' \in [Slots -> Job(Pids)]
    BY <1>7, <2>1 DEF Mark, TypeOK, Job
  <2> QED BY <1>7, <2>1, <2>2, FrameTypes DEF Mark, AtPrompt, TypeOK, MainType, MainPcs
<1>8. CASE WaitfgBlock \/ WaitfgTest \/ WaitfgSuspend
  BY <1>8, FrameTypes
     DEF WaitfgBlock, WaitfgTest, WaitfgSuspend, Goto, AtPrompt, TypeOK, MainType, MainPcs
<1> QED BY <1>1, <1>2, <1>3, <1>4, <1>5, <1>6, <1>7, <1>8 DEF Command, MainStep

\* Every variable always has its type (tsh.c:37-50 and the locals of its
\* functions), and do_bgfg never uses the slot of a job it has not found.
THEOREM TypeCorrect == Spec => []TypeOK
<1>1. Init => TypeOK
  <2>1. ClearedJob \in Job(Pids)
    BY DEF ClearedJob, Job, JobStates
  <2>2. InitJobs \in [Slots -> Job(Pids)]
    BY <2>1 DEF InitJobs
  <2> QED BY <2>2, FrameTypes
          DEF Init, TypeOK, ProcStates, AtPrompt, MainType, ChldType, KeyType
<1>2. TypeOK /\ [Next]_vars => TypeOK'
  <2> SUFFICES ASSUME TypeOK, [Next]_vars PROVE TypeOK'
    OBVIOUS
  <2>1. CASE Command \/ MainStep
    BY <2>1, MainTypeOK
  <2>2. CASE ChldHandler \/ \E s \in Keys : KeyHandler(s)
    BY <2>2, HandlerTypeOK
  <2>3. CASE Inputs
    BY <2>3, KernelTypeOK
  <2>4. CASE UNCHANGED vars
    BY <2>4 DEF vars, TypeOK
  <2> QED BY <2>1, <2>2, <2>3, <2>4 DEF Next, Ended
<1> QED BY <1>1, <1>2, PTL DEF Spec

-----------------------------------------------------------------------------
(* The foreground job.  PromptHasNoFG and AtMostOneFG are not inductive:   *)
(* that waitfg returns only when no job is in the foreground depends on    *)
(* its argument being the pid of the only slot in that state, which        *)
(* do_bgfg reads from the slot it has marked.                              *)

InForeground == main.pc = "arg" \/ Waiting

FGInv ==
    /\ Alive /\ ~InForeground => FgSlots(jobs) = {}
    /\ \A i, j \in FgSlots(jobs) : i = j
    /\ main.pc = "arg" => FgSlots(jobs) \subseteq {main.slot}
    /\ Waiting => \A i \in FgSlots(jobs) : jobs[i].pid = main.pid

\* A step that leaves the main program where it is and brings no job to the
\* foreground preserves the invariant; so does the end of the shell.
LEMMA FGInvPreserved ==
    ASSUME FGInv,
           \/ main' = main
           \/ main.pc = "asleep" /\ main' = [main EXCEPT !.pc = "test"]
           \/ main'.pc \in Dead,
           \A i \in FgSlots(jobs') : i \in FgSlots(jobs) /\ jobs'[i].pid = jobs[i].pid,
           TypeOK
    PROVE  FGInv'
<1>1. FgSlots(jobs)' = FgSlots(jobs')
  BY DEF FgSlots
<1>2. CASE main' = main
  BY <1>1, <1>2 DEF FGInv, InForeground, Waiting, Alive
<1>3. CASE main.pc = "asleep" /\ main' = [main EXCEPT !.pc = "test"]
  <2>1. main'.pc = "test" /\ main'.pid = main.pid
    BY <1>3 DEF TypeOK, MainType
  <2> QED BY <1>1, <1>3, <2>1 DEF FGInv, InForeground, Waiting, Alive, Dead
<1>4. CASE main'.pc \in Dead
  BY <1>1, <1>4 DEF FGInv, InForeground, Waiting, Alive, Dead
<1> QED BY <1>2, <1>3, <1>4

\* A handler's return only wakes the main program from sigsuspend.
LEMMA ReturnMain ==
    ASSUME Return
    PROVE  main' = main \/ (main.pc = "asleep" /\ main' = [main EXCEPT !.pc = "test"])
BY DEF Return

\* The end of the shell leaves the job list as it is.
LEMMA ExitMain ==
    ASSUME NEW pc, Exit(pc)
    PROVE  main'.pc = pc /\ jobs' = jobs
BY DEF Exit, AtPrompt

\* A handler takes the foreground job away, if anything: it never makes one.
LEMMA HandlerFGInv ==
    ASSUME TypeOK, FGInv, ChldHandler \/ \E s \in Keys : KeyHandler(s)
    PROVE  FGInv'
<1>1. CASE UNCHANGED <<jobs, main>>
  BY <1>1, FGInvPreserved
<1>2. CASE Return /\ UNCHANGED jobs
  BY <1>2, ReturnMain, FGInvPreserved
<1>3. CASE Exit("problem")
  BY <1>3, ExitMain, FGInvPreserved DEF Dead
<1>4. CASE ChldUpdate
  <2> DEFINE hand == Min(SlotsOfPid(jobs, chld.pid))
  <2>1. main' = main
    BY <1>4 DEF ChldUpdate
  <2>2. CASE chld.stat = "stopped"
    <3>1. hand \in Slots
      BY <1>4, FirstSlot DEF ChldUpdate, SlotsOfPid
    <3>2. jobs' = [jobs EXCEPT ![hand].state = "ST"]
      BY <1>4, <2>2 DEF ChldUpdate
    <3> HIDE DEF hand
    <3>3. \A i \in FgSlots(jobs') : i \in FgSlots(jobs) /\ jobs'[i].pid = jobs[i].pid
      BY <3>1, <3>2 DEF FgSlots, TypeOK, Job
    <3> QED BY <2>1, <3>3, FGInvPreserved
  <2>3. CASE chld.stat # "stopped"
    <3>1. jobs' = JobsAfterDelete(jobs, chld.pid) /\ SlotsOfPid(jobs, chld.pid) # {}
      BY <1>4, <2>3 DEF ChldUpdate
    <3>2. PICK i \in Slots : jobs' = [jobs EXCEPT ![i] = ClearedJob]
      BY <3>1, DeleteCases DEF SlotsOfPid
    <3>3. \A k \in FgSlots(jobs') : k \in FgSlots(jobs) /\ jobs'[k].pid = jobs[k].pid
      BY <3>2 DEF FgSlots, TypeOK, ClearedJob
    <3> QED BY <2>1, <3>3, FGInvPreserved
  <2> QED BY <2>2, <2>3
<1> QED BY <1>1, <1>2, <1>3, <1>4
        DEF ChldHandler, ChldWait, ChldDone, ChldUnknown, KeyHandler, KeyLook, KeyKill

\* The list after eval has added the job.
LEMMA AddJobCases ==
    ASSUME TypeOK, AddJob
    PROVE  \/ jobs' = jobs
           \/ \E i \in Slots : jobs' = [jobs EXCEPT ![i] =
                  [pid |-> main.pid, jid |-> nextjid, state |-> main.cmd]]
<1>1. CASE main.pid = 0
  BY <1>1 DEF AddJob, JobsAfterAdd
<1>2. CASE main.pid # 0
  <2>1. main.pid \in Nat \ {0} /\ nextjid \in Nat \ {0}
    BY <1>2, PidsAssumption DEF TypeOK, MainType
  <2> QED BY <2>1, AddCases DEF AddJob, FreeSlots
<1> QED BY <1>1, <1>2

\* The main program makes a job the foreground job only where there is none
\* (addjob after a fork, the FG state in do_bgfg), and then waits for it.
LEMMA MainFGInv ==
    ASSUME TypeOK, FGInv, Command \/ MainStep
    PROVE  FGInv'
<1> USE DEF MainAt
<1>1. CASE Quit \/ Sigquit \/ ForkFails
  BY <1>1, ExitMain, FGInvPreserved DEF Quit, Sigquit, ForkFails, Dead
<1>2. ASSUME NEW pid \in Pids, NEW cmd \in {"FG", "BG"}, Fork(pid, cmd) PROVE FGInv'
  BY <1>2 DEF Fork, AtPrompt, FGInv, InForeground, Waiting, Alive, Dead, FgSlots
<1>3. ASSUME NEW i \in Slots, NEW cmd \in {"FG", "BG"}, BgFg(i, cmd) PROVE FGInv'
  BY <1>3 DEF BgFg, AtPrompt, FGInv, InForeground, Waiting, Alive, Dead, FgSlots
<1>4. CASE AddJob
  <2>1. FgSlots(jobs) = {}
    BY <1>4 DEF AddJob, FGInv, InForeground, Waiting, Alive, Dead
  <2>2. \/ jobs' = jobs
        \/ \E i \in Slots : jobs' = [jobs EXCEPT ![i] =
               [pid |-> main.pid, jid |-> nextjid, state |-> main.cmd]]
    BY <1>4, AddJobCases
  <2>3. CASE main.cmd = "FG"
    <3>1. main'.pc = "waitfg" /\ main'.pid = main.pid
      BY <1>4, <2>3 DEF AddJob, TypeOK, MainType
    <3>2. \A i, j \in FgSlots(jobs') : i = j /\ jobs'[i].pid = main.pid
      BY <2>1, <2>2 DEF FgSlots, TypeOK
    <3> QED BY <3>1, <3>2 DEF FGInv, InForeground, Waiting, Alive, FgSlots
  <2>4. CASE main.cmd # "FG"
    <3>1. main'.pc = "prompt"
      BY <1>4, <2>4 DEF AddJob, AtPrompt
    <3>2. FgSlots(jobs') = {}
      BY <2>1, <2>2, <2>4 DEF FgSlots, TypeOK
    <3> QED BY <3>1, <3>2 DEF FGInv, InForeground, Waiting, Alive, FgSlots
  <2> QED BY <2>3, <2>4
<1>5. CASE ReadPid
  BY <1>5 DEF ReadPid, TypeOK, MainType, FGInv, InForeground, Waiting, Alive, Dead, FgSlots
<1>6. CASE SendCont
  <2>1. CASE GroupExists(main.pid)
    BY <1>6, <2>1
       DEF SendCont, TypeOK, MainType, FGInv, InForeground, Waiting, Alive, Dead, FgSlots
  <2>2. CASE ~GroupExists(main.pid)
    BY <1>6, <2>2, ExitMain, FGInvPreserved DEF SendCont, Dead
  <2> QED BY <2>1, <2>2
<1>7. CASE Mark
  <2>1. /\ FgSlots(jobs) = {} /\ main.slot \in Slots
        /\ jobs' = [jobs EXCEPT ![main.slot].state = main.cmd]
    BY <1>7 DEF Mark, TypeOK, FGInv, InForeground, Waiting, Alive, Dead
  <2>2. \A i \in FgSlots(jobs') : i = main.slot /\ main.cmd = "FG"
    BY <2>1 DEF FgSlots, TypeOK, Job
  <2>3. CASE main.cmd = "FG"
    <3>1. main'.pc = "arg" /\ main'.slot = main.slot
      BY <1>7, <2>3 DEF Mark, TypeOK, MainType
    <3> QED BY <2>2, <3>1 DEF FGInv, InForeground, Waiting, Alive, FgSlots
  <2>4. CASE main.cmd # "FG"
    <3>1. main'.pc = "prompt"
      BY <1>7, <2>4 DEF Mark, AtPrompt
    <3> QED BY <2>2, <2>4, <3>1 DEF FGInv, InForeground, Waiting, Alive, FgSlots
  <2> QED BY <2>3, <2>4
<1>8. CASE ReadArg
  <2>1. main'.pc = "waitfg" /\ main'.pid = jobs[main.slot].pid /\ jobs' = jobs
    BY <1>8 DEF ReadArg, TypeOK, MainType
  <2> QED BY <1>8, <2>1 DEF ReadArg, FGInv, InForeground, Waiting, Alive, FgSlots
<1>9. CASE WaitfgBlock \/ WaitfgSuspend
  <2>1. /\ Waiting /\ main'.pc \in {"test", "asleep"}
        /\ main'.pid = main.pid /\ jobs' = jobs
    BY <1>9 DEF WaitfgBlock, WaitfgSuspend, Goto, Waiting, TypeOK, MainType
  <2> QED BY <2>1 DEF FGInv, InForeground, Waiting, Alive, FgSlots
<1>10. CASE WaitfgTest
  <2>1. jobs' = jobs /\ Waiting
    BY <1>10 DEF WaitfgTest, Waiting
  <2>2. CASE main.pid = FgPid(jobs)
    <3>1. main'.pc = "tosleep" /\ main'.pid = main.pid
      BY <1>10, <2>2 DEF WaitfgTest, TypeOK, MainType
    <3> QED BY <2>1, <3>1 DEF FGInv, InForeground, Waiting, Alive, FgSlots
  <2>3. CASE main.pid # FgPid(jobs)
    <3>1. main'.pc = "prompt"
      BY <1>10, <2>3 DEF WaitfgTest, AtPrompt
    <3>2. FgSlots(jobs) = {}
      BY <2>1, <2>3, FgPidCases DEF FGInv
    <3> QED BY <2>1, <3>1, <3>2 DEF FGInv, InForeground, Waiting, Alive, FgSlots
  <2> QED BY <2>2, <2>3
<1> QED BY <1>1, <1>2, <1>3, <1>4, <1>5, <1>6, <1>7, <1>8, <1>9, <1>10 DEF Command, MainStep

\* In every behaviour a foreground job is the one the main program waits for.
LEMMA FGInvariant == Spec => []FGInv
<1>1. Init => FGInv
  BY DEF Init, AtPrompt, FGInv, InForeground, Waiting, FgSlots, InitJobs, ClearedJob
<1>2. TypeOK /\ FGInv /\ [Next]_vars => FGInv'
  <2> SUFFICES ASSUME TypeOK, FGInv, [Next]_vars PROVE FGInv'
    OBVIOUS
  <2>1. CASE Command \/ MainStep
    BY <2>1, MainFGInv
  <2>2. CASE ChldHandler \/ \E s \in Keys : KeyHandler(s)
    BY <2>2, HandlerFGInv
  <2>3. CASE Inputs
    BY <2>3, FGInvPreserved DEF Inputs, Press, Deliver, Child
  <2>4. CASE UNCHANGED vars
    BY <2>4, FGInvPreserved DEF vars
  <2> QED BY <2>1, <2>2, <2>3, <2>4 DEF Next, Ended
<1> QED BY <1>1, <1>2, TypeCorrect, PTL DEF Spec

\* "At most 1 job can be in the FG state" (tsh.c:34), however the handlers
\* interleave with do_bgfg and waitfg.
THEOREM AtMostOneForeground == Spec => []AtMostOneFG
<1>1. FGInv => AtMostOneFG
  <2> SUFFICES ASSUME FGInv PROVE AtMostOneFG
    OBVIOUS
  <2>1. CASE FgSlots(jobs) = {}
    BY <2>1, FS_EmptySet DEF AtMostOneFG
  <2>2. CASE FgSlots(jobs) # {}
    <3>1. PICK i \in FgSlots(jobs) : TRUE
      BY <2>2
    <3>2. FgSlots(jobs) = {i}
      BY <3>1 DEF FGInv
    <3>3. Cardinality({i}) = 1
      BY FS_Singleton
    <3> QED BY <3>2, <3>3 DEF AtMostOneFG
  <2> QED BY <2>1, <2>2
<1> QED BY <1>1, FGInvariant, PTL

\* waitfg does not return, and so no command is read, while a job is in the
\* foreground (tsh.c:363-364 and 496-497).
THEOREM NoForegroundAtPrompt == Spec => []PromptHasNoFG
<1>1. FGInv => PromptHasNoFG
  BY DEF FGInv, PromptHasNoFG, InForeground, Waiting, Alive, Dead
<1> QED BY <1>1, FGInvariant, PTL
-----------------------------------------------------------------------------
(* The wakeup of waitfg.  SIGCHLD is blocked between the test of the job   *)
(* list and sigsuspend, so that its handler, the only one that changes the *)
(* list, is not on the stack while the result of the test must stay true.  *)

\* A sequence without its last element.
LEMMA ButLast ==
    ASSUME NEW S, NEW s \in Seq(S), s # <<>>
    PROVE  LET t == SubSeq(s, 1, Len(s) - 1) IN
           /\ Len(t) = Len(s) - 1
           /\ \A i \in 1 .. Len(s) - 1 : t[i] = s[i]
           /\ DOMAIN t = 1 .. Len(s) - 1
           /\ DOMAIN s = 1 .. Len(s)
<1> DEFINE n == Len(s) - 1
           t == SubSeq(s, 1, n)
<1>1. n \in Nat /\ n + 1 = Len(s) /\ DOMAIN s = 1 .. Len(s)
  OBVIOUS
<1>2. \A i \in 1 .. n : s[i] \in S
  BY <1>1
<1>3. t \in Seq(S) /\ Len(t) = n /\ \A i \in 1 .. n : t[i] = s[i]
  BY <1>1, <1>2
<1>4. DOMAIN t = 1 .. n
  BY <1>1, <1>3
<1> QED BY <1>1, <1>3, <1>4

\* The running handler leaves the stack, the others stay.
LEMMA ReturnStack ==
    ASSUME TypeOK, stack # <<>>, Return
    PROVE  /\ Started' \subseteq Started
           /\ Started \ {stack[Len(stack)]} \subseteq Started'
           /\ stack' = <<>> /\ main.pc = "asleep" => main'.pc = "test"
<1>1. /\ Len(stack) \in Nat /\ Len(stack) >= 1
      /\ \A i \in 1 .. Len(stack) : stack[i] \in Signals
  BY DEF TypeOK
<1>2. /\ Len(stack') = Len(stack) - 1
      /\ \A i \in 1 .. Len(stack) - 1 : stack'[i] = stack[i]
      /\ DOMAIN stack' = 1 .. Len(stack) - 1
      /\ DOMAIN stack = 1 .. Len(stack)
  <2>1. stack \in Seq(Signals) /\ stack' = SubSeq(stack, 1, Len(stack) - 1)
    BY DEF Return, TypeOK
  <2> QED BY <2>1, ButLast
<1>3. Started' \subseteq Started
  BY <1>1, <1>2 DEF Started
<1>4. Started \ {stack[Len(stack)]} \subseteq Started'
  BY <1>1, <1>2 DEF Started
<1>5. ASSUME stack' = <<>>, main.pc = "asleep" PROVE main'.pc = "test"
  <2>1. Len(stack) = 1
    BY <1>1, <1>2, <1>5
  <2> QED BY <1>5, <2>1 DEF Return, TypeOK, MainType
<1> QED BY <1>3, <1>4, <1>5

\* The test of waitfg still holds while the shell sleeps.
AsleepForFg == main.pc = "asleep" /\ stack = <<>> => FgPid(jobs) = main.pid

WakeInv ==
    /\ main.pc \in {"forked", "test", "tosleep"} => "CHLD" \notin Started
    /\ main.pc = "tosleep" => main.pid = FgPid(jobs)
    /\ AsleepForFg

\* What happens to the list while the shell sleeps is the doing of a handler,
\* and the return of the last handler wakes the shell up.
LEMMA HandlerWakeInv ==
    ASSUME TypeOK, WakeInv, ChldHandler \/ \E s \in Keys : KeyHandler(s)
    PROVE  WakeInv'
<1>1. stack # <<>>
  BY DEF ChldHandler, ChldWait, ChldDone, ChldUnknown, ChldUpdate,
         KeyHandler, KeyLook, KeyKill, OnTop
<1>2. CASE ChldWait(chld'.pid) \/ ChldUpdate
  <2>1. "CHLD" \in Started
    BY <1>2 DEF ChldWait, ChldUpdate, OnTop, Started, TypeOK
  <2>2. main' = main /\ stack' = stack
    BY <1>2 DEF ChldWait, ChldUpdate
  <2> QED BY <1>1, <2>1, <2>2 DEF WakeInv, AsleepForFg, Started
<1>3. CASE Return /\ jobs' = jobs
  <2>1. Started' \subseteq Started /\ (stack' = <<>> /\ main.pc = "asleep" => main'.pc = "test")
    BY <1>1, <1>3, ReturnStack
  <2>2. CASE main' = main
    BY <1>3, <2>1, <2>2 DEF WakeInv, AsleepForFg, FgPid, FgSlots
  <2>3. CASE Len(stack) = 1 /\ main.pc = "asleep" /\ main'.pc = "test"
    <3>1. stack' = <<>>
      BY <1>3, <2>3 DEF Return, TypeOK
    <3> QED BY <2>3, <3>1 DEF WakeInv, AsleepForFg, Started
  <2> QED BY <1>3, <2>2, <2>3 DEF Return, TypeOK, MainType
<1>4. CASE main'.pc = "problem"
  BY <1>4 DEF WakeInv, AsleepForFg
<1>5. CASE UNCHANGED <<jobs, main, stack>>
  BY <1>5 DEF WakeInv, AsleepForFg, Started, FgPid, FgSlots
<1>6. ChldWait(chld'.pid) \/ (\E s \in Keys : KeyHandler(s))
         \/ ChldDone \/ ChldUnknown \/ ChldUpdate
  BY DEF ChldHandler, ChldWait
<1> QED BY <1>2, <1>3, <1>4, <1>5, <1>6, ExitMain
        DEF ChldDone, ChldUnknown, KeyHandler, KeyLook, KeyKill

\* In every behaviour the main program sleeps only with a foreground job listed,
\* or with the SIGCHLD handler on its way.
LEMMA WakeInvariant == Spec => []WakeInv
<1>1. Init => WakeInv
  BY DEF Init, AtPrompt, WakeInv, AsleepForFg
<1>2. TypeOK /\ WakeInv /\ [Next]_vars => WakeInv'
  <2> SUFFICES ASSUME TypeOK, WakeInv, [Next]_vars PROVE WakeInv'
    OBVIOUS
  <2>1. CASE Command \/ MainStep
    <3>1. CASE main'.pc \notin {"forked", "test", "tosleep", "asleep"}
      BY <3>1 DEF WakeInv, AsleepForFg
    <3>2. CASE main'.pc \in {"forked", "test"} /\ stack' = <<>>
      BY <3>2 DEF WakeInv, AsleepForFg, Started
    <3>3. CASE WaitfgTest /\ main.pid = FgPid(jobs)
      <4>1. main'.pc = "tosleep" /\ main'.pid = main.pid /\ stack' = <<>> /\ jobs' = jobs
        BY <3>3 DEF WaitfgTest, MainAt, TypeOK, MainType
      <4> QED BY <3>3, <4>1 DEF WakeInv, AsleepForFg, Started, FgPid, FgSlots
    <3>4. CASE WaitfgSuspend
      <4>1. /\ main.pc = "tosleep" /\ main'.pc = "asleep" /\ main'.pid = main.pid
            /\ jobs' = jobs
        BY <3>4 DEF WaitfgSuspend, Goto, MainAt, TypeOK, MainType
      <4> QED BY <4>1 DEF WakeInv, AsleepForFg, FgPid, FgSlots
    <3>5. CASE Command
      <4>1. CASE Quit \/ Sigquit \/ ForkFails
        BY <3>1, <4>1, ExitMain DEF Quit, Sigquit, ForkFails
      <4>2. CASE ~(Quit \/ Sigquit \/ ForkFails)
        BY <3>1, <3>2, <3>5, <4>2 DEF Command, Fork, BgFg, MainAt, AtPrompt
      <4> QED BY <4>1, <4>2
    <3>6. CASE MainStep
      <4>1. CASE SendCont
        <5>1. CASE GroupExists(main.pid)
          <6>1. main \in MainType
            BY DEF TypeOK
          <6>2. main'.pc = "mark"
            BY <4>1, <5>1, <6>1 DEF SendCont, MainType
          <6> QED BY <3>1, <6>2
        <5>2. CASE ~GroupExists(main.pid)
          BY <3>1, <4>1, <5>2, ExitMain DEF SendCont
        <5> QED BY <5>1, <5>2
      <4>2. CASE AddJob \/ ReadPid \/ Mark \/ ReadArg
        <5>1. main \in MainType
          BY DEF TypeOK
        <5>2. main'.pc \in {"waitfg", "prompt", "kill", "arg"}
          <6>1. CASE AddJob
            BY <5>1, <6>1 DEF AddJob, AtPrompt, MainType
          <6>2. CASE ReadPid
            BY <5>1, <6>2 DEF ReadPid, MainType
          <6>3. CASE Mark
            BY <5>1, <6>3 DEF Mark, AtPrompt, MainType
          <6>4. CASE ReadArg
            BY <5>1, <6>4 DEF ReadArg, MainType
          <6> QED BY <4>2, <6>1, <6>2, <6>3, <6>4
        <5> QED BY <3>1, <5>2
      <4>3. CASE WaitfgBlock
        BY <3>2, <4>3 DEF WaitfgBlock, Goto, MainAt, TypeOK, MainType
      <4>4. CASE WaitfgTest /\ main.pid # FgPid(jobs)
        BY <3>1, <4>4 DEF WaitfgTest, AtPrompt
      <4> QED BY <3>3, <3>4, <3>6, <4>1, <4>2, <4>3, <4>4 DEF MainStep
    <3> QED BY <2>1, <3>5, <3>6
  <2>2. CASE ChldHandler \/ \E s \in Keys : KeyHandler(s)
    BY <2>2, HandlerWakeInv
  <2>3. CASE Inputs
    <3>1. ASSUME NEW s \in Signals, Deliver(s) PROVE WakeInv'
      <4>1. /\ UNCHANGED <<jobs, main>> /\ stack' # <<>>
            /\ Started' \subseteq Started \cup {s}
            /\ s = "CHLD" => main.pc \notin {"forked", "test", "tosleep"}
        BY <3>1 DEF Deliver, Started, TypeOK, BlockedByMain
      <4> QED BY <4>1 DEF WakeInv, AsleepForFg, FgPid, FgSlots
    <3>2. CASE UNCHANGED <<jobs, main, stack>>
      BY <3>2 DEF WakeInv, AsleepForFg, Started, FgPid, FgSlots
    <3> QED BY <2>3, <3>1, <3>2 DEF Inputs, Press, Child
  <2>4. CASE UNCHANGED vars
    BY <2>4 DEF vars, WakeInv, AsleepForFg, Started, FgPid, FgSlots
  <2> QED BY <2>1, <2>2, <2>3, <2>4 DEF Next, Ended
<1> QED BY <1>1, <1>2, TypeCorrect, PTL DEF Spec

\* The shell, given the pid of a job, never sleeps in sigsuspend once the job has
\* left the foreground: a SIGCHLD between the test and the call is not lost
\* (tsh.c:511-515).
THEOREM NoWakeupIsMissed == Spec => []NoMissedWakeup
<1>1. TypeOK /\ WakeInv => NoMissedWakeup
  <2> SUFFICES ASSUME TypeOK, WakeInv, main.pc = "asleep", stack = <<>>, main.pid # 0
               PROVE  IsForeground(main.pid)
    BY DEF NoMissedWakeup
  <2>1. FgPid(jobs) = main.pid /\ main.pid \in Nat \ {0}
    BY PidsAssumption DEF WakeInv, AsleepForFg, TypeOK, MainType
  <2>2. FgSlots(jobs) # {} /\ jobs[Min(FgSlots(jobs))].pid = main.pid
    BY <2>1 DEF FgPid
  <2>3. Min(FgSlots(jobs)) \in FgSlots(jobs)
    <3>1. FgSlots(jobs) \subseteq Nat
      BY DEF FgSlots, Slots
    <3> QED BY <2>2, <3>1, NatMin
  <2> QED BY <2>1, <2>2, <2>3 DEF IsForeground
<1> QED BY <1>1, TypeCorrect, WakeInvariant, PTL

-----------------------------------------------------------------------------
(* The list and the children.  A listed job is not yet reaped because the  *)
(* handler deletes what it reaps before anybody else can fork, and fork    *)
(* cannot return a pid that is listed because the handler is not active    *)
(* when the shell forks.                                                   *)

Unreaped(p) == proc[p] # "free"

ChildInv == Alive =>
    /\ \A i, j \in Listed : jobs[i].pid = jobs[j].pid => i = j
    /\ \A i \in Listed :
          ~Unreaped(jobs[i].pid) => chld.pc = "update" /\ chld.pid = jobs[i].pid
    /\ \A p \in unwaited : Unreaped(p)
    /\ chld.pc # "idle" => "CHLD" \in Started
    /\ chld.pc = "update" =>
          /\ chld.pid \in Pids
          /\ chld.stat = "stopped" => Unreaped(chld.pid)
    /\ main.pc = "forked" =>
          /\ main.pid \in Pids /\ Unreaped(main.pid)
          /\ \A i \in Listed : jobs[i].pid # main.pid

\* Only the handler's waitpid takes a process away.
StillThere ==
    /\ \A p \in Pids : Unreaped(p) => Unreaped(p)'
    /\ \A p \in unwaited' : p \in unwaited \/ Unreaped(p)'

\* A child that changes its state stays a child, unless it is reaped.
LEMMA BecomesStillThere ==
    ASSUME TypeOK, NEW pid \in Pids, NEW new, new # "free", Becomes(pid, new)
    PROVE  StillThere
BY DEF Becomes, StillThere, Unreaped, TypeOK

\* No signal takes a child away: what it kills stays a zombie.
LEMMA KillStillThere ==
    ASSUME TypeOK, NEW pid \in Pids \cup {0}, NEW sig, Kill(pid, sig)
    PROVE  StillThere
<1>1. CASE UNCHANGED kernelVars
  BY <1>1 DEF StillThere, Unreaped
<1>2. CASE /\ pid # 0 /\ After(proc[pid], sig) # proc[pid]
           /\ Becomes(pid, After(proc[pid], sig))
  <2>1. After(proc[pid], sig) # "free"
    BY <1>2 DEF After
  <2> QED BY <1>2, <2>1, BecomesStillThere
<1> QED BY <1>1, <1>2 DEF Kill

\* A step that reaps nobody, adds no job and moves no pid keeps ChildInv.
LEMMA ChildInvPreserved ==
    ASSUME TypeOK, TypeOK', ChildInv, Alive' => Alive, StillThere,
           \A i \in Slots : jobs'[i].pid = jobs[i].pid,
           \/ chld' = chld /\ ("CHLD" \in Started => "CHLD" \in Started')
           \/ chld'.pc = "idle" /\ \A i \in Listed : Unreaped(jobs[i].pid),
           main'.pc = "forked" => main.pc = "forked" /\ main'.pid = main.pid
    PROVE  ChildInv'
<1> SUFFICES ASSUME Alive, Alive' PROVE ChildInv'
  BY DEF ChildInv
<1>1. Listed' = Listed /\ \A i \in Listed : i \in Slots /\ jobs[i].pid \in Pids
  BY DEF Listed, TypeOK, Job
<1>2. \A p \in unwaited' : Unreaped(p)'
  BY DEF ChildInv, StillThere, TypeOK
<1>3. \A p \in Pids : Unreaped(p) => Unreaped(p)'
  BY DEF StillThere
<1>4. main'.pc = "forked" =>
          /\ main'.pid \in Pids /\ Unreaped(main.pid)'
          /\ \A i \in Listed : jobs[i].pid # main'.pid
  BY <1>3 DEF ChildInv
<1>5. CASE chld' = chld /\ ("CHLD" \in Started => "CHLD" \in Started')
  BY <1>1, <1>2, <1>3, <1>4, <1>5 DEF ChildInv, Unreaped
<1>6. CASE chld'.pc = "idle" /\ \A i \in Listed : Unreaped(jobs[i].pid)
  BY <1>1, <1>2, <1>3, <1>4, <1>6 DEF ChildInv, Unreaped
<1> QED BY <1>5, <1>6

\* Children and the keyboard keep ChildInv.
LEMMA InputsChildInv ==
    ASSUME TypeOK, TypeOK', ChildInv, Inputs
    PROVE  ChildInv'
<1>1. ASSUME NEW pid \in Pids, Child(pid) PROVE ChildInv'
  <2>1. StillThere
    <3>1. CASE UNCHANGED <<unwaited, pend>> /\ \E new \in {"grouped", "running"} :
                  proc' = [proc EXCEPT ![pid] = new]
      BY <3>1 DEF StillThere, Unreaped, TypeOK
    <3>2. ASSUME NEW new, new # "free", Becomes(pid, new) PROVE StillThere
      BY <3>2, BecomesStillThere
    <3>3. proc[pid] \in Stopped => After(proc[pid], "CONT") # "free"
      BY DEF After, Stopped
    <3> QED BY <1>1, <3>1, <3>2, <3>3 DEF Child, ChildSetpgid, ChildExec, ChildRuns
  <2> QED BY <1>1, <2>1, ChildInvPreserved DEF Child, Alive, Started
<1>2. ASSUME NEW s \in Keys, Press(s) PROVE ChildInv'
  BY <1>2, ChildInvPreserved DEF Press, Alive, Started, StillThere, Unreaped
<1>3. ASSUME NEW s \in Signals, Deliver(s) PROVE ChildInv'
  <2>1. Started' = Started \cup {s}
    BY <1>3 DEF Deliver, Started, TypeOK
  <2>2. CASE s # "CHLD"
    BY <1>3, <2>1, <2>2, ChildInvPreserved DEF Deliver, Alive, StillThere, Unreaped
  <2>3. CASE s = "CHLD"
    <3>1. /\ Alive /\ "CHLD" \notin Started /\ chld'.pc = "wait"
          /\ UNCHANGED <<proc, unwaited, jobs, main>>
      BY <1>3, <2>3 DEF Deliver, NoChld
    <3>2. chld.pc = "idle"
      BY <3>1 DEF ChildInv
    <3> QED BY <2>1, <2>3, <3>1, <3>2 DEF ChildInv, Unreaped, Listed, Alive
  <2> QED BY <2>2, <2>3
<1> QED BY <1>1, <1>2, <1>3 DEF Inputs

\* sigchld_handler: what waitpid reaps is in chld.pid until it is off the list.
LEMMA ChldChildInv ==
    ASSUME TypeOK, TypeOK', ChildInv, WakeInv, ChldHandler
    PROVE  ChildInv'
<1>1. Alive /\ "CHLD" \in Started /\ main.pc # "forked" /\ stack # <<>>
  <2>1. Alive /\ "CHLD" \in Started /\ stack # <<>>
    BY DEF ChldHandler, ChldWait, ChldDone, ChldUnknown, ChldUpdate, OnTop, Started, TypeOK
  <2> QED BY <2>1 DEF WakeInv
<1>2. ASSUME NEW pid \in Pids, ChldWait(pid) PROVE ChildInv'
  <2>1. \A i \in Listed : Unreaped(jobs[i].pid)
    BY <1>1, <1>2 DEF ChildInv, ChldWait
  <2>2. /\ chld'.pc = "update" /\ chld'.pid = pid
        /\ chld'.stat = "stopped" => proc[pid] \notin Zombie /\ pid \in unwaited
        /\ UNCHANGED <<jobs, main, stack>>
    BY <1>2 DEF ChldWait, Reportable, Zombie
  <2>3. /\ \A p \in Pids \ {pid} : proc'[p] = proc[p]
        /\ chld'.stat = "stopped" => proc'[pid] = proc[pid]
        /\ unwaited' = unwaited \ {pid}
    BY <1>2, <2>2 DEF ChldWait, TypeOK
  <2>4. \A i \in Listed : jobs[i].pid \in Pids
    BY DEF Listed, TypeOK, Job
  <2>5. \A p \in unwaited : p \in Pids /\ Unreaped(p)
    BY <1>1 DEF ChildInv, TypeOK
  <2>6. Listed' = Listed /\ Started' = Started
    BY <2>2 DEF Listed, Started
  <2> QED BY <1>1, <2>1, <2>2, <2>3, <2>4, <2>5, <2>6 DEF ChildInv, Unreaped
<1>3. CASE ChldDone \/ ChldUnknown
  <2>1. \A i \in Listed : Unreaped(jobs[i].pid)
    <3>1. CASE ChldDone
      BY <1>1, <3>1 DEF ChildInv, ChldDone
    <3>2. CASE ChldUnknown
      <4>1. \A i \in Listed : jobs[i].pid # chld.pid
        <5>1. \A i \in Listed : i \in Slots /\ jobs[i].pid \in Nat \ {0}
          BY PidsAssumption DEF Listed, TypeOK, Job
        <5> QED BY <3>2, <5>1 DEF ChldUnknown, SlotsOfPid
      <4> QED BY <1>1, <4>1 DEF ChildInv
    <3> QED BY <1>3, <3>1, <3>2
  <2>2. /\ chld'.pc = "idle" /\ UNCHANGED <<proc, unwaited, jobs>> /\ Return
    BY <1>3 DEF ChldDone, ChldUnknown, NoChld
  <2>3. main'.pc # "forked"
    BY <1>1, <2>2, ReturnMain DEF TypeOK, MainType
  <2> QED BY <1>1, <2>1, <2>2, <2>3, ChildInvPreserved DEF StillThere, Unreaped
<1>4. CASE ChldUpdate
  <2>1. /\ chld.pc = "update" /\ SlotsOfPid(jobs, chld.pid) # {}
        /\ chld'.pc = "wait" /\ UNCHANGED <<proc, unwaited, main, stack>>
    BY <1>4 DEF ChldUpdate, TypeOK, ChldType
  <2>2. \A i \in Listed : jobs[i].pid \in Pids
    BY DEF Listed, TypeOK, Job
  <2>3. Started' = Started
    BY <2>1 DEF Started
  <2>4. CASE chld.stat = "stopped"
    <3>1. \A i \in Slots : jobs'[i].pid = jobs[i].pid
      <4>1. PICK k \in Slots : jobs' = [jobs EXCEPT ![k].state = "ST"]
        BY <1>4, <2>4, FirstSlot DEF ChldUpdate, SlotsOfPid
      <4> QED BY <4>1 DEF TypeOK, Job
    <3>2. Listed' = Listed
      BY <3>1 DEF Listed
    <3> QED BY <1>1, <2>1, <2>2, <2>3, <2>4, <3>1, <3>2 DEF ChildInv, Unreaped, Listed
  <2>5. CASE chld.stat # "stopped"
    <3>1. jobs' = JobsAfterDelete(jobs, chld.pid)
      BY <1>4, <2>5 DEF ChldUpdate
    <3>2. PICK k \in SlotsOfPid(jobs, chld.pid) : jobs' = [jobs EXCEPT ![k] = ClearedJob]
      BY <2>1, <3>1, DeleteCases
    <3>3. k \in Listed /\ jobs[k].pid = chld.pid
      BY <3>2, <2>1, <1>1 DEF SlotsOfPid, Listed
    <3>4. Listed' = Listed \ {k} /\ \A i \in Listed' : jobs'[i].pid = jobs[i].pid
      BY <3>2, <3>3 DEF Listed, ClearedJob, TypeOK
    <3> QED BY <1>1, <2>1, <2>2, <2>3, <3>3, <3>4 DEF ChildInv, Unreaped
  <2> QED BY <2>4, <2>5
<1> QED BY <1>2, <1>3, <1>4 DEF ChldHandler

\* The handlers of the keyboard's signals keep it.
LEMMA KeyChildInv ==
    ASSUME TypeOK, TypeOK', ChildInv, WakeInv, NEW s \in Keys, KeyHandler(s)
    PROVE  ChildInv'
<1>1. Alive /\ stack # <<>> /\ stack[Len(stack)] # "CHLD"
  BY DEF KeyHandler, KeyLook, KeyKill, OnTop, Keys
<1>2. CASE Exit("problem")
  BY <1>2, ExitMain DEF ChildInv, Alive, Dead
<1>3. CASE UNCHANGED <<kernelVars, jobs, chld, stack, main>>
  BY <1>1, <1>3, ChildInvPreserved DEF StillThere, Unreaped, Started
<1>4. CASE Return /\ StillThere /\ UNCHANGED <<jobs, chld>>
  <2>1. "CHLD" \in Started => "CHLD" \in Started'
    BY <1>1, <1>4, ReturnStack
  <2>2. main'.pc = "forked" => main.pc = "forked" /\ main'.pid = main.pid
    BY <1>4, ReturnMain DEF TypeOK, MainType
  <2> QED BY <1>1, <1>4, <2>1, <2>2, ChildInvPreserved
<1>5. UNCHANGED kernelVars => StillThere
  BY DEF StillThere, Unreaped
<1>6. Kill(kbd[s].pid, s) => StillThere
  BY KillStillThere DEF TypeOK, KeyType
<1> QED BY <1>2, <1>3, <1>4, <1>5, <1>6 DEF KeyHandler, KeyLook, KeyKill

\* The main program keeps it: what addjob lists has been forked and is unreaped,
\* for SIGCHLD is blocked in between (tsh.c:339-361).
LEMMA MainChildInv ==
    ASSUME TypeOK, TypeOK', ChildInv, WakeInv, Command \/ MainStep
    PROVE  ChildInv'
<1>1. \A i \in Listed : i \in Slots /\ jobs[i].pid \in Pids /\ jobs[i].pid \in Nat \ {0}
  BY PidsAssumption DEF Listed, TypeOK, Job
<1>2. Alive
  BY DEF Command, MainStep, Quit, Sigquit, ForkFails, Fork, BgFg, AddJob, ReadPid, SendCont,
         Mark, ReadArg, WaitfgBlock, WaitfgTest, WaitfgSuspend, MainAt, Alive, Dead
<1>3. stack = <<>> => chld.pc = "idle" /\ \A i \in Listed : Unreaped(jobs[i].pid)
  BY <1>2 DEF ChildInv, Started
<1>4. CASE Quit \/ Sigquit \/ ForkFails
  BY <1>4, ExitMain DEF Quit, Sigquit, ForkFails, ChildInv, Alive, Dead
<1>5. ASSUME NEW pid \in Pids, NEW cmd \in {"FG", "BG"}, Fork(pid, cmd) PROVE ChildInv'
  <2>1. /\ stack = <<>> /\ proc[pid] = "free" /\ proc' = [proc EXCEPT ![pid] = "forked"]
        /\ main'.pid = pid /\ UNCHANGED <<unwaited, jobs, chld, stack>>
    BY <1>5 DEF Fork, MainAt, AtPrompt
  <2>2. \A p \in Pids : Unreaped(p) => Unreaped(p)'
    BY <2>1 DEF TypeOK, Unreaped
  <2>3. Unreaped(pid)'
    BY <2>1 DEF TypeOK, Unreaped
  <2>4. \A i \in Listed : jobs[i].pid # pid
    BY <1>3, <2>1 DEF Unreaped
  <2>5. Listed' = Listed
    BY <2>1 DEF Listed
  <2>6. \A p \in unwaited : p \in Pids
    BY DEF TypeOK
  <2> QED BY <1>1, <1>2, <1>3, <2>1, <2>2, <2>3, <2>4, <2>5, <2>6 DEF ChildInv
<1>6. CASE AddJob
  <2>1. /\ stack = <<>> /\ main.pc = "forked" /\ main'.pc # "forked"
        /\ UNCHANGED <<proc, unwaited, chld, stack>>
    BY <1>6 DEF AddJob, MainAt, AtPrompt, TypeOK, MainType
  <2>2. /\ main.pid \in Pids /\ main.pid \in Nat \ {0} /\ Unreaped(main.pid)
        /\ \A i \in Listed : jobs[i].pid # main.pid
    BY <1>2, <2>1, PidsAssumption DEF ChildInv
  <2>3. CASE jobs' = jobs
    BY <1>2, <2>1, <2>3, ChildInvPreserved DEF StillThere, Unreaped, Started
  <2>4. CASE jobs' # jobs
    <3>1. PICK k \in Slots : jobs' = [jobs EXCEPT ![k] =
                [pid |-> main.pid, jid |-> nextjid, state |-> main.cmd]]
      BY <1>6, <2>4, AddJobCases
    <3>2. /\ Listed' \subseteq Listed \cup {k} /\ jobs'[k].pid = main.pid
          /\ \A i \in Slots \ {k} : jobs'[i] = jobs[i]
      <4>1. jobs'[k].pid = main.pid /\ \A i \in Slots \ {k} : jobs'[i] = jobs[i]
        BY <3>1 DEF TypeOK
      <4> QED BY <4>1 DEF Listed
    <3>3. \A i, j \in Listed' : jobs'[i].pid = jobs'[j].pid => i = j
      BY <1>1, <1>2, <2>2, <3>2 DEF ChildInv
    <3>4. \A i \in Listed' : proc'[jobs'[i].pid] # "free"
      BY <1>1, <1>3, <2>1, <2>2, <3>2 DEF Unreaped
    <3>5. chld'.pc = "idle" /\ \A p \in unwaited' : Unreaped(p)'
      BY <1>2, <1>3, <2>1 DEF ChildInv, Unreaped
    <3> QED BY <2>1, <3>3, <3>4, <3>5 DEF ChildInv, Unreaped
  <2> QED BY <2>3, <2>4
<1>7. CASE SendCont
  <2>1. CASE GroupExists(main.pid)
    <3>1. /\ UNCHANGED <<jobs, chld, stack>> /\ main'.pc # "forked"
          /\ Kill(main.pid, "CONT") /\ main.pid \in Pids \cup {0}
      BY <1>7, <2>1 DEF SendCont, TypeOK, MainType
    <3> QED BY <1>2, <3>1, KillStillThere, ChildInvPreserved DEF Started
  <2>2. CASE ~GroupExists(main.pid)
    BY <1>7, <2>2, ExitMain DEF SendCont, ChildInv, Alive, Dead
  <2> QED BY <2>1, <2>2
<1>8. ASSUME UNCHANGED <<kernelVars, chld, stack>>, main'.pc # "forked",
             \A i \in Slots : jobs'[i].pid = jobs[i].pid
      PROVE  ChildInv'
  BY <1>2, <1>8, ChildInvPreserved DEF StillThere, Unreaped, Started
<1>9. CASE Mark
  <2>1. \A i \in Slots : jobs'[i].pid = jobs[i].pid
    BY <1>9 DEF Mark, TypeOK, Job
  <2>2. main'.pc # "forked" /\ UNCHANGED <<kernelVars, chld, stack>>
    BY <1>9 DEF Mark, AtPrompt, TypeOK, MainType
  <2> QED BY <1>8, <2>1, <2>2
<1>10. ASSUME NEW i \in Slots, NEW cmd \in {"FG", "BG"}, BgFg(i, cmd) PROVE ChildInv'
  BY <1>8, <1>10 DEF BgFg, AtPrompt
<1>11. CASE ReadPid \/ ReadArg
  BY <1>8, <1>11 DEF ReadPid, ReadArg, TypeOK, MainType
<1>12. CASE WaitfgBlock \/ WaitfgSuspend
  BY <1>8, <1>12 DEF WaitfgBlock, WaitfgSuspend, Goto, TypeOK, MainType
<1>13. CASE WaitfgTest
  BY <1>8, <1>13 DEF WaitfgTest, AtPrompt, TypeOK, MainType
<1> QED BY <1>4, <1>5, <1>6, <1>7, <1>9, <1>10, <1>11, <1>12, <1>13 DEF Command, MainStep

\* In every behaviour the listed jobs are children that have not been reaped,
\* but for the one the handler is about to delete.
LEMMA ChildInvariant == Spec => []ChildInv
<1>1. Init => ChildInv
  BY DEF Init, ChildInv, Listed, InitJobs, ClearedJob, NoChld, AtPrompt
<1>2. TypeOK /\ TypeOK' /\ WakeInv /\ ChildInv /\ [Next]_vars => ChildInv'
  <2> SUFFICES ASSUME TypeOK, TypeOK', WakeInv, ChildInv, [Next]_vars PROVE ChildInv'
    OBVIOUS
  <2>1. CASE UNCHANGED vars
    BY <2>1, ChildInvPreserved DEF vars, StillThere, Unreaped, Started, Alive
  <2> QED BY <2>1, MainChildInv, ChldChildInv, KeyChildInv, InputsChildInv DEF Next, Ended
<1> QED BY <1>1, <1>2, TypeCorrect, WakeInvariant, PTL DEF Spec

\* Every listed job is a child that has not been reaped, and is listed once:
\* eval adds a job before the handler can see it end (tsh.c:343-361), and the
\* handler deletes what it reaps before the shell can fork again.
THEOREM ListedJobsAreChildren == Spec => []ListedAreChildren
<1>1. ChildInv => ListedAreChildren
  BY DEF ChildInv, ListedAreChildren, Unreaped
<1> QED BY <1>1, ChildInvariant, PTL

-----------------------------------------------------------------------------
(* The other direction: every child is listed.  It needs a list with a     *)
(* slot for every process (the shell ignores what a full list makes addjob *)
(* return), and then no job is deleted but one that has been reaped.       *)

RoomForAll == Cardinality(Pids) <= MAXJOBS

IsListed(p) == \E i \in Slots : jobs[i].pid = p

ListInv ==
    Alive /\ RoomForAll =>
        /\ \A p \in Pids : \/ proc[p] = "free"
                           \/ main.pc = "forked" /\ main.pid = p
                           \/ IsListed(p)
        /\ chld.pc = "update" =>
              /\ IsListed(chld.pid)
              /\ chld.stat # "stopped" => proc[chld.pid] = "free"

\* What the handler's scan of the list looks for is there.
LEMMA ListedHasSlot ==
    ASSUME NEW p \in Pids
    PROVE  IsListed(p) <=> SlotsOfPid(jobs, p) # {}
<1>1. p \in Nat /\ p > 0
  BY PidsAssumption
<1> QED BY <1>1 DEF IsListed, SlotsOfPid

\* With a slot for every process, a process that is not listed finds a free one:
\* otherwise the slots would hold more processes than there are.
LEMMA RoomForOneMore ==
    ASSUME TypeOK, ChildInv, Alive, RoomForAll, NEW p \in Pids, ~IsListed(p)
    PROVE  FreeSlots(jobs) # {}
<1> SUFFICES ASSUME FreeSlots(jobs) = {} PROVE FALSE
  OBVIOUS
<1> DEFINE T == Pids \ {p}
           f == [i \in Slots |-> jobs[i].pid]
<1>1. \A i \in Slots : i \in Listed /\ jobs[i].pid \in T
  BY DEF FreeSlots, Listed, IsListed, TypeOK, Job
<1>2. f \in Injection(Slots, T)
  BY <1>1 DEF Injection, IsInjective, ChildInv
<1>3. IsFiniteSet(T) /\ Cardinality(T) = Cardinality(Pids) - 1
  BY PidsFinite, FS_RemoveElement
<1>4. Cardinality(Slots) <= Cardinality(T)
  <2> HIDE DEF T, f
  <2> QED BY <1>2, <1>3, FS_Injection
<1>5. Cardinality(Slots) = MAXJOBS
  <2>1. 1 \in Int /\ MAXJOBS \in Int /\ MAXJOBS >= 1
    BY MAXJOBSAssumption
  <2>2. Cardinality(1 .. MAXJOBS) = MAXJOBS
    BY <2>1, FS_Interval
  <2> QED BY <2>2 DEF Slots
<1>6. Cardinality(Pids) \in Nat
  BY PidsFinite, FS_CardinalityType
<1> QED BY <1>3, <1>4, <1>5, <1>6, MAXJOBSAssumption DEF RoomForAll

\* A step that forks nobody and moves no pid keeps ListInv, if it lets the handler
\* be and what has been reaped stays so.
LEMMA ListInvPreserved ==
    ASSUME TypeOK, ChildInv, ListInv, Alive' => Alive,
           \A p \in Pids : proc[p] = "free" => proc'[p] = "free",
           \A i \in Slots : jobs'[i].pid = jobs[i].pid,
           chld' = chld \/ chld'.pc # "update",
           main.pc = "forked" => main'.pc \in Dead \/ (main'.pc = "forked" /\ main'.pid = main.pid)
    PROVE  ListInv'
<1> SUFFICES ASSUME Alive', RoomForAll PROVE ListInv'
  BY DEF ListInv, RoomForAll
<1>1. \A p : IsListed(p)' <=> IsListed(p)
  BY DEF IsListed
<1>2. main.pc = "forked" => main'.pc = "forked" /\ main'.pid = main.pid
  BY DEF Alive
<1>3. \A p \in Pids : \/ proc'[p] = "free"
                      \/ main'.pc = "forked" /\ main'.pid = p
                      \/ IsListed(p)'
  BY <1>1, <1>2 DEF ListInv
<1>4. ASSUME chld'.pc = "update"
      PROVE  IsListed(chld'.pid) /\ (chld'.stat # "stopped" => proc'[chld'.pid] = "free")
  <2>1. chld' = chld
    BY <1>4
  <2>2. chld.pid \in Pids
    BY <1>4, <2>1 DEF ChildInv
  <2> QED BY <1>1, <1>4, <2>1, <2>2 DEF ListInv
<1> QED BY <1>1, <1>3, <1>4 DEF ListInv

\* A step that makes no process of a free pid and none of a child keeps ListInv:
\* children and signals.
LEMMA BecomesFree ==
    ASSUME TypeOK, NEW pid \in Pids, NEW new, proc[pid] # "free", Becomes(pid, new)
    PROVE  \A p \in Pids : proc[p] = "free" => proc'[p] = "free"
BY DEF Becomes, TypeOK

\* Nor does kill.
LEMMA KillFree ==
    ASSUME TypeOK, NEW pid \in Pids \cup {0}, NEW sig, Kill(pid, sig)
    PROVE  \A p \in Pids : proc[p] = "free" => proc'[p] = "free"
<1>1. CASE UNCHANGED kernelVars
  BY <1>1
<1>2. CASE /\ pid # 0 /\ After(proc[pid], sig) # proc[pid]
           /\ Becomes(pid, After(proc[pid], sig))
  <2>1. proc[pid] # "free"
    BY <1>2 DEF After
  <2> QED BY <1>2, <2>1, BecomesFree
<1> QED BY <1>1, <1>2 DEF Kill

\* Children and the keyboard keep ListInv.
LEMMA InputsListInv ==
    ASSUME TypeOK, ChildInv, ListInv, Inputs
    PROVE  ListInv'
<1>1. ASSUME NEW pid \in Pids, Child(pid) PROVE ListInv'
  <2>1. \A p \in Pids : proc[p] = "free" => proc'[p] = "free"
    <3>1. CASE proc[pid] \in {"forked", "grouped"} /\ \E new \in {"grouped", "running"} :
                  proc' = [proc EXCEPT ![pid] = new]
      BY <3>1 DEF TypeOK
    <3>2. ASSUME NEW new, proc[pid] # "free", Becomes(pid, new)
          PROVE \A p \in Pids : proc[p] = "free" => proc'[p] = "free"
      BY <3>2, BecomesFree
    <3> QED BY <1>1, <3>1, <3>2 DEF Child, ChildSetpgid, ChildExec, ChildRuns, Stopped
  <2> QED BY <1>1, <2>1, ListInvPreserved DEF Child, Alive
<1>2. ASSUME NEW s \in Keys, Press(s) PROVE ListInv'
  BY <1>2, ListInvPreserved DEF Press, Alive
<1>3. ASSUME NEW s \in Signals, Deliver(s) PROVE ListInv'
  <2>1. chld' = chld \/ chld'.pc # "update"
    BY <1>3 DEF Deliver, NoChld
  <2> QED BY <1>3, <2>1, ListInvPreserved DEF Deliver, Alive
<1> QED BY <1>1, <1>2, <1>3 DEF Inputs

\* The handler of SIGCHLD keeps it: what waitpid reports is on the list, and what
\* is deleted there has been reaped.
LEMMA ChldListInv ==
    ASSUME TypeOK, ChildInv, WakeInv, ListInv, ChldHandler
    PROVE  ListInv'
<1>1. Alive /\ main.pc # "forked" /\ stack # <<>>
  <2>1. Alive /\ "CHLD" \in Started /\ stack # <<>>
    BY DEF ChldHandler, ChldWait, ChldDone, ChldUnknown, ChldUpdate, OnTop, Started, TypeOK
  <2> QED BY <2>1 DEF WakeInv
<1>2. ASSUME NEW pid \in Pids, ChldWait(pid) PROVE ListInv'
  <2>1. \A p \in Pids : p # pid => proc'[p] = proc[p]
    BY <1>2 DEF ChldWait, TypeOK
  <2>2. proc[pid] # "free"
    <3>1. proc[pid] \in Zombie \/ pid \in unwaited
      BY <1>2 DEF ChldWait, Reportable
    <3> QED BY <1>1, <3>1 DEF ChildInv, Unreaped, Zombie
  <2>3. /\ chld'.pid = pid /\ UNCHANGED <<jobs, main>>
        /\ chld'.stat # "stopped" => proc'[pid] = "free"
    BY <1>2 DEF ChldWait, TypeOK
  <2>4. \A p : IsListed(p)' <=> IsListed(p)
    BY <2>3 DEF IsListed
  <2>5. proc'[pid] # "free" => proc[pid] # "free"
    BY <2>2
  <2> QED BY <1>1, <2>1, <2>2, <2>3, <2>4 DEF ListInv, Alive, RoomForAll
<1>3. CASE ChldDone \/ ChldUnknown
  <2>1. /\ chld'.pc # "update" /\ UNCHANGED <<proc, jobs>> /\ Return
    BY <1>3 DEF ChldDone, ChldUnknown, NoChld
  <2>2. Alive' => Alive
    BY <1>1
  <2> QED BY <1>1, <2>1, <2>2, ListInvPreserved
<1>4. CASE ChldUpdate
  <2>1. /\ chld.pc = "update" /\ chld'.pc = "wait" /\ UNCHANGED <<proc, main>>
        /\ SlotsOfPid(jobs, chld.pid) # {}
    BY <1>4 DEF ChldUpdate, TypeOK, ChldType
  <2>2. CASE chld.stat = "stopped"
    <3>1. \A i \in Slots : jobs'[i].pid = jobs[i].pid
      <4>1. PICK k \in Slots : jobs' = [jobs EXCEPT ![k].state = "ST"]
        BY <1>4, <2>2, FirstSlot DEF ChldUpdate, SlotsOfPid
      <4> QED BY <4>1 DEF TypeOK, Job
    <3> QED BY <1>1, <2>1, <3>1, ListInvPreserved
  <2>3. CASE chld.stat # "stopped"
    <3>1. jobs' = JobsAfterDelete(jobs, chld.pid)
      BY <1>4, <2>3 DEF ChldUpdate
    <3>2. PICK k \in SlotsOfPid(jobs, chld.pid) : jobs' = [jobs EXCEPT ![k] = ClearedJob]
      BY <2>1, <3>1, DeleteCases
    <3>3. \A p \in Pids : p # chld.pid /\ IsListed(p) => IsListed(p)'
      <4>1. \A i \in Slots : i # k => jobs'[i] = jobs[i]
        BY <3>2 DEF TypeOK
      <4>2. jobs[k].pid = chld.pid
        BY <3>2 DEF SlotsOfPid
      <4> QED BY <4>1, <4>2 DEF IsListed
    <3> QED BY <1>1, <2>1, <2>3, <3>3 DEF ListInv, Alive, RoomForAll
  <2> QED BY <2>2, <2>3
<1> QED BY <1>2, <1>3, <1>4 DEF ChldHandler

\* The handlers of the keyboard's signals keep it.
LEMMA KeyListInv ==
    ASSUME TypeOK, ChildInv, ListInv, NEW s \in Keys, KeyHandler(s)
    PROVE  ListInv'
<1>1. Alive
  BY DEF KeyHandler, KeyLook, KeyKill, OnTop
<1>2. CASE Exit("problem")
  BY <1>2, ExitMain DEF ListInv, Alive, Dead
<1>3. CASE UNCHANGED <<proc, jobs, chld, main>>
  BY <1>1, <1>3, ListInvPreserved
<1>4. CASE /\ Return /\ UNCHANGED <<jobs, chld>>
           /\ \A p \in Pids : proc[p] = "free" => proc'[p] = "free"
  <2>1. main.pc = "forked" => main'.pc = "forked" /\ main'.pid = main.pid
    BY <1>4, ReturnMain
  <2> QED BY <1>1, <1>4, <2>1, ListInvPreserved
<1>5. Kill(kbd[s].pid, s) => \A p \in Pids : proc[p] = "free" => proc'[p] = "free"
  BY KillFree DEF TypeOK, KeyType
<1> QED BY <1>2, <1>3, <1>4, <1>5 DEF KeyHandler, KeyLook, KeyKill

\* The main program keeps it: addjob finds a free slot for what has been forked,
\* and do_bgfg changes the state of a job only.
LEMMA MainListInv ==
    ASSUME TypeOK, ChildInv, WakeInv, ListInv, Command \/ MainStep
    PROVE  ListInv'
<1>1. Alive
  BY DEF Command, MainStep, Quit, Sigquit, ForkFails, Fork, BgFg, AddJob, ReadPid, SendCont,
         Mark, ReadArg, WaitfgBlock, WaitfgTest, WaitfgSuspend, MainAt, Alive, Dead
<1>2. stack = <<>> => chld.pc = "idle"
  BY <1>1 DEF ChildInv, Started
<1>3. CASE Quit \/ Sigquit \/ ForkFails
  BY <1>3, ExitMain DEF Quit, Sigquit, ForkFails, ListInv, Alive, Dead
<1>4. ASSUME NEW pid \in Pids, NEW cmd \in {"FG", "BG"}, Fork(pid, cmd) PROVE ListInv'
  <2>1. /\ chld'.pc = "idle" /\ main.pc = "prompt" /\ main'.pc = "forked" /\ main'.pid = pid
        /\ jobs' = jobs /\ \A p \in Pids : p # pid => proc'[p] = proc[p]
    BY <1>2, <1>4 DEF Fork, MainAt, AtPrompt, TypeOK
  <2>2. \A p : IsListed(p)' <=> IsListed(p)
    BY <2>1 DEF IsListed
  <2> QED BY <1>1, <2>1, <2>2 DEF ListInv, RoomForAll
<1>5. CASE AddJob
  <2> SUFFICES ASSUME RoomForAll PROVE ListInv'
    BY DEF ListInv, RoomForAll
  <2>1. /\ stack = <<>> /\ main.pc = "forked" /\ UNCHANGED <<proc, chld>>
    BY <1>5 DEF AddJob, MainAt
  <2>2. /\ main.pid \in Pids /\ main.pid \in Nat \ {0}
        /\ ~IsListed(main.pid)
    BY <1>1, <2>1, PidsAssumption DEF ChildInv, IsListed, Listed
  <2>3. FreeSlots(jobs) # {}
    BY <1>1, <2>2, RoomForOneMore
  <2>4. PICK k \in FreeSlots(jobs) : jobs' = [jobs EXCEPT ![k] =
              [pid |-> main.pid, jid |-> nextjid, state |-> main.cmd]]
    <3>1. Min(FreeSlots(jobs)) \in FreeSlots(jobs)
      BY <2>3, FirstSlot DEF FreeSlots
    <3>2. ~(main.pid < 1)
      BY <2>2
    <3>3. jobs' = [jobs EXCEPT ![Min(FreeSlots(jobs))] =
              [pid |-> main.pid, jid |-> nextjid, state |-> main.cmd]]
      BY <1>5, <2>3, <3>2 DEF AddJob, JobsAfterAdd
    <3> QED BY <3>1, <3>3
  <2>5. \A p \in Pids : IsListed(p) \/ p = main.pid => IsListed(p)'
    <3>1. k \in Slots /\ jobs[k].pid = 0
      BY DEF FreeSlots
    <3>2. jobs'[k].pid = main.pid /\ \A i \in Slots : i # k => jobs'[i] = jobs[i]
      BY <2>4, <3>1 DEF TypeOK
    <3>3. \A p \in Pids : p # 0
      BY PidsAssumption
    <3> QED BY <3>1, <3>2, <3>3 DEF IsListed
  <2> QED BY <1>1, <1>2, <2>1, <2>5 DEF ListInv
<1>6. CASE SendCont
  <2>1. CASE GroupExists(main.pid)
    <3>1. /\ UNCHANGED <<jobs, chld>> /\ main.pc # "forked"
          /\ Kill(main.pid, "CONT") /\ main.pid \in Pids \cup {0}
      BY <1>6, <2>1 DEF SendCont, MainAt, TypeOK, MainType
    <3> QED BY <1>1, <3>1, KillFree, ListInvPreserved
  <2>2. CASE ~GroupExists(main.pid)
    BY <1>6, <2>2, ExitMain DEF SendCont, ListInv, Alive, Dead
  <2> QED BY <2>1, <2>2
<1>7. ASSUME UNCHANGED <<proc, chld>>, main.pc # "forked",
             \A i \in Slots : jobs'[i].pid = jobs[i].pid
      PROVE  ListInv'
  BY <1>1, <1>7, ListInvPreserved
<1>8. CASE Mark
  <2>1. \A i \in Slots : jobs'[i].pid = jobs[i].pid
    BY <1>8 DEF Mark, TypeOK, Job
  <2> QED BY <1>7, <1>8, <2>1 DEF Mark, MainAt
<1>9. ASSUME NEW i \in Slots, NEW cmd \in {"FG", "BG"}, BgFg(i, cmd) PROVE ListInv'
  BY <1>7, <1>9 DEF BgFg, MainAt
<1>10. CASE ReadPid \/ ReadArg \/ WaitfgBlock \/ WaitfgTest \/ WaitfgSuspend
  BY <1>7, <1>10 DEF ReadPid, ReadArg, WaitfgBlock, WaitfgTest, WaitfgSuspend, MainAt
<1> QED BY <1>3, <1>4, <1>5, <1>6, <1>8, <1>9, <1>10 DEF Command, MainStep

\* In every behaviour of a shell with room for all its children, they are listed,
\* and so is what the handler looks for.
LEMMA ListInvariant == Spec => []ListInv
<1>1. Init => ListInv
  BY DEF Init, ListInv, NoChld
<1>2. TypeOK /\ WakeInv /\ ChildInv /\ ListInv /\ [Next]_vars => ListInv'
  <2> SUFFICES ASSUME TypeOK, WakeInv, ChildInv, ListInv, [Next]_vars PROVE ListInv'
    OBVIOUS
  <2>1. CASE UNCHANGED vars
    <3>1. UNCHANGED <<proc, jobs, chld, main>>
      BY <2>1 DEF vars
    <3> QED BY <3>1, ListInvPreserved DEF Alive
  <2> QED BY <2>1, MainListInv, ChldListInv, KeyListInv, InputsListInv DEF Next, Ended
<1> QED BY <1>1, <1>2, TypeCorrect, WakeInvariant, ChildInvariant, PTL DEF Spec

\* While the list has room for every child, no child is missing from it: eval adds
\* a job before the handler can run (tsh.c:343-361), and the handler deletes only
\* what it has reaped, never a child that has merely stopped (tsh.c:542-559).
THEOREM AllChildrenAreListed == Spec => []ChildrenAreListed
<1>1. ListInv => ChildrenAreListed
  BY ListedHasSlot DEF ListInv, ChildrenAreListed, RoomForAll
<1> QED BY <1>1, ListInvariant, PTL

-----------------------------------------------------------------------------
(* No child is forgotten.  Signals do not queue, so one SIGCHLD may stand  *)
(* for several children; the handler therefore leaves only when waitpid    *)
(* has nothing to report, for with room on the list it knows every child   *)
(* it is told of.                                                          *)

\* Only a change that raises SIGCHLD makes a child reportable.
NothingNewUnsignalled ==
    /\ \A p \in Pids : p \in Reportable' => p \in Reportable \/ "CHLD" \in pend'
    /\ "CHLD" \in pend => "CHLD" \in pend'

\* A child that changes its state raises SIGCHLD, unless it only gets a signal
\* while it is stopped.
LEMMA BecomesSignals ==
    ASSUME TypeOK, NEW pid \in Pids, NEW new, Becomes(pid, new)
    PROVE  NothingNewUnsignalled
<1>1. CASE new = "doomed"
  <2>1. /\ unwaited' = unwaited /\ pend' = pend
        /\ \A p \in Pids : proc'[p] \in Zombie => proc[p] \in Zombie
    BY <1>1 DEF Becomes, TypeOK, Zombie
  <2> QED BY <2>1 DEF NothingNewUnsignalled, Reportable
<1>2. CASE new # "doomed"
  BY <1>2 DEF Becomes, NothingNewUnsignalled
<1> QED BY <1>1, <1>2

\* So does what kill makes of a child.
LEMMA KillSignals ==
    ASSUME TypeOK, NEW pid \in Pids \cup {0}, NEW sig, Kill(pid, sig)
    PROVE  NothingNewUnsignalled
<1>1. CASE UNCHANGED kernelVars
  BY <1>1 DEF NothingNewUnsignalled, Reportable
<1>2. CASE pid \in Pids /\ Becomes(pid, After(proc[pid], sig))
  BY <1>2, BecomesSignals
<1> QED BY <1>1, <1>2 DEF Kill

\* A step after which the handler is still on the stack, if it was, keeps the
\* promise when it raises SIGCHLD for what it makes reportable.
LEMMA ReapsAllPreserved ==
    ASSUME TypeOK, HandlerReapsAllListed, Alive' => Alive, NothingNewUnsignalled,
           "CHLD" \in Started => "CHLD" \in Started'
    PROVE  HandlerReapsAllListed'
<1> SUFFICES ASSUME RoomForAll, Alive', Reportable' # {}
             PROVE  "CHLD" \in pend' \cup Started'
  BY DEF HandlerReapsAllListed, HandlerReapsAll, RoomForAll
<1>1. PICK p \in Pids : p \in Reportable'
  BY DEF Reportable
<1>2. CASE p \in Reportable
  BY <1>2 DEF NothingNewUnsignalled, HandlerReapsAllListed, HandlerReapsAll, RoomForAll
<1>3. CASE p \notin Reportable
  BY <1>1, <1>3 DEF NothingNewUnsignalled
<1> QED BY <1>2, <1>3

\* Children, the keyboard and the delivery of signals keep the promise.
LEMMA InputsReapAll ==
    ASSUME TypeOK, HandlerReapsAllListed, Inputs
    PROVE  HandlerReapsAllListed'
<1>1. ASSUME NEW pid \in Pids, Child(pid) PROVE HandlerReapsAllListed'
  <2>1. NothingNewUnsignalled
    <3>1. CASE /\ proc[pid] \in {"forked", "grouped"} /\ UNCHANGED <<unwaited, pend>>
               /\ \E new \in {"grouped", "running"} : proc' = [proc EXCEPT ![pid] = new]
      <4>1. \A p \in Pids : proc'[p] \in Zombie => proc[p] \in Zombie
        BY <3>1 DEF TypeOK, Zombie
      <4> QED BY <3>1, <4>1 DEF NothingNewUnsignalled, Reportable
    <3>2. ASSUME NEW new, Becomes(pid, new) PROVE NothingNewUnsignalled
      BY <3>2, BecomesSignals
    <3> QED BY <1>1, <3>1, <3>2 DEF Child, ChildSetpgid, ChildExec, ChildRuns
  <2> QED BY <1>1, <2>1, ReapsAllPreserved DEF Child, Alive, Started
<1>2. ASSUME NEW s \in Keys, Press(s) PROVE HandlerReapsAllListed'
  BY <1>2, ReapsAllPreserved DEF Press, Alive, Started, NothingNewUnsignalled, Reportable
<1>3. ASSUME NEW s \in Signals, Deliver(s) PROVE HandlerReapsAllListed'
  <2>1. Started' = Started \cup {s}
    BY <1>3 DEF Deliver, Started, TypeOK
  <2>2. CASE s = "CHLD"
    BY <2>1, <2>2 DEF HandlerReapsAllListed, HandlerReapsAll
  <2>3. CASE s # "CHLD"
    <3>1. NothingNewUnsignalled
      BY <1>3, <2>3 DEF Deliver, NothingNewUnsignalled, Reportable
    <3>2. Alive' => Alive
      BY <1>3 DEF Deliver
    <3> QED BY <2>1, <3>1, <3>2, ReapsAllPreserved
  <2> QED BY <2>2, <2>3
<1> QED BY <1>1, <1>2, <1>3 DEF Inputs

\* The handler of SIGCHLD does: it returns only when there is nothing to report.
LEMMA ChldReapsAll ==
    ASSUME TypeOK, ChildInv, ListInv, HandlerReapsAllListed, ChldHandler
    PROVE  HandlerReapsAllListed'
<1> SUFFICES ASSUME RoomForAll PROVE HandlerReapsAllListed'
  BY DEF HandlerReapsAllListed, RoomForAll
<1>1. Alive
  BY DEF ChldHandler, ChldWait, ChldDone, ChldUnknown, ChldUpdate, OnTop
<1>2. ASSUME NEW pid \in Pids, ChldWait(pid) PROVE HandlerReapsAllListed'
  <2>1. \A p \in Pids : p \in Reportable' => p \in Reportable
    BY <1>2 DEF ChldWait, Reportable, TypeOK, Zombie
  <2>2. NothingNewUnsignalled
    BY <1>2, <2>1 DEF ChldWait, NothingNewUnsignalled
  <2> QED BY <1>1, <1>2, <2>2, ReapsAllPreserved DEF ChldWait, Started
<1>3. CASE ChldDone
  <2>1. Reportable' = {}
    BY <1>3 DEF ChldDone, Reportable
  <2> QED BY <2>1 DEF HandlerReapsAllListed, HandlerReapsAll
<1>4. ~ChldUnknown
  <2> SUFFICES ASSUME ChldUnknown PROVE FALSE
    OBVIOUS
  <2>1. chld.pc = "update" /\ SlotsOfPid(jobs, chld.pid) = {}
    BY DEF ChldUnknown
  <2>2. IsListed(chld.pid) /\ chld.pid \in Pids
    BY <1>1, <2>1 DEF ListInv, ChildInv
  <2> QED BY <2>1, <2>2, ListedHasSlot
<1>5. CASE ChldUpdate
  <2>1. UNCHANGED <<kernelVars, stack>>
    BY <1>5 DEF ChldUpdate
  <2> QED BY <1>1, <2>1, ReapsAllPreserved DEF Started, NothingNewUnsignalled, Reportable
<1> QED BY <1>2, <1>3, <1>4, <1>5 DEF ChldHandler

\* The handlers of the keyboard's signals keep the promise.
LEMMA KeyReapsAll ==
    ASSUME TypeOK, HandlerReapsAllListed, NEW s \in Keys, KeyHandler(s)
    PROVE  HandlerReapsAllListed'
<1>1. Alive /\ stack # <<>> /\ stack[Len(stack)] # "CHLD"
  BY DEF KeyHandler, KeyLook, KeyKill, OnTop, Keys
<1>2. CASE Exit("problem")
  BY <1>2, ExitMain DEF HandlerReapsAllListed, HandlerReapsAll, Alive, Dead
<1>3. CASE UNCHANGED <<kernelVars, stack>>
  BY <1>1, <1>3, ReapsAllPreserved DEF Started, NothingNewUnsignalled, Reportable
<1>4. CASE Return /\ NothingNewUnsignalled
  <2>1. "CHLD" \in Started => "CHLD" \in Started'
    BY <1>1, <1>4, ReturnStack
  <2> QED BY <1>1, <1>4, <2>1, ReapsAllPreserved
<1>5. UNCHANGED kernelVars => NothingNewUnsignalled
  BY DEF NothingNewUnsignalled, Reportable
<1>6. Kill(kbd[s].pid, s) => NothingNewUnsignalled
  BY KillSignals DEF TypeOK, KeyType
<1> QED BY <1>2, <1>3, <1>4, <1>5, <1>6 DEF KeyHandler, KeyLook, KeyKill

\* The main program does, for a forked child has nothing to report.
LEMMA MainReapsAll ==
    ASSUME TypeOK, HandlerReapsAllListed, Command \/ MainStep
    PROVE  HandlerReapsAllListed'
<1>1. Alive
  BY DEF Command, MainStep, Quit, Sigquit, ForkFails, Fork, BgFg, AddJob, ReadPid, SendCont,
         Mark, ReadArg, WaitfgBlock, WaitfgTest, WaitfgSuspend, MainAt, Alive, Dead
<1>2. ASSUME NEW pc \in Dead, Exit(pc) PROVE HandlerReapsAllListed'
  BY <1>2, ExitMain DEF HandlerReapsAllListed, HandlerReapsAll, Alive
<1>3. ASSUME NothingNewUnsignalled, UNCHANGED stack PROVE HandlerReapsAllListed'
  BY <1>1, <1>3, ReapsAllPreserved DEF Started
<1>4. ASSUME NEW pid \in Pids, NEW cmd \in {"FG", "BG"}, Fork(pid, cmd)
      PROVE  HandlerReapsAllListed'
  <2>1. \A p \in Pids : proc'[p] \in Zombie => proc[p] \in Zombie
    BY <1>4 DEF Fork, TypeOK, Zombie
  <2>2. UNCHANGED <<unwaited, pend, stack>>
    BY <1>4 DEF Fork
  <2>3. NothingNewUnsignalled
    BY <2>1, <2>2 DEF NothingNewUnsignalled, Reportable
  <2> QED BY <1>3, <2>2, <2>3
<1>5. CASE SendCont
  <2>1. main.pid \in Pids \cup {0}
    BY DEF TypeOK, MainType
  <2>2. CASE GroupExists(main.pid)
    <3>1. Kill(main.pid, "CONT") /\ UNCHANGED stack
      BY <1>5, <2>2 DEF SendCont
    <3> QED BY <1>3, <2>1, <3>1, KillSignals
  <2>3. CASE ~GroupExists(main.pid)
    BY <1>2, <1>5, <2>3 DEF SendCont, Dead
  <2> QED BY <2>2, <2>3
<1>6. ASSUME UNCHANGED <<kernelVars, stack>> PROVE HandlerReapsAllListed'
  BY <1>3, <1>6 DEF NothingNewUnsignalled, Reportable
<1> QED BY <1>2, <1>4, <1>5, <1>6
        DEF Command, MainStep, Quit, Sigquit, ForkFails, BgFg, AddJob, ReadPid,
            Mark, ReadArg, WaitfgBlock, WaitfgTest, WaitfgSuspend, Dead

\* "The handler reaps all available zombie children" (tsh.c:526) although signals do
\* not queue: with room for every child on the list, a child that can be waited for
\* always has a SIGCHLD pending or in the course of being handled.
THEOREM HandlerForgetsNoChild == Spec => []HandlerReapsAllListed
<1>1. Init => HandlerReapsAllListed
  BY DEF Init, HandlerReapsAllListed, HandlerReapsAll, Reportable, Zombie
<1>2. TypeOK /\ ChildInv /\ ListInv /\ HandlerReapsAllListed /\ [Next]_vars
         => HandlerReapsAllListed'
  <2> SUFFICES ASSUME TypeOK, ChildInv, ListInv, HandlerReapsAllListed, [Next]_vars
               PROVE  HandlerReapsAllListed'
    OBVIOUS
  <2>1. CASE UNCHANGED vars
    <3>1. UNCHANGED <<proc, unwaited, pend, stack, main>>
      BY <2>1 DEF vars
    <3> QED BY <3>1 DEF HandlerReapsAllListed, HandlerReapsAll, Reportable, Started, Alive
  <2> QED BY <2>1, MainReapsAll, ChldReapsAll, KeyReapsAll, InputsReapAll DEF Next, Ended
<1> QED BY <1>1, <1>2, TypeCorrect, ChildInvariant, ListInvariant, PTL DEF Spec

-----------------------------------------------------------------------------
(* The shell implements job control.  The state of a process's job is that *)
(* of the one slot that holds its pid, so a step that changes one slot     *)
(* changes one job, and FGInv gives the guards.                            *)

\* The state of p's job on the list js.
JobIn(js, p) ==
    IF SlotsOfPid(js, p) = {} THEN "none" ELSE js[Min(SlotsOfPid(js, p))].state

\* A process on no slot has no job.
LEMMA JobInNone ==
    ASSUME NEW js, NEW p, \A i \in Slots : js[i].pid # p
    PROVE  JobIn(js, p) = "none"
BY DEF JobIn, SlotsOfPid

\* A process on one slot has the job that is there.
LEMMA JobInListed ==
    ASSUME NEW js, NEW p \in Nat \ {0}, NEW i \in Slots, js[i].pid = p,
           \A j \in Slots : js[j].pid = p => j = i
    PROVE  JobIn(js, p) = js[i].state
<1>1. SlotsOfPid(js, p) = {i}
  BY DEF SlotsOfPid
<1>2. Min(SlotsOfPid(js, p)) = i
  BY <1>1, FirstSlot
<1> QED BY <1>1, <1>2 DEF JobIn

\* A job does not change when no slot of its process does.
LEMMA JobInSame ==
    ASSUME NEW js, NEW ks, NEW p,
           \A i \in Slots : ks[i].pid = p <=> js[i].pid = p,
           \A i \in Slots : js[i].pid = p => ks[i].state = js[i].state
    PROVE  JobIn(ks, p) = JobIn(js, p)
<1>1. SlotsOfPid(ks, p) = SlotsOfPid(js, p)
  BY DEF SlotsOfPid
<1>2. CASE SlotsOfPid(js, p) = {}
  BY <1>1, <1>2 DEF JobIn
<1>3. CASE SlotsOfPid(js, p) # {}
  <2>1. Min(SlotsOfPid(js, p)) \in SlotsOfPid(js, p)
    BY <1>3, FirstSlot DEF SlotsOfPid
  <2> QED BY <1>1, <1>3, <2>1 DEF JobIn, SlotsOfPid
<1> QED BY <1>2, <1>3

\* What JobControl calls a job, before and after a step.
AllJobs(js) == [p \in Pids |-> JobIn(js, p)]

LEMMA AllJobsMeaning ==
    /\ [p \in Pids |-> JobOf(p)] = AllJobs(jobs)
    /\ [p \in Pids |-> JobOf(p)]' = AllJobs(jobs')
BY DEF AllJobs, JobIn, JobOf, SlotsOfPid

\* A list that is the same up to ids and to slots without a process has the same jobs.
LEMMA AllJobsSame ==
    ASSUME NEW js, NEW ks,
           \A i \in Slots : ks[i].pid = js[i].pid,
           \A i \in Slots : js[i].pid # 0 => ks[i].state = js[i].state
    PROVE  AllJobs(ks) = AllJobs(js)
<1>1. ASSUME NEW p \in Pids PROVE JobIn(ks, p) = JobIn(js, p)
  BY PidsAssumption, JobInSame
<1> QED BY <1>1 DEF AllJobs

\* The change of one slot changes the job of its process.
LEMMA AllJobsChange ==
    ASSUME NEW js, NEW ks, NEW k \in Slots, NEW p \in Pids,
           \A i \in Slots : i # k => ks[i] = js[i] /\ ks[i].pid # p,
           js[k].pid \in {0, p}, ks[k].pid \in {0, p}
    PROVE  AllJobs(ks) =
              [AllJobs(js) EXCEPT ![p] = IF ks[k].pid = p THEN ks[k].state ELSE "none"]
<1>1. p \in Nat \ {0}
  BY PidsAssumption
<1>2. ASSUME NEW q \in Pids, q # p PROVE JobIn(ks, q) = JobIn(js, q)
  <2>1. q # 0 /\ ks[k].pid # q /\ js[k].pid # q
    BY <1>2, PidsAssumption
  <2> QED BY <2>1, JobInSame
<1>3. JobIn(ks, p) = IF ks[k].pid = p THEN ks[k].state ELSE "none"
  <2>1. CASE ks[k].pid = p
    BY <1>1, <2>1, JobInListed
  <2>2. CASE ks[k].pid # p
    BY <2>2, JobInNone
  <2> QED BY <2>1, <2>2
<1> QED BY <1>2, <1>3 DEF AllJobs

\* With no slot in state FG no job is in the foreground.
LEMMA NoFGMeaning ==
    ASSUME FgSlots(jobs) = {}
    PROVE  JC!NoFG
<1>1. ASSUME NEW p \in Pids PROVE JobOf(p) # "FG"
  <2>1. CASE SlotsOfPid(jobs, p) = {}
    BY <2>1 DEF JobOf
  <2>2. CASE SlotsOfPid(jobs, p) # {}
    <3>1. Min(SlotsOfPid(jobs, p)) \in Slots
      BY <2>2, FirstSlot DEF SlotsOfPid
    <3> QED BY <2>2, <3>1 DEF JobOf, FgSlots
  <2> QED BY <2>1, <2>2
<1> QED BY <1>1 DEF JC!NoFG

\* A step that changes no job and neither comes to the prompt nor leaves it.
LEMMA StepStutters ==
    ASSUME AllJobs(jobs') = AllJobs(jobs), main.pc = "prompt" <=> main'.pc = "prompt"
    PROVE  UNCHANGED JC!vars
<1>1. (main'.pc = "prompt") = (main.pc = "prompt")
  OBVIOUS
<1> QED BY <1>1, AllJobsMeaning DEF JC!vars

\* A command is read, or the shell ends at the prompt.
LEMMA StepReads ==
    ASSUME AllJobs(jobs') = AllJobs(jobs), main.pc = "prompt", main'.pc # "prompt"
    PROVE  JC!Read
<1>1. (main'.pc = "prompt") = FALSE
  OBVIOUS
<1> QED BY <1>1, AllJobsMeaning DEF JC!Read

\* The shell comes back to the prompt.
LEMMA StepIsDone ==
    ASSUME AllJobs(jobs') = AllJobs(jobs), main.pc # "prompt", main'.pc = "prompt",
           FgSlots(jobs) = {}
    PROVE  JC!Done
<1>1. (main'.pc = "prompt") = TRUE
  OBVIOUS
<1> QED BY <1>1, AllJobsMeaning, NoFGMeaning DEF JC!Done

\* A command that is not built in, or bg or fg, puts p's job into state s.
LEMMA StepStarts ==
    ASSUME NEW p \in Pids, NEW s \in {"FG", "BG"}, FgSlots(jobs) = {},
           AllJobs(jobs') = [AllJobs(jobs) EXCEPT ![p] = s],
           main.pc # "prompt", main'.pc = "prompt" <=> s = "BG"
    PROVE  JC!Next
<1>1. (main'.pc = "prompt") = (s = "BG")
  OBVIOUS
<1>2. CASE JobOf(p) = "none"
  <2>1. JC!Launch(p, s)
    BY <1>1, <1>2, AllJobsMeaning, NoFGMeaning DEF JC!Launch
  <2> QED BY <2>1 DEF JC!Next
<1>3. CASE JobOf(p) # "none"
  <2>1. JC!Resume(p, s)
    BY <1>1, <1>3, AllJobsMeaning, NoFGMeaning DEF JC!Resume
  <2> QED BY <2>1 DEF JC!Next
<1> QED BY <1>2, <1>3

\* The handler of SIGCHLD finds that p's job has stopped or ended.
LEMMA StepStopsOrEnds ==
    ASSUME NEW p \in Pids, NEW s \in {"ST", "none"}, JobOf(p) # "none",
           AllJobs(jobs') = [AllJobs(jobs) EXCEPT ![p] = s], main' = main
    PROVE  JC!Next
<1>1. (main'.pc = "prompt") = (main.pc = "prompt")
  OBVIOUS
<1>2. CASE s = "ST"
  <2>1. JC!Stop(p)
    BY <1>1, <1>2, AllJobsMeaning DEF JC!Stop
  <2> QED BY <2>1 DEF JC!Next
<1>3. CASE s = "none"
  <2>1. JC!End(p)
    BY <1>1, <1>3, AllJobsMeaning DEF JC!End
  <2> QED BY <2>1 DEF JC!Next
<1> QED BY <1>2, <1>3

\* What the handler of SIGCHLD does to the list is the stop or the end of one job.
LEMMA UpdateImplements ==
    ASSUME TypeOK, ChildInv, ChldUpdate
    PROVE  JC!Next
<1> DEFINE p == chld.pid
<1>1. Alive /\ main' = main /\ SlotsOfPid(jobs, p) # {} /\ chld.pc = "update"
  BY DEF ChldUpdate, OnTop
<1>2. p \in Pids /\ p \in Nat \ {0}
  BY <1>1, PidsAssumption DEF ChildInv
<1> HIDE DEF p
<1>3. PICK k \in SlotsOfPid(jobs, p) : k = Min(SlotsOfPid(jobs, p))
  BY <1>1, FirstSlot DEF SlotsOfPid
<1>4. k \in Slots /\ jobs[k].pid = p /\ \A i \in Slots : jobs[i].pid = p => i = k
  <2>1. k \in Slots /\ jobs[k].pid = p /\ \A i \in Slots : jobs[i].pid = p => i \in Listed
    BY <1>2, <1>3 DEF SlotsOfPid, Listed
  <2> QED BY <1>1, <2>1 DEF ChildInv
<1>5. JobOf(p) # "none"
  BY <1>1, <1>3, <1>4 DEF JobOf, TypeOK, Job, JobStates
<1>6. CASE chld.stat = "stopped"
  <2>1. jobs' = [jobs EXCEPT ![k].state = "ST"]
    BY <1>3, <1>6 DEF ChldUpdate, p
  <2>2. /\ jobs'[k].pid = p /\ jobs'[k].state = "ST"
        /\ \A i \in Slots : i # k => jobs'[i] = jobs[i]
    BY <1>4, <2>1 DEF TypeOK, Job
  <2>3. AllJobs(jobs') = [AllJobs(jobs) EXCEPT ![p] = "ST"]
    BY <1>2, <1>4, <2>2, AllJobsChange
  <2> QED BY <1>1, <1>2, <1>5, <2>3, StepStopsOrEnds
<1>7. CASE chld.stat # "stopped"
  <2>1. jobs' = [jobs EXCEPT ![k] = ClearedJob]
    BY <1>1, <1>3, <1>7 DEF ChldUpdate, JobsAfterDelete, p
  <2>2. jobs'[k].pid = 0 /\ \A i \in Slots : i # k => jobs'[i] = jobs[i]
    BY <1>4, <2>1 DEF TypeOK, ClearedJob
  <2>3. AllJobs(jobs') = [AllJobs(jobs) EXCEPT ![p] = "none"]
    <3>1. AllJobs(jobs') = [AllJobs(jobs) EXCEPT ![p] =
              IF jobs'[k].pid = p THEN jobs'[k].state ELSE "none"]
      BY <1>2, <1>4, <2>2, AllJobsChange
    <3> QED BY <1>2, <2>2, <3>1
  <2> QED BY <1>1, <1>2, <1>5, <2>3, StepStopsOrEnds
<1> QED BY <1>6, <1>7

\* addjob launches the process that has been forked, if the list has a free slot;
\* otherwise the shell goes on as if it had.
LEMMA AddJobImplements ==
    ASSUME TypeOK, FGInv, ChildInv, AddJob
    PROVE  [JC!Next]_JC!vars
<1>1. /\ main.pc = "forked" /\ main.cmd \in {"FG", "BG"}
      /\ FgSlots(jobs) = {}
  BY DEF AddJob, MainAt, TypeOK, MainType, FGInv, InForeground, Waiting, Alive, Dead
<1>2. main.pid \in Pids /\ main.pid \in Nat \ {0} /\ \A i \in Slots : jobs[i].pid # main.pid
  BY <1>1, PidsAssumption DEF ChildInv, Listed, Alive, Dead
<1>3. main'.pc = "prompt" <=> main.cmd = "BG"
  <2>1. CASE main.cmd = "FG"
    BY <2>1 DEF AddJob, TypeOK, MainType
  <2>2. CASE main.cmd = "BG"
    BY <2>2 DEF AddJob, AtPrompt
  <2> QED BY <1>1, <2>1, <2>2
<1>4. CASE FreeSlots(jobs) = {}
  <2>1. AllJobs(jobs') = AllJobs(jobs)
    BY <1>4 DEF AddJob, JobsAfterAdd
  <2> QED BY <1>1, <1>3, <2>1, StepStutters, StepIsDone DEF JC!Next
<1>5. CASE FreeSlots(jobs) # {}
  <2>1. PICK k \in FreeSlots(jobs) : jobs' = [jobs EXCEPT ![k] =
              [pid |-> main.pid, jid |-> nextjid, state |-> main.cmd]]
    <3>1. Min(FreeSlots(jobs)) \in FreeSlots(jobs)
      BY <1>5, FirstSlot DEF FreeSlots
    <3>2. ~(main.pid < 1)
      BY <1>2
    <3> QED BY <1>5, <3>1, <3>2 DEF AddJob, JobsAfterAdd
  <2>2. k \in Slots /\ jobs[k].pid = 0
    BY DEF FreeSlots
  <2>3. /\ jobs'[k].pid = main.pid /\ jobs'[k].state = main.cmd
        /\ \A i \in Slots : i # k => jobs'[i] = jobs[i]
    BY <2>1, <2>2 DEF TypeOK
  <2>4. AllJobs(jobs') = [AllJobs(jobs) EXCEPT ![main.pid] = main.cmd]
    BY <1>2, <2>2, <2>3, AllJobsChange
  <2> QED BY <1>1, <1>2, <1>3, <2>4, StepStarts
<1> QED BY <1>4, <1>5

\* bg and fg resume the job in the slot they have found, or nothing when its job has
\* ended meanwhile.
LEMMA MarkImplements ==
    ASSUME TypeOK, FGInv, ChildInv, Mark
    PROVE  [JC!Next]_JC!vars
<1> DEFINE k == main.slot
<1>1. /\ main.pc = "mark" /\ main.cmd \in {"FG", "BG"} /\ k \in Slots
      /\ FgSlots(jobs) = {}
  BY DEF Mark, MainAt, TypeOK, MainType, FGInv, InForeground, Waiting, Alive, Dead
<1>2. main'.pc = "prompt" <=> main.cmd = "BG"
  <2>1. CASE main.cmd = "FG"
    BY <2>1 DEF Mark, TypeOK, MainType
  <2>2. CASE main.cmd = "BG"
    BY <2>2 DEF Mark, AtPrompt
  <2> QED BY <1>1, <2>1, <2>2
<1>3. jobs' = [jobs EXCEPT ![k].state = main.cmd]
  BY DEF Mark
<1> HIDE DEF k
<1>4. /\ jobs'[k].pid = jobs[k].pid /\ jobs'[k].state = main.cmd
      /\ \A i \in Slots : i # k => jobs'[i] = jobs[i]
  BY <1>1, <1>3 DEF TypeOK, Job
<1>5. CASE jobs[k].pid = 0
  <2>1. AllJobs(jobs') = AllJobs(jobs)
    BY <1>4, <1>5, AllJobsSame
  <2> QED BY <1>1, <1>2, <2>1, StepStutters, StepIsDone DEF JC!Next
<1>6. CASE jobs[k].pid # 0
  <2>1. jobs[k].pid \in Pids
    BY <1>1, <1>6 DEF TypeOK, Job
  <2>2. \A i \in Slots : i # k => jobs[i].pid # jobs[k].pid
    BY <1>1, <1>6 DEF ChildInv, Listed, Alive, Dead
  <2>3. AllJobs(jobs') = [AllJobs(jobs) EXCEPT ![jobs[k].pid] = main.cmd]
    BY <1>1, <1>4, <2>1, <2>2, AllJobsChange
  <2> QED BY <1>1, <1>2, <2>1, <2>3, StepStarts
<1> QED BY <1>5, <1>6

\* A step that leaves the list alone is no step of job control, unless it comes to
\* the prompt or leaves it.
LEMMA QuietStep ==
    ASSUME jobs' = jobs, main'.pc = "prompt" => main.pc = "prompt" \/ FgSlots(jobs) = {}
    PROVE  [JC!Next]_JC!vars
<1>1. AllJobs(jobs') = AllJobs(jobs)
  OBVIOUS
<1> QED BY <1>1, StepStutters, StepReads, StepIsDone DEF JC!Next

\* Every step of the shell is one of job control, or none.
LEMMA StepOfJobControl ==
    ASSUME TypeOK, FGInv, ChildInv, [Next]_vars
    PROVE  [JC!Next]_JC!vars
<1>1. CASE UNCHANGED vars
  BY <1>1, QuietStep DEF vars
<1>2. CASE Inputs
  <2>1. UNCHANGED <<jobs, main>>
    BY <1>2 DEF Inputs, Press, Deliver, Child
  <2> QED BY <2>1, QuietStep
<1>3. ASSUME NEW pc \in Dead, Exit(pc) PROVE [JC!Next]_JC!vars
  BY <1>3, ExitMain, QuietStep DEF Dead
<1>4. ASSUME Return, UNCHANGED jobs PROVE [JC!Next]_JC!vars
  <2>1. main'.pc = "prompt" => main.pc = "prompt"
    BY <1>4, ReturnMain DEF TypeOK, MainType
  <2> QED BY <1>4, <2>1, QuietStep
<1>5. ASSUME UNCHANGED <<jobs, main>> PROVE [JC!Next]_JC!vars
  BY <1>5, QuietStep
<1>6. CASE ChldHandler
  BY <1>4, <1>5, <1>6, UpdateImplements DEF ChldHandler, ChldWait, ChldDone, ChldUnknown
<1>7. ASSUME NEW s \in Keys, KeyHandler(s) PROVE [JC!Next]_JC!vars
  BY <1>3, <1>4, <1>5, <1>7 DEF KeyHandler, KeyLook, KeyKill, Dead
<1>8. CASE Command
  <2>1. CASE Quit \/ Sigquit \/ ForkFails
    BY <1>3, <2>1 DEF Quit, Sigquit, ForkFails, Dead
  <2>2. ASSUME jobs' = jobs, main'.pc \in {"forked", "cont"} PROVE [JC!Next]_JC!vars
    BY <2>2, QuietStep
  <2> QED BY <1>8, <2>1, <2>2 DEF Command, Fork, BgFg, AtPrompt
<1>9. CASE ReadPid \/ ReadArg \/ WaitfgBlock \/ WaitfgSuspend
  <2>1. jobs' = jobs /\ main'.pc # "prompt"
    BY <1>9 DEF ReadPid, ReadArg, WaitfgBlock, WaitfgSuspend, Goto, TypeOK, MainType
  <2> QED BY <2>1, QuietStep
<1>10. CASE SendCont
  <2>1. CASE GroupExists(main.pid)
    <3>1. jobs' = jobs /\ main'.pc # "prompt"
      BY <1>10, <2>1 DEF SendCont, TypeOK, MainType
    <3> QED BY <3>1, QuietStep
  <2>2. CASE ~GroupExists(main.pid)
    BY <1>3, <1>10, <2>2 DEF SendCont, Dead
  <2> QED BY <2>1, <2>2
<1>11. CASE WaitfgTest
  <2>1. jobs' = jobs /\ Waiting
    BY <1>11 DEF WaitfgTest, MainAt, Waiting
  <2>2. CASE main.pid = FgPid(jobs)
    <3>1. main'.pc # "prompt"
      BY <1>11, <2>2 DEF WaitfgTest, TypeOK, MainType
    <3> QED BY <2>1, <3>1, QuietStep
  <2>3. CASE main.pid # FgPid(jobs)
    <3>1. FgSlots(jobs) = {}
      BY <2>1, <2>3, FgPidCases DEF FGInv
    <3> QED BY <2>1, <3>1, QuietStep
  <2> QED BY <2>2, <2>3
<1>12. CASE MainStep
  BY <1>9, <1>10, <1>11, <1>12, AddJobImplements, MarkImplements DEF MainStep
<1> QED BY <1>1, <1>2, <1>6, <1>7, <1>8, <1>12 DEF Next, Ended

\* The shell implements job control, whatever handlers interrupt eval, do_bgfg and
\* waitfg and wherever: a job is launched or resumed by a command only, with no job
\* in the foreground; only a listed job stops or ends; and while one is in the
\* foreground the shell reads no command (tsh.c:27-35, 363-364 and 496-497).
THEOREM ShellImplementsJobControl == Spec => ImplementsJobControl
<1>1. Init => JC!Init
  <2> SUFFICES ASSUME Init PROVE JC!Init
    OBVIOUS
  <2>1. \A p \in Pids : JobIn(jobs, p) = "none"
    <3>1. \A p \in Pids : p # 0
      BY PidsAssumption
    <3>2. \A i \in Slots : jobs[i].pid = 0
      BY DEF Init, InitJobs, ClearedJob
    <3> QED BY <3>1, <3>2, JobInNone
  <2>2. [p \in Pids |-> JobOf(p)] = [p \in Pids |-> "none"]
    BY <2>1 DEF JobIn, JobOf
  <2>3. (main.pc = "prompt") = TRUE
    BY DEF Init, AtPrompt
  <2> QED BY <2>2, <2>3 DEF JC!Init
<1>2. TypeOK /\ FGInv /\ ChildInv /\ [Next]_vars => [JC!Next]_JC!vars
  BY StepOfJobControl
<1> QED BY <1>1, <1>2, TypeCorrect, FGInvariant, ChildInvariant, PTL
        DEF Spec, ImplementsJobControl, JC!Spec
=============================================================================
