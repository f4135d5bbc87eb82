------------------------------ MODULE JobList ------------------------------
(***************************************************************************)
(* The job list of tsh.c (lines 41-50 and 602-724) as pure operators: the  *)
(* list is a function from its MAXJOBS slots to job records, and nextjid   *)
(* is passed beside it, because addjob and deletejob change both.          *)
(* The text of the command line is left out: no property depends on it.    *)
(***************************************************************************)
EXTENDS Integers, FiniteSetsExt

CONSTANTS
    MAXJOBS     \* slots of the list (tsh.c:18)

ASSUME MAXJOBSAssumption == MAXJOBS \in Nat \ {0}

Slots     == 1 .. MAXJOBS
JobStates == {"UNDEF", "FG", "BG", "ST"}

\* Process ids are positive; 0 is the pid of an empty slot and of "no process".
Job(pids) == [pid : pids \cup {0}, jid : Nat, state : JobStates]

\* clearjob and initjobs (tsh.c:607-620).
ClearedJob == [pid |-> 0, jid |-> 0, state |-> "UNDEF"]
InitJobs   == [i \in Slots |-> ClearedJob]

\* maxjid (tsh.c:623-631).
MaxJid(jobs) == Max({0} \cup {jobs[i].jid : i \in Slots})

\* The slots that match; each loop over the list stops at the smallest.
SlotsOfPid(jobs, pid) == {i \in Slots : pid > 0 /\ jobs[i].pid = pid}
SlotsOfJid(jobs, jid) == {i \in Slots : jid > 0 /\ jobs[i].jid = jid}
FgSlots(jobs)         == {i \in Slots : jobs[i].state = "FG"}
FreeSlots(jobs)       == {i \in Slots : jobs[i].pid = 0}

\* fgpid (tsh.c:678-685): 0 when there is no foreground job, and also when the
\* first slot in state FG holds no process.
FgPid(jobs) ==
    IF FgSlots(jobs) = {} THEN 0 ELSE jobs[Min(FgSlots(jobs))].pid

\* getjobpid and getjobjid (tsh.c:688-710), with 0 for NULL.
GetJobPid(jobs, pid) == IF SlotsOfPid(jobs, pid) = {} THEN 0 ELSE Min(SlotsOfPid(jobs, pid))
GetJobJid(jobs, jid) == IF SlotsOfJid(jobs, jid) = {} THEN 0 ELSE Min(SlotsOfJid(jobs, jid))

\* addjob (tsh.c:634-657): the list and the next job id after the call. A full
\* list is left alone (the caller does not look at the result).
JobsAfterAdd(jobs, nextjid, pid, state) ==
    IF pid < 1 \/ FreeSlots(jobs) = {} THEN jobs
    ELSE [jobs EXCEPT ![Min(FreeSlots(jobs))] =
              [pid |-> pid, jid |-> nextjid, state |-> state]]

NextJidAfterAdd(jobs, nextjid, pid) ==
    IF pid < 1 \/ FreeSlots(jobs) = {} THEN nextjid
    ELSE IF nextjid + 1 > MAXJOBS THEN 1 ELSE nextjid + 1

\* deletejob (tsh.c:660-675).
JobsAfterDelete(jobs, pid) ==
    IF SlotsOfPid(jobs, pid) = {} THEN jobs
    ELSE [jobs EXCEPT ![Min(SlotsOfPid(jobs, pid))] = ClearedJob]

NextJidAfterDeleteMax(jobs, nextjid, pid) ==        \* mutant: the + 1 is missing
    MaxJid(JobsAfterDelete(jobs, pid))

NextJidAfterDelete(jobs, nextjid, pid) ==
    IF SlotsOfPid(jobs, pid) = {} THEN nextjid
    ELSE MaxJid(JobsAfterDelete(jobs, pid)) + 1
=============================================================================
