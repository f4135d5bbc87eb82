--------------------------- MODULE JobListProofs ---------------------------
(***************************************************************************)
(* Lemmas about the operators of JobList: what the scans of the job list   *)
(* return, and what addjob and deletejob preserve.                         *)
(***************************************************************************)
EXTENDS JobList, Extrema

\* A scan that finds a slot stops at one of those it looks for.
LEMMA FirstSlot ==
    ASSUME NEW S, S \subseteq Slots, S # {}
    PROVE  Min(S) \in S /\ \A j \in S : Min(S) <= j
<1>1. S \subseteq Nat
  BY MAXJOBSAssumption DEF Slots
<1> QED BY <1>1, NatMin

\* maxjid returns a job id at least as large as any on the list.
LEMMA MaxJidBound ==
    ASSUME NEW jobs, \A i \in Slots : jobs[i].jid \in Nat
    PROVE  MaxJid(jobs) \in Nat /\ \A i \in Slots : jobs[i].jid <= MaxJid(jobs)
<1> DEFINE S == {0} \cup {jobs[i].jid : i \in Slots}
           f == [i \in Slots |-> jobs[i].jid]
<1>1. IsFiniteSet({jobs[i].jid : i \in Slots})
  <2>1. IsFiniteSet(Slots)
    <3>1. 1 \in Int /\ MAXJOBS \in Int
      BY MAXJOBSAssumption
    <3>2. IsFiniteSet(1 .. MAXJOBS)
      BY <3>1, FS_Interval
    <3> QED BY <3>2 DEF Slots
  <2>2. f \in Surjection(Slots, {jobs[i].jid : i \in Slots})
    BY DEF Surjection
  <2> QED BY <2>1, <2>2, FS_Surjection
<1>2. IsFiniteSet(S)
  BY <1>1, FS_Singleton, FS_Union
<1>3. \E m \in S : \A y \in S : m >= y
  <2>1. S \subseteq Nat /\ S # {}
    OBVIOUS
  <2> HIDE DEF S
  <2> QED BY <1>2, <2>1, FiniteMax
<1>4. MaxJid(jobs) \in S /\ \A y \in S : MaxJid(jobs) >= y
  BY <1>3 DEF MaxJid, Max
<1> QED BY <1>4

\* fgpid: 0, or the pid of a slot in state FG.
LEMMA FgPidCases ==
    ASSUME NEW jobs
    PROVE  \/ FgSlots(jobs) = {} /\ FgPid(jobs) = 0
           \/ \E i \in FgSlots(jobs) : FgPid(jobs) = jobs[i].pid
BY FirstSlot DEF FgPid, FgSlots

\* addjob leaves the list alone, or fills one free slot with the next id.
LEMMA AddCases ==
    ASSUME NEW jobs, NEW nextjid \in Nat \ {0}, NEW pid \in Nat \ {0}, NEW state
    PROVE  /\ NextJidAfterAdd(jobs, nextjid, pid) \in Nat \ {0}
           /\ \/ FreeSlots(jobs) = {} /\ JobsAfterAdd(jobs, nextjid, pid, state) = jobs
              \/ \E i \in FreeSlots(jobs) :
                    JobsAfterAdd(jobs, nextjid, pid, state) =
                        [jobs EXCEPT ![i] = [pid |-> pid, jid |-> nextjid, state |-> state]]
<1>1. NextJidAfterAdd(jobs, nextjid, pid) \in Nat \ {0}
  BY DEF NextJidAfterAdd
<1>2. ~(pid < 1)
  OBVIOUS
<1>3. CASE FreeSlots(jobs) = {}
  BY <1>1, <1>3 DEF JobsAfterAdd
<1>4. CASE FreeSlots(jobs) # {}
  <2>1. Min(FreeSlots(jobs)) \in FreeSlots(jobs)
    BY <1>4, FirstSlot DEF FreeSlots
  <2> QED BY <1>1, <1>2, <1>4, <2>1 DEF JobsAfterAdd
<1> QED BY <1>3, <1>4

\* deletejob clears one slot that holds the pid, if there is one.
LEMMA DeleteCases ==
    ASSUME NEW jobs, NEW pid, SlotsOfPid(jobs, pid) # {}
    PROVE  \E i \in SlotsOfPid(jobs, pid) :
              /\ i = Min(SlotsOfPid(jobs, pid))
              /\ JobsAfterDelete(jobs, pid) = [jobs EXCEPT ![i] = ClearedJob]
<1>1. Min(SlotsOfPid(jobs, pid)) \in SlotsOfPid(jobs, pid)
  BY FirstSlot DEF SlotsOfPid
<1> QED BY <1>1 DEF JobsAfterDelete

\* addjob keeps the type of the list and of the next id.
LEMMA AddType ==
    ASSUME NEW P, P \subseteq Nat \ {0}, NEW jobs \in [Slots -> Job(P)],
           NEW nextjid \in Nat \ {0}, NEW pid \in P, NEW state \in JobStates
    PROVE  /\ JobsAfterAdd(jobs, nextjid, pid, state) \in [Slots -> Job(P)]
           /\ NextJidAfterAdd(jobs, nextjid, pid) \in Nat \ {0}
<1>1. [pid |-> pid, jid |-> nextjid, state |-> state] \in Job(P)
  BY DEF Job
<1>2. pid \in Nat \ {0}
  OBVIOUS
<1>3. NextJidAfterAdd(jobs, nextjid, pid) \in Nat \ {0}
  BY <1>2, AddCases
<1>4. \A i \in Slots : [jobs EXCEPT ![i] = [pid |-> pid, jid |-> nextjid, state |-> state]]
                           \in [Slots -> Job(P)]
  BY <1>1
<1>5. JobsAfterAdd(jobs, nextjid, pid, state) \in [Slots -> Job(P)]
  BY <1>2, <1>4, AddCases DEF FreeSlots
<1> QED BY <1>3, <1>5

\* deletejob keeps the type of the list and of the next id.
LEMMA DeleteType ==
    ASSUME NEW P, NEW jobs \in [Slots -> Job(P)], NEW nextjid \in Nat \ {0}, NEW pid
    PROVE  /\ JobsAfterDelete(jobs, pid) \in [Slots -> Job(P)]
           /\ NextJidAfterDelete(jobs, nextjid, pid) \in Nat \ {0}
<1>1. ClearedJob \in Job(P)
  BY DEF ClearedJob, Job, JobStates
<1>2. JobsAfterDelete(jobs, pid) \in [Slots -> Job(P)]
  <2>1. CASE SlotsOfPid(jobs, pid) = {}
    BY <2>1 DEF JobsAfterDelete
  <2>2. CASE SlotsOfPid(jobs, pid) # {}
    BY <1>1, <2>2, DeleteCases
  <2> QED BY <2>1, <2>2
<1>3. MaxJid(JobsAfterDelete(jobs, pid)) \in Nat
  BY <1>2, MaxJidBound DEF Job
<1> QED BY <1>2, <1>3 DEF NextJidAfterDelete
=============================================================================
