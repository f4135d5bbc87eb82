----------------------------- MODULE Scheduler -----------------------------
(***************************************************************************)
(* The simulator of CPU scheduling of Computer_Science-360/lab3/           *)
(* scheduler.c: one call of listoutputs, that is two passes of one         *)
(* algorithm over the processes with Extra after each.                     *)
(*                                                                         *)
(* A pass repeats the cycle of datapoint (proceedForward, execxuteB,       *)
(* creation, executeR, countdown) until every process has completed.  The  *)
(* ready queue keeps its pointers, since they and placement can disagree.  *)
(* The pause queue and the blocked list are sequences.  A number read from *)
(* random-numbers may be any number, so a CPU burst is any of 1..B.        *)
(* Printing is left out.                                                   *)
(***************************************************************************)
EXTENDS Integers, FiniteSets, Sequences, SequencesExt

CONSTANTS
    countPrime, \* the number of processes
    Calls,      \* the calls of listoutputs considered: algorithm and input,
                \* the input giving A, B, C and M of each process
    TimeBound   \* bound of the model: the clock stops there

FCFS  == 0
RR    == 1
BLOCK == 2
SJF   == 3
Null  == 0

Procs == 1 .. countPrime        \* positions in the array Prime, from 1

ASSUME CountAssumption == countPrime \in Nat
ASSUME CallsAssumption ==
    Calls \subseteq [alg : FCFS .. SJF,
                     input : [Procs -> [A : Nat, B : Nat \ {0}, C : Nat \ {0}, M : Nat]]]
ASSUME TimeBoundAssumption == TimeBound \in Nat

VARIABLES
    selectAlg,
    pass,       \* pushthroughCurrent, 1 or 2
    pc,         \* which part of datapoint comes next
    Prime,      \* the array of processes
    ready,      \* Afront, Aback, placement and the links freshPrime
    paused,     \* the pause queue
    blocked,    \* the blocked list
    presentN,   \* local of execxuteB
    i,          \* loop counter of creation and of executeR
    selection, namelessOp, firstPrime,
    present, totalPrime, completion, totalTimeNumber

passVars  == <<selectAlg, pass>>
queueVars == <<ready, paused, blocked>>
localVars == <<presentN, i>>
uniVars   == <<namelessOp, firstPrime>>
clockVars == <<present, totalTimeNumber>>
countVars == <<totalPrime, completion>>
vars == <<passVars, pc, Prime, queueVars, localVars, selection, uniVars,
          clockVars, countVars>>

\* condition: 0 is unstarted, 1 is ready, 2 is running, 3 is blocked, 4 is terminated.
Fresh(in) == [A |-> in.A, B |-> in.B, C |-> in.C, M |-> in.M, condition |-> 0,
              finishingTime |-> -1, CPUTime |-> 0, Btime |-> 0,
              currentWaitingTime |-> 0, BurstTime |-> 0, CPUBurst |-> 0,
              quantum |-> 2, operating |-> FALSE]

EmptyQ == [front |-> Null, back |-> Null, n |-> 0, link |-> [p \in Procs |-> Null]]

\* CPUBurst and BurstTime get drawn values here too; both are written again
\* before they are read.
Init ==
    /\ \E c \in Calls : /\ selectAlg = c.alg
                        /\ Prime = [p \in Procs |-> Fresh(c.input[p])]
    /\ pass = 1
    /\ pc = "proceed"
    /\ ready = EmptyQ
    /\ paused = <<>>
    /\ blocked = <<>>
    /\ presentN = Null
    /\ i = 0
    /\ selection = Null
    /\ namelessOp = Null
    /\ firstPrime = TRUE
    /\ present = 0
    /\ totalPrime = 0
    /\ completion = 0
    /\ totalTimeNumber = 0

-----------------------------------------------------------------------------
(* The ready queue. *)

Qsetup(q, p) ==
    IF q.n = 0
    THEN [q EXCEPT !.front = p, !.back = p, !.n = 1]
    ELSE [q EXCEPT !.link = [@ EXCEPT ![p] = Null, ![q.back] = p],
                   !.back = p, !.n = @ + 1]

\* The queue after the node at its front has left it.
dsetup(q) ==
    [q EXCEPT !.front = q.link[q.front], !.n = @ - 1,
              !.back = IF q.n = 1 THEN Null ELSE @, !.link[q.front] = Null]

\* The nodes that a walk of placement steps from Afront visits.
Chain(q) ==
    LET node[k \in 1 .. q.n] ==
            IF k = 1 THEN q.front
            ELSE IF node[k - 1] = Null THEN Null ELSE q.link[node[k - 1]]
    IN  [k \in 1 .. q.n |-> node[k]]

Remaining(p) == Prime[p].C - Prime[p].CPUTime

LastQuickPrime ==             \* mutant: >= for >, the last of the shortest
    LET ch == Chain(ready)
    IN  ch[CHOOSE k \in DOMAIN ch :
              /\ \A l \in DOMAIN ch : Remaining(ch[k]) <= Remaining(ch[l])
              /\ \A l \in k + 1 .. Len(ch) : Remaining(ch[k]) < Remaining(ch[l])]

\* The first of the chain with the least time remaining.
quickPrime ==
    LET ch == Chain(ready)
    IN  ch[CHOOSE k \in DOMAIN ch :
              /\ \A l \in DOMAIN ch : Remaining(ch[k]) <= Remaining(ch[l])
              /\ \A l \in 1 .. k - 1 : Remaining(ch[k]) < Remaining(ch[l])]

UnlinkKeepsBack(q, p) ==      \* mutant: the last node leaves without moving Aback
    IF q.front = p THEN dsetup(q)
    ELSE LET before == CHOOSE b \in Procs : q.link[b] = p
         IN  [q EXCEPT !.link = [@ EXCEPT ![before] = q.link[p], ![p] = Null],
                       !.n = @ - 1]

Unlink(q, p) ==
    IF q.front = p THEN dsetup(q)
    ELSE LET before == CHOOSE b \in Procs : q.link[b] = p
         IN  [q EXCEPT !.link = [@ EXCEPT ![before] = q.link[p], ![p] = Null],
                       !.back = IF @ = p THEN before ELSE @, !.n = @ - 1]

-----------------------------------------------------------------------------
(* proceedForward: what becomes of the process that has run. *)

\* BurstTime is set in the cycle after the first of the burst.
Running ==
    LET s == Prime[selection]
    IN  IF s.operating
        THEN [s EXCEPT !.operating = FALSE, !.BurstTime = 1 + s.M * s.CPUBurst]
        ELSE s

Finished == Running.C = Running.CPUTime
BurstOver == ~Finished /\ Running.CPUBurst = 0
Expired   == ~Finished /\ ~BurstOver /\ selectAlg = RR /\ Running.quantum <= 0

\* The walk over the blocked list starts at its head.
StartWake ==
    /\ pc' = IF blocked' = <<>> THEN "create" ELSE "wake"
    /\ presentN' = IF blocked' = <<>> THEN Null ELSE Head(blocked')
    /\ UNCHANGED <<passVars, i, paused, firstPrime, clockVars, totalPrime>>

AtHead == pc = "proceed" /\ completion # countPrime

Idle ==
    /\ AtHead /\ selection = Null
    /\ UNCHANGED <<Prime, ready, blocked, selection, namelessOp, completion>>
    /\ StartWake

Terminate ==
    /\ AtHead /\ selection # Null /\ Finished
    /\ Prime' = [Prime EXCEPT ![selection] =
                    [Running EXCEPT !.condition = 4, !.finishingTime = present]]
    /\ completion' = completion + 1
    /\ namelessOp' = IF selectAlg = BLOCK THEN Null ELSE namelessOp
    /\ selection' = Null
    /\ UNCHANGED <<ready, blocked>>
    /\ StartWake

insertB ==
    /\ AtHead /\ selection # Null /\ BurstOver
    /\ Prime' = [Prime EXCEPT ![selection] = [Running EXCEPT !.condition = 3]]
    /\ blocked' = Append(blocked, selection)
    /\ selection' = Null
    /\ UNCHANGED <<ready, namelessOp, completion>>
    /\ StartWake

Preempt ==
    /\ AtHead /\ selection # Null /\ Expired
    /\ Prime' = [Prime EXCEPT ![selection] = [Running EXCEPT !.condition = 1]]
    /\ ready' = Qsetup(ready, selection)
    /\ selection' = Null
    /\ UNCHANGED <<blocked, namelessOp, completion>>
    /\ StartWake

KeepRunning ==
    /\ AtHead /\ selection # Null /\ ~Finished /\ ~BurstOver /\ ~Expired
    /\ Prime' = [Prime EXCEPT ![selection] = [Running EXCEPT !.condition = 2]]
    /\ UNCHANGED <<ready, blocked, selection, namelessOp, completion>>
    /\ StartWake

proceedForward == Idle \/ Terminate \/ insertB \/ Preempt \/ KeepRunning

-----------------------------------------------------------------------------
(* execxuteB: one step of its walk over the blocked list. *)

\* The removed node's pushBlock is NULL when the walk asks it for the next node.
AfterRemoval == Null

WalkAt == CHOOSE k \in DOMAIN blocked : blocked[k] = presentN

NextBlocked == IF WalkAt = Len(blocked) THEN Null ELSE blocked[WalkAt + 1]

DueAtZero == Prime[presentN].BurstTime = 0    \* mutant: == for <=

\* BurstTime is cast to a signed integer.
Due == Prime[presentN].BurstTime <= 0

WakeNotQueued == UNCHANGED ready    \* mutant: no Qsetup

WakeQueued == ready' = Qsetup(ready, presentN)

execxuteB ==
    /\ pc = "wake"
    /\ IF Due
       THEN /\ Prime' = [Prime EXCEPT ![presentN].condition = 1]
            /\ blocked' = RemoveAt(blocked, WalkAt)
            /\ WakeQueued
       ELSE UNCHANGED <<Prime, blocked, ready>>
    /\ presentN' = IF Due THEN AfterRemoval ELSE NextBlocked
    /\ pc' = IF presentN' = Null THEN "create" ELSE "wake"
    /\ UNCHANGED <<passVars, paused, i, selection, uniVars, clockVars, countVars>>

-----------------------------------------------------------------------------
(* creation: the processes that arrive in this cycle, one turn of its loop. *)

ArrivedByNow(p) == Prime[p].A <= present    \* mutant: <= for ==

Arrives(p) == Prime[p].A = present

NeverPark(q, op) == FALSE     \* mutant: the loop at the top of executeR is missing

\* The test at the top of executeR.
MustPark(q, op) == op # Null /\ q.n # 0 /\ q.front # op

\* The call is left out when all have arrived.
AllVisited == i = countPrime \/ (i = 0 /\ totalPrime = countPrime)

CreateNext ==
    /\ pc = "create" /\ ~AllVisited
    /\ IF Arrives(i + 1)
       THEN /\ Prime' = [Prime EXCEPT ![i + 1].condition = 1]
            /\ ready' = Qsetup(ready, i + 1)
            /\ totalPrime' = totalPrime + 1
            /\ IF namelessOp = Null /\ firstPrime
               THEN firstPrime' = FALSE /\ namelessOp' = i + 1
               ELSE UNCHANGED uniVars
       ELSE UNCHANGED <<Prime, ready, totalPrime, uniVars>>
    /\ i' = i + 1
    /\ UNCHANGED <<passVars, pc, paused, blocked, presentN, selection, clockVars, completion>>

CreateEnd ==
    /\ pc = "create" /\ AllVisited
    /\ i' = 0
    /\ pc' = IF selectAlg # BLOCK THEN "pick"
             ELSE IF MustPark(ready, namelessOp) THEN "yield" ELSE "resume"
    /\ UNCHANGED <<passVars, Prime, queueVars, presentN, selection, uniVars, clockVars, countVars>>

creation == CreateNext \/ CreateEnd

-----------------------------------------------------------------------------
(* executeR: the pause queue of "block", and the next process to run. *)

\* dsetup, then pauseQue, that moves Afront when the pause queue was empty.
\* With placement wrong there is no node at the front: NULL is dereferenced.
ParkOne ==
    IF ready.front = Null
    THEN pc' = "crash" /\ UNCHANGED <<Prime, ready, paused, i>>
    ELSE LET q == dsetup(ready)
         IN  /\ Prime' = [Prime EXCEPT ![ready.front].condition = 1]
             /\ ready' = IF paused = <<>> THEN [q EXCEPT !.front = q.back] ELSE q
             /\ paused' = Append(paused, ready.front)
             /\ i' = i + 1
             /\ UNCHANGED pc

\* The loop counts up while placement, its limit, counts down.
ParkLoop(next) ==
    /\ IF i < ready.n
       THEN ParkOne
       ELSE pc' = next /\ i' = 0 /\ UNCHANGED <<Prime, ready, paused>>
    /\ UNCHANGED <<passVars, blocked, presentN, selection, uniVars, clockVars, countVars>>

ParkOthers == pc = "yield" /\ ParkLoop("resume")

Resume ==
    /\ pc = "resume"
    /\ IF paused # <<>> /\ namelessOp = Null
       THEN /\ Prime' = [Prime EXCEPT ![Head(paused)].condition = 1]
            /\ namelessOp' = Head(paused)
            /\ paused' = Tail(paused)
            /\ ready' = Qsetup(ready, Head(paused))
       ELSE UNCHANGED <<Prime, namelessOp, paused, ready>>
    /\ pc' = "pick"
    /\ UNCHANGED <<passVars, blocked, localVars, selection, firstPrime, clockVars, countVars>>

AfterPick == IF selectAlg = BLOCK THEN "park" ELSE "count"

NoPick ==
    /\ pc = "pick" /\ (ready.n = 0 \/ selection # Null)
    /\ pc' = AfterPick
    /\ UNCHANGED <<passVars, Prime, queueVars, localVars, selection, uniVars,
                   clockVars, countVars>>

BurstUncapped(p, drawn) == drawn    \* mutant: the time still needed is not looked at

\* A burst does not exceed the time the process still needs.
newCPUBurst(p, drawn) == IF drawn > Remaining(p) THEN Remaining(p) ELSE drawn

Start(p, drawn, newQuantum) ==
    /\ Prime' = [Prime EXCEPT ![p] =
                    [@ EXCEPT !.CPUBurst = newCPUBurst(p, drawn), !.condition = 2,
                              !.operating = TRUE, !.quantum = newQuantum]]
    /\ selection' = p
    /\ pc' = AfterPick
    /\ UNCHANGED <<passVars, paused, blocked, localVars, uniVars, clockVars, countVars>>

PickShortest ==
    /\ pc = "pick" /\ ready.n # 0 /\ selection = Null /\ selectAlg = SJF
    /\ ready' = Unlink(ready, quickPrime)
    /\ \E drawn \in 1 .. Prime[quickPrime].B :
          Start(quickPrime, drawn, Prime[quickPrime].quantum)

\* A burst is never 0, for no process in the queue has had its C already.
PickFirst ==
    /\ pc = "pick" /\ ready.n # 0 /\ selection = Null /\ selectAlg # SJF
    /\ IF ready.front = Null
       THEN /\ pc' = "crash"
            /\ UNCHANGED <<passVars, Prime, queueVars, localVars, selection, uniVars,
                           clockVars, countVars>>
       ELSE /\ ready' = dsetup(ready)
            /\ \E drawn \in 1 .. Prime[ready.front].B :
                  Start(ready.front, drawn, IF selectAlg = RR THEN 2
                                            ELSE Prime[ready.front].quantum)

ParkReady ==
    /\ pc = "park"
    /\ IF selection # Null THEN ParkLoop("count")
       ELSE /\ pc' = "count"
            /\ UNCHANGED <<passVars, Prime, queueVars, localVars, selection, uniVars,
                           clockVars, countVars>>

executeR == ParkOthers \/ Resume \/ NoPick \/ PickShortest \/ PickFirst \/ ParkReady

-----------------------------------------------------------------------------
(* countdown, and the end of a pass. *)

\* CPUBurst and BurstTime are unsigned; a negative number here is one that wrapped.
Tick(p) ==
    CASE p.condition = 1 -> [p EXCEPT !.currentWaitingTime = @ + 1]
      [] p.condition = 2 -> [p EXCEPT !.CPUTime = @ + 1, !.CPUBurst = @ - 1,
                                      !.quantum = IF selectAlg = RR THEN @ - 1 ELSE @]
      [] p.condition = 3 -> [p EXCEPT !.Btime = @ + 1, !.BurstTime = @ - 1]
      [] OTHER -> p

countdown ==
    /\ pc = "count" /\ present < TimeBound
    /\ Prime' = [p \in Procs |-> Tick(Prime[p])]
    /\ totalTimeNumber' = totalTimeNumber +
           (IF \E p \in Procs : Prime[p].condition = 3 THEN 1 ELSE 0)
    /\ present' = present + 1
    /\ pc' = "proceed"
    /\ UNCHANGED <<passVars, queueVars, localVars, selection, uniVars, countVars>>

ExtraKeepsBtime ==            \* mutant: Btime is not reset
    Prime' = [p \in Procs |-> [Fresh(Prime[p]) EXCEPT !.quantum = Prime[p].quantum,
                                                      !.Btime = Prime[p].Btime]]

\* quantum is not reset.
ExtraProcesses ==
    Prime' = [p \in Procs |-> [Fresh(Prime[p]) EXCEPT !.quantum = Prime[p].quantum]]

ExtraKeepsFirstPrime ==       \* mutant: firstPrime is not reset
    namelessOp' = Null /\ UNCHANGED firstPrime

ExtraUni == namelessOp' = Null /\ firstPrime' = TRUE

Extra ==
    /\ ExtraProcesses
    /\ ready' = EmptyQ
    /\ paused' = <<>>
    /\ blocked' = <<>>
    /\ selection' = Null
    /\ ExtraUni
    /\ present' = 0
    /\ totalPrime' = 0
    /\ completion' = 0
    /\ totalTimeNumber' = 0

EndPass ==
    /\ pc = "proceed" /\ completion = countPrime
    /\ Extra
    /\ pass' = pass + 1
    /\ pc' = IF pass = 1 THEN "proceed" ELSE "done"
    /\ UNCHANGED <<selectAlg, localVars>>

Terminated == pc = "done" /\ UNCHANGED vars

datapoint == proceedForward \/ execxuteB \/ creation \/ executeR \/ countdown

Next == datapoint \/ EndPass \/ Terminated

Spec == Init /\ [][Next]_vars

\* The loop of listoutputs goes on as long as there is something left to do.
FairSpec == Spec /\ WF_vars(datapoint \/ EndPass)

-----------------------------------------------------------------------------
(* Properties. *)

Live == {p \in Procs : Prime[p].condition \in 1 .. 3}

\* Every variable has its type; the pointers of the queue are nodes or NULL.
TypeOK ==
    /\ selectAlg \in FCFS .. SJF /\ pass \in 1 .. 3
    /\ pc \in {"proceed", "wake", "create", "yield", "resume", "pick", "park",
               "count", "done", "crash"}
    /\ \A p \in Procs :
          /\ Prime[p].condition \in 0 .. 4
          /\ {Prime[p].CPUTime, Prime[p].Btime, Prime[p].currentWaitingTime} \subseteq Nat
          /\ Prime[p].finishingTime \in Nat \cup {-1}
          /\ {Prime[p].BurstTime, Prime[p].CPUBurst, Prime[p].quantum} \subseteq Int
          /\ Prime[p].operating \in BOOLEAN
    /\ ready.n \in 0 .. countPrime
    /\ {ready.front, ready.back, selection, namelessOp, presentN}
          \subseteq Procs \cup {Null}
    /\ ready.link \in [Procs -> Procs \cup {Null}]
    /\ paused \in Seq(Procs) /\ blocked \in Seq(Procs)
    /\ i \in 0 .. countPrime /\ firstPrime \in BOOLEAN
    /\ present \in 0 .. TimeBound /\ totalTimeNumber \in 0 .. present
    /\ {totalPrime, completion} \subseteq 0 .. countPrime

\* Nobody is lost: a process that has arrived and has not terminated is in
\* exactly one place, the one its condition names, and the chain of the ready
\* queue ends at its back (Qsetup, dsetup, pauseQue, insertB, removeB).
EveryoneSomewhere ==
    LET ch == Chain(ready)
        once(s, p) == Cardinality({k \in DOMAIN s : s[k] = p}) = 1
    IN  pc # "done" =>
        /\ Null \notin ToSet(ch)
        /\ ready.n # 0 => ready.back = Last(ch) /\ ready.link[ready.back] = Null
        /\ \A p \in Live :
              CASE Prime[p].condition = 1 -> once(ch \o paused, p)
                [] Prime[p].condition = 2 -> selection = p
                [] Prime[p].condition = 3 -> once(blocked, p)
        /\ ToSet(ch \o paused \o blocked) \cup ({selection} \ {Null}) = Live

\* The times that are printed add up (countdown, proceedForward): since its
\* arrival a process has spent each cycle running, blocked or waiting, once.
TimesAddUp ==
    \A p \in Procs :
        LET q == Prime[p]
            spent == q.CPUTime + q.Btime + q.currentWaitingTime
        IN  CASE q.condition = 0 -> spent = 0 /\ present <= q.A
              [] q.condition = 4 -> q.A + spent = q.finishingTime /\ q.CPUTime = q.C
              [] OTHER -> q.A + spent = present

\* CPUBurst and quantum do not wrap below 0, nor does a process run past its C,
\* which the test for equality in proceedForward would miss.  (BurstTime, unsigned
\* as well, does wrap: LatenessBounded says how far.)
NoOverrun ==
    \A p \in Procs :
        /\ Prime[p].CPUTime <= Prime[p].C
        /\ Prime[p].condition = 2 =>
              Prime[p].CPUBurst \in 0 .. Remaining(p)
        /\ pc = "count" /\ Prime[p].condition = 2 =>
              Prime[p].CPUBurst > 0 /\ (selectAlg = RR => Prime[p].quantum > 0)

\* The inputs that "block" copes with, for three processes: the first two arrive
\* together, no other before them or more than a cycle later, and the first does not
\* end in its first cycle.  With others it can leave processes in the pause queue for
\* ever (SomethingLeftToDo).
BlockCopes ==
    /\ Prime[2].A = Prime[1].A /\ Prime[1].C > 1
    /\ \A p \in Procs : Prime[p].A \in {Prime[1].A, Prime[1].A + 1}

\* The processor does not idle while a process is ready, except under "block",
\* where it does only while the process that owns it is blocked, if the input is one
\* that it copes with.
WorkConserving ==
    pc = "count" /\ selection = Null /\ (selectAlg = BLOCK => BlockCopes) =>
        \/ \A p \in Procs : Prime[p].condition # 1
        \/ selectAlg = BLOCK /\ namelessOp # Null /\ Prime[namelessOp].condition = 3

\* The walk of execxuteB may miss a process whose I/O is over, but never for
\* longer than it takes the others in the list to leave it.
LatenessBounded ==
    \A p \in Procs : Prime[p].condition = 3 =>
        Prime[p].BurstTime > -countPrime

\* A process leaves the blocked list in the cycle in which its I/O is over.
WokenInTime ==
    pc = "count" => \A p \in Procs : Prime[p].condition = 3 => Prime[p].BurstTime > 0

\* Under "block" a process keeps the processor to itself until it terminates.
OneAtATime ==
    selectAlg = BLOCK =>
        \A p \in Live, q \in Live :
            Prime[p].CPUTime > 0 /\ Prime[q].CPUTime > 0 => p = q

\* It does so when all processes arrive in the same cycle, although executeR parks
\* only half of the queue and pauseQue breaks it (scheduler.c:117-132, 313-323).
Together == \A p, q \in Procs : Prime[p].A = Prime[q].A

OneAtATimeTogether == Together => OneAtATime

\* The queue of pointers is the sequence of CpuQueue (Qsetup, dsetup, the
\* search and the unlinking of SJF).
Abstract == INSTANCE CpuQueue
    WITH Idle <- Null, queue <- Chain(ready), running <- selection,
         remaining <- [p \in Procs |-> Remaining(p)]

ImplementsCpuQueue == Abstract!Init /\ [][Abstract!Next(selectAlg)]_(Abstract!vars)

\* The loop of listoutputs (while completion != countPrime) ends, both times; under
\* "block" if the input is one that it copes with.
ListoutputsReturns == (selectAlg = BLOCK => BlockCopes) => <>(pc = "done")

\* As long as processes have not terminated, one of them runs, will run or is
\* yet to come: the loop of listoutputs has something left to do.
SomethingLeftToDo ==
    pc = "count" /\ completion + Cardinality(Live) = countPrime /\ Live # {} =>
        selection # Null \/ ready.n # 0 \/ blocked # <<>>

\* No link of the ready queue is followed where there is no node.
NeverCrashes == pc # "crash"
=============================================================================
