------------------------------ MODULE CpuQueue ------------------------------
(***************************************************************************)
(* What scheduler.c promises of its ready queue: a sequence whose order is *)
(* the order in which the processes became ready, and one processor.       *)
(***************************************************************************)
EXTENDS Naturals, Sequences, SequencesExt

CONSTANTS
    Procs,
    Idle        \* nobody runs

VARIABLES
    queue,
    running,
    remaining   \* CPU time each process still needs

vars == <<queue, running, remaining>>

Init ==
    /\ queue = <<>>
    /\ running = Idle
    /\ remaining \in [Procs -> Nat]

\* Processes become ready: at the back, none of them twice.
Join ==
    /\ IsStrictPrefix(queue, queue')
    /\ IsInjective(queue')
    /\ running \notin ToSet(queue')
    /\ UNCHANGED <<running, remaining>>

\* First come, first served.
RunFirst ==
    /\ queue # <<>> /\ running = Idle
    /\ running' = Head(queue)
    /\ queue' = Tail(queue)
    /\ UNCHANGED remaining

\* Shortest job first, and among these the first to become ready.
RunShortest ==
    /\ running = Idle
    /\ \E k \in DOMAIN queue :
          /\ \A l \in DOMAIN queue :
                \/ remaining[queue[k]] < remaining[queue[l]]
                \/ remaining[queue[k]] = remaining[queue[l]] /\ k <= l
          /\ running' = queue[k]
          /\ queue' = RemoveAt(queue, k)
    /\ UNCHANGED remaining

Leave ==
    /\ running # Idle
    /\ running' = Idle
    /\ UNCHANGED <<queue, remaining>>

Preempt ==
    /\ running # Idle
    /\ running' = Idle
    /\ queue' = Append(queue, running)
    /\ UNCHANGED remaining

\* Set aside for the pause queue.
Park ==
    /\ queue # <<>>
    /\ queue' = Tail(queue)
    /\ UNCHANGED <<running, remaining>>

\* A cycle of the running process.
Run ==
    /\ running # Idle
    /\ remaining[running] > 0
    /\ remaining' = [remaining EXCEPT ![running] = @ - 1]
    /\ UNCHANGED <<queue, running>>

\* Extra: everybody has finished, and the simulation starts again.
Restart ==
    /\ queue = <<>> /\ running = Idle
    /\ \A p \in Procs : remaining[p] = 0
    /\ remaining' \in [Procs -> Nat]
    /\ UNCHANGED <<queue, running>>

Common == Join \/ Leave \/ Run \/ Restart

\* alg: 0 FCFS, 1 RR, 2 block, 3 SJF
Next(alg) ==
    \/ Common
    \/ alg # 3 /\ RunFirst
    \/ alg = 3 /\ RunShortest
    \/ alg = 1 /\ Preempt
    \/ alg = 2 /\ Park
=============================================================================
