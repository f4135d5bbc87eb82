---------------------------- MODULE MCScheduler ----------------------------
(***************************************************************************)
(* Instances of Scheduler for TLC: three processes.                        *)
(***************************************************************************)
EXTENDS Scheduler

\* One M for all; a burst of 1, 2 or 3 cycles, so that the quantum of 2 can
\* expire.
InputsOf(As, Cs, Ms) ==
    UNION {[Procs -> [A : As, B : {3}, C : Cs, M : {m}]] : m \in Ms}

\* Arrivals together, one after the other and with a gap; jobs of one burst and
\* of several; no I/O time to speak of, and much.
Inputs == InputsOf({0, 1, 3}, {1, 3}, {0, 2})

CallsOf(algs, inputs) == [alg : algs, input : inputs]

\* All four algorithms with all inputs.
AllCalls == CallsOf({FCFS, RR, BLOCK, SJF}, Inputs)

\* "block" alone.
BlockCalls == CallsOf({BLOCK}, Inputs)

\* The arrivals of input-5: two in cycle 1, and the last of the list in cycle 0; one
\* job for all.
LikeInput5 ==
    {in \in InputsOf({0, 1}, {3}, {2}) : in[1].A = 1 /\ in[2].A = 1 /\ in[3].A = 0}

OverlapCalls == CallsOf({BLOCK}, LikeInput5)
LateCalls    == CallsOf({FCFS}, LikeInput5)

\* All arrive in the same cycle.
TogetherCalls == CallsOf({BLOCK}, InputsOf({0}, {1, 2, 3}, {0}))
=============================================================================
