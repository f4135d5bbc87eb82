----------------------------- MODULE JobControl -----------------------------
(***************************************************************************)
(* What the shell promises about its jobs (tsh.c:27-35 and the comments of *)
(* eval and waitfg), without slots, job ids, signals or handlers: a job is *)
(* in the foreground, in the background or stopped; while one is in the    *)
(* foreground the shell reads no command.                                  *)
(***************************************************************************)
CONSTANTS Pids

VARIABLES
    job,        \* the state of each process's job, or "none"
    reading     \* the shell is at its prompt

vars == <<job, reading>>

NoFG   == \A p \in Pids : job[p] # "FG"

Init ==
    /\ job = [p \in Pids |-> "none"]
    /\ reading = TRUE

\* A command is read; the shell is busy until Done, or for good if it exits.
Read ==
    /\ reading
    /\ reading' = FALSE
    /\ UNCHANGED job

Done ==
    /\ ~reading /\ NoFG
    /\ reading' = TRUE
    /\ UNCHANGED job

\* The command starts a process, or bg or fg resumes a job. In the background
\* the command is over at once.
Launch(p, s) ==
    /\ ~reading /\ NoFG
    /\ job[p] = "none"
    /\ job' = [job EXCEPT ![p] = s]
    /\ reading' = (s = "BG")

Resume(p, s) ==
    /\ ~reading /\ NoFG
    /\ job[p] # "none"
    /\ job' = [job EXCEPT ![p] = s]
    /\ reading' = (s = "BG")

\* At any time a job stops or ends.
Stop(p) ==
    /\ job[p] # "none"
    /\ job' = [job EXCEPT ![p] = "ST"]
    /\ UNCHANGED reading

End(p) ==
    /\ job[p] # "none"
    /\ job' = [job EXCEPT ![p] = "none"]
    /\ UNCHANGED reading

Next ==
    \/ Read
    \/ Done
    \/ \E p \in Pids :
          \/ \E s \in {"FG", "BG"} : Launch(p, s) \/ Resume(p, s)
          \/ Stop(p) \/ End(p)

Spec == Init /\ [][Next]_vars

=============================================================================
