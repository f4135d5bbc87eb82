------------------------------- MODULE Reports -------------------------------
(***************************************************************************)
(* The incident reports of views.py: requests that, each in a thread of    *)
(* the server, test, load and rewrite one JSON file without a lock.  A     *)
(* report is a number, and a dump small enough to be written at the close. *)
(***************************************************************************)
EXTENDS Naturals, Sequences

CONSTANTS
    Threads,    \* threads of the server
    MaxReports  \* bound of the model: reports submitted

ASSUME ReportsAssumption == MaxReports \in Nat

VARIABLES
    file,       \* campus_safe_reports.json
    req,        \* the request each thread deals with
    submitted,  \* history: number of reports submitted
    accepted,   \* history: reports whose request has ended well, in order
    troubled    \* history: two report requests have overlapped, or one was cut off

reportVars == <<file, req, submitted, accepted, troubled>>

Absent   == [state |-> "absent", reports |-> <<>>]
Empty    == [state |-> "empty",  reports |-> <<>>]
Torn     == [state |-> "torn",   reports |-> <<>>]
List(rs) == [state |-> "list",   reports |-> rs]

Idle == [pc |-> "idle", kind |-> "none", report |-> 0, reports |-> <<>>]

Reporting(t) == req[t].kind = "report" /\ req[t].pc # "idle"
Writing(t)   == req[t].pc = "dump"

ReportsInit ==
    /\ file = Absent /\ req = [t \in Threads |-> Idle]
    /\ submitted = 0 /\ accepted = <<>> /\ troubled = FALSE

\* A POST of report, or a GET of view_report_history.
Begin(t, kind) ==
    /\ req[t].pc = "idle"
    /\ kind = "report" => submitted < MaxReports
    /\ submitted' = IF kind = "report" THEN submitted + 1 ELSE submitted
    /\ req' = [req EXCEPT ![t] = [pc |-> "test", kind |-> kind,
                                  report |-> submitted', reports |-> <<>>]]
    /\ troubled' = (troubled \/ (kind = "report" /\ \E s \in Threads : Reporting(s)))
    /\ UNCHANGED <<file, accepted>>

HasContent == file.state \notin {"absent", "empty"}

\* os.path.exists and os.path.getsize.
Test(t) ==
    /\ req[t].pc = "test"
    /\ req' = [req EXCEPT ![t].pc = IF HasContent THEN "load" ELSE "use"]
    /\ UNCHANGED <<file, submitted, accepted, troubled>>

\* json.load: what is no list raises an error, and the request ends with status 500.
Load(t) ==
    /\ req[t].pc = "load"
    /\ req' = [req EXCEPT ![t] =
                  IF file.state = "list" THEN [@ EXCEPT !.pc = "use", !.reports = file.reports]
                                         ELSE Idle]
    /\ UNCHANGED <<file, submitted, accepted, troubled>>

NewestFirst(rs, r) == <<r>> \o rs             \* mutant: put in front
WithReport(rs, r) == Append(rs, r)

\* append, and open for writing, which truncates.
OpenForWriting(t) ==
    /\ req[t].pc = "use" /\ req[t].kind = "report"
    /\ req' = [req EXCEPT ![t] =
                  [@ EXCEPT !.pc = "dump",
                            !.reports = WithReport(req[t].reports, req[t].report)]]
    /\ file' = Empty
    /\ UNCHANGED <<submitted, accepted, troubled>>

\* json.dump and close.  Over the dump of another request the new one lies from the
\* first byte on: what is longer sticks out behind it.
Dump(t) ==
    LET new == req[t].reports
        old == file.reports
    IN  /\ req[t].pc = "dump"
        /\ file' \in (IF Len(new) >= Len(old) THEN {List(new)} ELSE {})
                     \cup (IF Len(old) >= Len(new) \/ file.state = "torn" THEN {Torn} ELSE {})
        /\ accepted' = Append(accepted, req[t].report)
        /\ req' = [req EXCEPT ![t] = Idle]
        /\ UNCHANGED <<submitted, troubled>>

\* view_report_history picks the user's reports and renders them.
ShowHistory(t) ==
    /\ req[t].pc = "use" /\ req[t].kind = "history"
    /\ req' = [req EXCEPT ![t] = Idle]
    /\ UNCHANGED <<file, submitted, accepted, troubled>>

\* The server's process ends and is started again.
Restart ==
    /\ req' = [t \in Threads |-> Idle]
    /\ troubled' = (troubled \/ \E t \in Threads : Writing(t))
    /\ UNCHANGED <<file, submitted, accepted>>

ReportsNext ==
    \/ \E t \in Threads, k \in {"report", "history"} : Begin(t, k)
    \/ \E t \in Threads :
          Test(t) \/ Load(t) \/ OpenForWriting(t) \/ Dump(t) \/ ShowHistory(t)
-----------------------------------------------------------------------------
\* What t has loaded.
Loaded(t) ==
    LET rs == req[t].reports
    IN  IF Writing(t) THEN SubSeq(rs, 1, Len(rs) - 1) ELSE rs

\* all without some of its elements.
SubsequenceOf(rs, all) ==
    \E at \in [1 .. Len(rs) -> 1 .. Len(all)] :
        /\ \A i, j \in 1 .. Len(rs) : i < j => at[i] < at[j]
        /\ \A i \in 1 .. Len(rs) : rs[i] = all[at[i]]

\* However requests overlap, and whatever is cut off, the file and what any request has
\* loaded hold only reports whose request has ended well, none of them twice, in
\* the order in which they were filed; the file has all of them while nobody writes, as
\* long as report requests have not overlapped and none was cut off while it wrote
\* (views.py:43-52, 114-118).
FiledInOrder ==
    /\ SubsequenceOf(file.reports, accepted)
    /\ \A t \in Threads : SubsequenceOf(Loaded(t), accepted)
    /\ ~troubled /\ (\A t \in Threads : ~Writing(t)) =>
          file.reports = accepted /\ file.state # "torn"

\* "Incident report filed check the Dashboard" (report.html:328): while nobody writes, the
\* file has every report whose request has ended well.  It does not hold: a report
\* is lost to a request that overlaps with its own, and all of them are to a crash.
FiledReportsStay ==
    (\A t \in Threads : ~Writing(t)) =>
        \A i \in 1 .. Len(accepted) : \E j \in 1 .. Len(file.reports) : file.reports[j] = accepted[i]
=============================================================================
