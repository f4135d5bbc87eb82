-------------------------- MODULE CampusSafeProofs --------------------------
(***************************************************************************)
(* Proofs about CampusSafe: the alerts that are recorded go back to held   *)
(* presses (the page and the path of an alert to its row), and reports are *)
(* shown in the order in which they were filed (the threads of the server).*)
(***************************************************************************)
EXTENDS CampusSafe, SequenceTheorems, TLAPS

\* The variables of the page and of the path of an alert have their types.
AlertTypes ==
    /\ countdown \in Int /\ handle \in Nat /\ held \in Nat
    /\ positions \in Nat /\ holds \in Nat /\ posts \in Nat /\ alerts \in Nat
    /\ pressed \in BOOLEAN /\ alerted \in BOOLEAN /\ tidy \in BOOLEAN

\* One interval ticks, that of the handle, and it counts what the button is held:
\* while the button is down before the alert, and at no other time.
OneInterval ==
    tidy => IF pressed /\ ~alerted
            THEN live = {handle} /\ countdown + held = HOLD /\ countdown > 0
            ELSE live = {} /\ (~alerted => countdown = HOLD)

AlertInv == AlertTypes /\ OneInterval /\ AlertAfterHold

\* A step of the requests leaves the button alone, and the other way round.
LEMMA AlertInvUnchanged ==
    ASSUME AlertInv, UNCHANGED <<buttonVars, posts, alerts>>
    PROVE  AlertInv'
BY DEF AlertInv, AlertTypes, OneInterval, AlertAfterHold, buttonVars

\* Every event of the page keeps the countdown and the interval together.
LEMMA ButtonKeepsAlertInv ==
    ASSUME AlertInv, ButtonNext, UNCHANGED <<posts, alerts>>
    PROVE  AlertInv'
<1> USE HoldAssumption DEF AlertInv, AlertTypes, OneInterval, AlertAfterHold
<1>1. CASE Mousedown
  <2>1. AlertTypes' /\ holds' = holds /\ positions' = positions
    <3>1. tidy' \in BOOLEAN /\ pressed' \in BOOLEAN /\ alerted' \in BOOLEAN
      BY <1>1, Zenon DEF Mousedown
    <3> QED BY <1>1, <3>1 DEF Mousedown
  <2>2. tidy' <=> tidy /\ ~pressed /\ ~alerted
    BY <1>1, Zenon DEF Mousedown
  <2>3. OneInterval'
    <3> SUFFICES ASSUME tidy'
                 PROVE  OneInterval'
      OBVIOUS
    <3>1. tidy /\ ~pressed /\ ~alerted
      BY <2>2
    <3>2. live = {} /\ countdown = HOLD
      BY <3>1
    <3>3. live' = {handle'} /\ countdown' = HOLD /\ held' = 0
      BY <1>1, <3>2 DEF Mousedown
    <3>4. pressed' /\ ~alerted'
      BY <1>1, <3>1 DEF Mousedown
    <3> QED BY <3>3, <3>4
  <2> QED BY <1>1, <2>1, <2>2, <2>3
<1>2. CASE Mouseup
  <2>1. live = {} \/ live = {handle} => live' = {}
    BY <1>2 DEF Mouseup
  <2>2. tidy' = tidy /\ alerted' = alerted /\ ~pressed'
    BY <1>2 DEF Mouseup
  <2>3. countdown' \in Int /\ (countdown > 0 => countdown' = HOLD)
    BY <1>2 DEF Mouseup, AfterMouseup
  <2>4. AlertTypes' /\ AlertAfterHold'
    BY <1>2, <2>3 DEF Mouseup
  <2>5. OneInterval'
    BY <1>2, <2>1, <2>2, <2>3 DEF Mouseup
  <2> QED BY <2>4, <2>5
<1>3. CASE ReleaseElsewhere
  BY <1>3 DEF ReleaseElsewhere
<1>4. ASSUME NEW i \in live, Tick(i)
      PROVE  AlertInv'
  <2>1. AlertTypes'
    <3>1. alerted' \in BOOLEAN /\ pressed' \in BOOLEAN /\ tidy' \in BOOLEAN
      BY <1>4, Zenon DEF Tick
    <3>2. held' \in Nat /\ holds' \in Nat
      BY <1>4 DEF Tick
    <3>3. countdown' \in Int /\ handle' \in Nat /\ positions' \in Nat
      BY <1>4 DEF Tick
    <3> QED BY <3>1, <3>2, <3>3
  <2>2. CASE ~tidy
    BY <1>4, <2>1, <2>2 DEF Tick
  <2>3. CASE tidy
    <3>1. pressed /\ ~alerted /\ live = {handle} /\ countdown + held = HOLD /\ countdown > 0
      BY <1>4, <2>3
    <3>2. held < HOLD /\ held' = held + 1 /\ countdown' = countdown - 1
      BY <1>4, <3>1 DEF Tick
    <3>3. CASE countdown' > 0
      BY <1>4, <2>1, <2>3, <3>1, <3>2, <3>3 DEF Tick
    <3>4. CASE ~(countdown' > 0)
      <4>1. held' = HOLD /\ holds' = holds + 1
        BY <1>4, <3>1, <3>2, <3>4 DEF Tick
      <4>2. live' = {} /\ positions' = positions + 1 /\ alerted'
        BY <1>4, <3>1, <3>4 DEF Tick
      <4> QED BY <1>4, <2>1, <2>3, <3>1, <4>1, <4>2 DEF Tick
    <3> QED BY <3>3, <3>4
  <2> QED BY <2>1, <2>2, <2>3
<1>5. CASE Refused
  BY <1>5 DEF Refused
<1> HIDE DEF AlertInv
<1> QED BY <1>1, <1>2, <1>3, <1>4, <1>5 DEF ButtonNext

\* Every recorded alert goes back to a press of its own, held to the end of the
\* countdown (script.js:6-28), for every length of the countdown, any number of presses,
\* and any loss of answers, POSTs and server processes on the way.
THEOREM AlertsComeFromHolds == Spec => []AlertAfterHold
<1>1. Init => AlertInv
  <2> SUFFICES ASSUME Init
               PROVE  AlertInv
    OBVIOUS
  <2> USE DEF Init, ButtonInit
  <2>1. ~pressed /\ ~alerted /\ live = {} /\ countdown = HOLD
    OBVIOUS
  <2>2. pressed \in BOOLEAN /\ alerted \in BOOLEAN /\ tidy \in BOOLEAN
    OBVIOUS
  <2>3. AlertTypes
    BY <2>2, HoldAssumption DEF AlertTypes
  <2>4. alerts + posts + positions <= holds
    OBVIOUS
  <2> QED BY <2>1, <2>3, <2>4 DEF AlertInv, OneInterval, AlertAfterHold
<1>2. AlertInv /\ [Next]_vars => AlertInv'
  <2> SUFFICES ASSUME AlertInv, [Next]_vars
               PROVE  AlertInv'
    OBVIOUS
  <2>1. CASE ButtonNext /\ UNCHANGED <<reportVars, posts, alerts>>
    BY <2>1, ButtonKeepsAlertInv
  <2>2. CASE ReportsNext /\ UNCHANGED <<buttonVars, posts, alerts>>
    BY <2>2, AlertInvUnchanged
  <2>3. CASE Fetch
    BY <2>3 DEF Fetch, AlertInv, AlertTypes, OneInterval, AlertAfterHold
  <2>4. CASE alertsend
    BY <2>4 DEF alertsend, AlertInv, AlertTypes, OneInterval, AlertAfterHold, buttonVars
  <2>5. CASE PostLost
    BY <2>5 DEF PostLost, AlertInv, AlertTypes, OneInterval, AlertAfterHold, buttonVars
  <2>6. CASE RestartServer
    BY <2>6 DEF RestartServer, AlertInv, AlertTypes, OneInterval, AlertAfterHold, buttonVars
  <2>7. CASE UNCHANGED vars
    BY <2>7, AlertInvUnchanged DEF vars
  <2> QED BY <2>1, <2>2, <2>3, <2>4, <2>5, <2>6, <2>7 DEF Next
<1>3. AlertInv => AlertAfterHold
  BY DEF AlertInv
<1> QED BY <1>1, <1>2, <1>3, PTL DEF Spec
-----------------------------------------------------------------------------
RequestType ==
    [pc : {"idle", "test", "load", "use", "dump"}, kind : {"none", "report", "history"},
     report : Nat, reports : Seq(Nat)]

\* What the file holds and what a request keeps: a list of reports; the list to be
\* written ends with the report of its request.
ReportTypes ==
    /\ file \in [state : {"absent", "empty", "torn", "list"}, reports : Seq(Nat)]
    /\ file.state # "list" => file.reports = <<>>
    /\ req \in [Threads -> RequestType]
    /\ accepted \in Seq(Nat) /\ submitted \in Nat /\ troubled \in BOOLEAN
    /\ \A t \in Threads : Writing(t) => /\ req[t].kind = "report" /\ req[t].reports # <<>>
                                        /\ req[t].reports[Len(req[t].reports)] = req[t].report

\* The file and what the requests have loaded are in order.
ListsInOrder ==
    /\ SubsequenceOf(file.reports, accepted)
    /\ \A t \in Threads : SubsequenceOf(Loaded(t), accepted)

\* While there has been no trouble: no two report requests at the same time; ...
OneReporter == \A s, t \in Threads : Reporting(s) /\ Reporting(t) => s = t

\* ... the request that writes has emptied the file, and keeps what was in it and its own
\* report; ...
WriterHasAll ==
    \A t \in Threads : Writing(t) =>
        /\ file = Empty
        /\ accepted = SubSeq(req[t].reports, 1, Len(req[t].reports) - 1)

\* ... without a writer the file is whole: the accepted reports, or absent before the
\* first; ...
FileIsWhole ==
    (\A t \in Threads : ~Writing(t)) =>
        /\ file.state \in {"absent", "list"}
        /\ file.reports = accepted

\* ... and a report request that is about to write has loaded it all.
AllIsLoaded ==
    \A t \in Threads :
        /\ req[t].pc \in {"idle", "test", "load"} => req[t].reports = <<>>
        /\ Reporting(t) /\ req[t].pc = "use" => req[t].reports = accepted

AllIsKept == OneReporter /\ WriterHasAll /\ FileIsWhole /\ AllIsLoaded

ReportInv == ReportTypes /\ ListsInOrder /\ (~troubled => AllIsKept)

\* A list keeps its place in the accepted reports when one more is accepted, and so does
\* the list with that one behind it.
LEMMA SubsequenceGrows ==
    ASSUME NEW all \in Seq(Nat), NEW rs \in Seq(Nat), NEW r \in Nat, SubsequenceOf(rs, all)
    PROVE  /\ SubsequenceOf(rs, Append(all, r))
           /\ SubsequenceOf(Append(rs, r), Append(all, r))
<1> DEFINE n == Len(rs)
           m == Len(all)
           more == Append(all, r)
           longer == Append(rs, r)
<1>1. PICK at \in [1 .. n -> 1 .. m] :
          /\ \A i, j \in 1 .. n : i < j => at[i] < at[j]
          /\ \A i \in 1 .. n : rs[i] = all[at[i]]
  BY DEF SubsequenceOf
<1>2. n \in Nat /\ m \in Nat
  BY LenProperties
<1>3. /\ Len(more) = m + 1 /\ more[m + 1] = r /\ \A i \in 1 .. m : more[i] = all[i]
      /\ Len(longer) = n + 1 /\ longer[n + 1] = r /\ \A i \in 1 .. n : longer[i] = rs[i]
  BY AppendProperties
<1> HIDE DEF n, m, more, longer
<1>4. SubsequenceOf(rs, more)
  <2>1. at \in [1 .. n -> 1 .. m + 1]
    BY <1>1, <1>2
  <2>2. \A i \in 1 .. n : rs[i] = more[at[i]]
    BY <1>1, <1>3
  <2> QED BY <1>1, <1>3, <2>1, <2>2 DEF SubsequenceOf, n
<1>5. SubsequenceOf(longer, more)
  <2> DEFINE to == [i \in 1 .. n + 1 |-> IF i = n + 1 THEN m + 1 ELSE at[i]]
  <2>1. to \in [1 .. n + 1 -> 1 .. m + 1]
    BY <1>1, <1>2
  <2>2. /\ to[n + 1] = m + 1
        /\ \A i \in 1 .. n : to[i] = at[i] /\ to[i] \in 1 .. m
    BY <1>1, <1>2
  <2> HIDE DEF to
  <2>3. ASSUME NEW i \in 1 .. n + 1, NEW j \in 1 .. n + 1, i < j
        PROVE  to[i] < to[j]
    <3>1. i \in 1 .. n /\ to[i] = at[i] /\ to[i] \in 1 .. m
      BY <1>2, <2>2, <2>3
    <3>2. CASE j = n + 1
      BY <1>2, <2>2, <3>1, <3>2
    <3>3. CASE j # n + 1
      <4>1. j \in 1 .. n /\ to[j] = at[j]
        BY <1>2, <2>2, <3>3
      <4> QED BY <1>1, <2>3, <3>1, <4>1
    <3> QED BY <3>2, <3>3
  <2>4. ASSUME NEW i \in 1 .. n + 1
        PROVE  longer[i] = more[to[i]]
    <3>1. CASE i = n + 1
      BY <1>3, <2>2, <3>1
    <3>2. CASE i # n + 1
      <4>1. i \in 1 .. n /\ to[i] = at[i] /\ at[i] \in 1 .. m
        BY <1>2, <2>2, <3>2
      <4>2. longer[i] = rs[i] /\ rs[i] = all[at[i]]
        BY <1>1, <1>3, <4>1
      <4> QED BY <1>3, <4>1, <4>2
    <3> QED BY <3>1, <3>2
  <2> QED BY <1>3, <2>1, <2>3, <2>4 DEF SubsequenceOf
<1> QED BY <1>4, <1>5 DEF more, longer

\* A list without reports is in order.
LEMMA EmptyIsSubsequence == \A all \in Seq(Nat) : SubsequenceOf(<<>>, all)
<1> SUFFICES ASSUME NEW all \in Seq(Nat)
             PROVE  SubsequenceOf(<<>>, all)
  OBVIOUS
<1> DEFINE at == [i \in 1 .. 0 |-> 1]
<1>1. at \in [1 .. 0 -> 1 .. Len(all)] /\ Len(<<>>) = 0 /\ \A i \in 1 .. 0 : FALSE
  BY LenProperties
<1> HIDE DEF at
<1> QED BY <1>1 DEF SubsequenceOf

\* A list that is not empty is what comes before its last report, and that.
LEMMA LastOfList ==
    ASSUME NEW rs \in Seq(Nat), rs # <<>>
    PROVE  /\ SubSeq(rs, 1, Len(rs) - 1) \in Seq(Nat)
           /\ rs = Append(SubSeq(rs, 1, Len(rs) - 1), rs[Len(rs)])
<1>1. Len(rs) \in Nat /\ Len(rs) > 0 /\ rs[Len(rs)] \in Nat
  BY LenProperties, EmptySeq, ElementOfSeq
<1> QED BY <1>1, LenProperties, SubSeqProperties, AppendProperties, SeqEqual

\* Of a list with one report more, the rest is the list.
LEMMA FrontOfLonger ==
    ASSUME NEW rs \in Seq(Nat), NEW r \in Nat
    PROVE  /\ Append(rs, r) \in Seq(Nat) /\ Append(rs, r) # <<>>
           /\ Append(rs, r)[Len(Append(rs, r))] = r
           /\ SubSeq(Append(rs, r), 1, Len(Append(rs, r)) - 1) = rs
<1> DEFINE longer == Append(rs, r)
<1>1. /\ longer \in Seq(Nat) /\ Len(longer) = Len(rs) + 1 /\ longer[Len(rs) + 1] = r
      /\ \A i \in 1 .. Len(rs) : longer[i] = rs[i]
  BY AppendProperties
<1> HIDE DEF longer
<1>2. longer # <<>> /\ longer[Len(longer)] = r
  BY <1>1, LenProperties, EmptySeq
<1>3. SubSeq(longer, 1, Len(longer) - 1) = rs
  BY <1>1, LenProperties, SubSeqProperties, SeqEqual
<1> QED BY <1>1, <1>2, <1>3 DEF longer

\* Every step of a request keeps the types of the file and of the requests.
LEMMA ReportsKeepTypes ==
    ASSUME ReportTypes, ReportsNext
    PROVE  ReportTypes'
<1> USE DEF ReportTypes, RequestType, Writing
<1>1. ASSUME NEW t \in Threads, NEW k \in {"report", "history"}, Begin(t, k)
      PROVE  ReportTypes'
  <2>1. submitted' \in Nat
    BY <1>1 DEF Begin
  <2>2. troubled' \in BOOLEAN
    BY <1>1, Zenon DEF Begin
  <2> QED BY <1>1, <2>1, <2>2, EmptySeq DEF Begin
<1>2. ASSUME NEW t \in Threads, Test(t)
      PROVE  ReportTypes'
  <2>1. UNCHANGED <<file, submitted, accepted, troubled>>
    BY <1>2 DEF Test
  <2>2. req' \in [Threads -> RequestType]
    <3> DEFINE p == IF HasContent THEN "load" ELSE "use"
    <3>1. [req[t] EXCEPT !.pc = p] \in RequestType
      OBVIOUS
    <3>2. req' = [req EXCEPT ![t] = [req[t] EXCEPT !.pc = p]]
      BY <1>2 DEF Test
    <3> HIDE DEF p, RequestType
    <3> QED BY <3>1, <3>2
  <2>3. \A s \in Threads : Writing(s)' => req'[s] = req[s]
    BY <1>2 DEF Test
  <2> QED BY <2>1, <2>2, <2>3
<1>3. ASSUME NEW t \in Threads, Load(t)
      PROVE  ReportTypes'
  <2>1. UNCHANGED <<file, submitted, accepted, troubled>>
    BY <1>3 DEF Load
  <2>2. req' \in [Threads -> RequestType]
    <3> DEFINE new == IF file.state = "list"
                      THEN [req[t] EXCEPT !.pc = "use", !.reports = file.reports] ELSE Idle
    <3>1. new \in RequestType
      <4>1. [req[t] EXCEPT !.pc = "use", !.reports = file.reports] \in RequestType
        OBVIOUS
      <4>2. Idle \in RequestType
        BY EmptySeq DEF Idle
      <4> QED BY <4>1, <4>2
    <3>2. req' = [req EXCEPT ![t] = new]
      BY <1>3 DEF Load
    <3> HIDE DEF new, RequestType
    <3> QED BY <3>1, <3>2
  <2>3. \A s \in Threads : Writing(s)' => req'[s] = req[s]
    BY <1>3 DEF Load, Idle
  <2> QED BY <2>1, <2>2, <2>3
<1>4. ASSUME NEW t \in Threads, OpenForWriting(t)
      PROVE  ReportTypes'
  <2> DEFINE longer == Append(req[t].reports, req[t].report)
  <2>1. longer \in Seq(Nat) /\ longer # <<>> /\ longer[Len(longer)] = req[t].report
    <3>1. req[t].reports \in Seq(Nat) /\ req[t].report \in Nat
      OBVIOUS
    <3> QED BY <3>1, FrontOfLonger
  <2>2. req' = [req EXCEPT ![t] = [@ EXCEPT !.pc = "dump", !.reports = longer]]
    BY <1>4 DEF OpenForWriting, WithReport
  <2>3. file' = Empty /\ UNCHANGED <<submitted, accepted, troubled>> /\ req[t].kind = "report"
    BY <1>4, Zenon DEF OpenForWriting
  <2> HIDE DEF longer
  <2>4. \A s \in Threads \ {t} : req'[s] = req[s]
    BY <2>2
  <2>5. /\ req'[t].report = req[t].report /\ req'[t].reports = longer
        /\ req'[t].kind = "report"
    BY <2>2, <2>3
  <2>6. req' \in [Threads -> RequestType]
    BY <2>1, <2>2
  <2>7. file' \in [state : {"absent", "empty", "torn", "list"}, reports : Seq(Nat)]
        /\ file'.reports = <<>>
    BY <2>3, EmptySeq DEF Empty
  <2>8. ASSUME NEW s \in Threads, Writing(s)'
        PROVE  /\ req'[s].kind = "report" /\ req'[s].reports # <<>>
               /\ req'[s].reports[Len(req'[s].reports)] = req'[s].report
    <3>1. CASE s = t
      BY <2>1, <2>5, <3>1
    <3>2. CASE s # t
      BY <2>4, <2>8, <3>2
    <3> QED BY <3>1, <3>2
  <2> QED BY <2>3, <2>6, <2>7, <2>8
<1>5. ASSUME NEW t \in Threads, Dump(t)
      PROVE  ReportTypes'
  <2> DEFINE new == req[t].reports
  <2>1. new \in Seq(Nat) /\ new # <<>>
    BY <1>5 DEF Dump
  <2>2. req[t].report \in Nat
    OBVIOUS
  <2>3. accepted' \in Seq(Nat)
    BY <1>5, <2>2, AppendProperties DEF Dump
  <2>4. /\ file' \in [state : {"absent", "empty", "torn", "list"}, reports : Seq(Nat)]
        /\ file'.state # "list" => file'.reports = <<>>
    <3>1. file' \in {List(new), Torn}
      BY <1>5 DEF Dump
    <3> HIDE DEF new
    <3>2. CASE file' = List(new)
      BY <2>1, <3>2 DEF List
    <3>3. CASE file' = Torn
      BY <3>3, EmptySeq DEF Torn
    <3> QED BY <3>1, <3>2, <3>3
  <2>5. req' = [req EXCEPT ![t] = Idle]
    BY <1>5 DEF Dump
  <2> QED BY <1>5, <2>3, <2>4, <2>5, EmptySeq DEF Dump, Idle
<1>6. ASSUME NEW t \in Threads, ShowHistory(t)
      PROVE  ReportTypes'
  BY <1>6, EmptySeq DEF ShowHistory, Idle
<1> QED BY <1>1, <1>2, <1>3, <1>4, <1>5, <1>6 DEF ReportsNext

\* What a request reads was in order when it was written, and still is.
LEMMA ReadersKeepOrder ==
    ASSUME ReportInv, NEW t \in Threads,
           \/ \E k \in {"report", "history"} : Begin(t, k)
           \/ Test(t) \/ Load(t) \/ ShowHistory(t)
    PROVE  ListsInOrder'
<1> USE DEF ReportInv, ReportTypes, RequestType
<1>1. /\ file' = file /\ accepted' = accepted
      /\ \A s \in Threads \ {t} : req'[s] = req[s]
      /\ ~Writing(t) /\ ~Writing(t)'
  <2>1. ASSUME NEW k \in {"report", "history"}, Begin(t, k)
        PROVE  <1>1!:
    BY <2>1 DEF Begin, Writing
  <2>2. CASE Test(t)
    BY <2>2 DEF Test, Writing
  <2>3. CASE Load(t)
    BY <2>3 DEF Load, Idle, Writing
  <2>4. CASE ShowHistory(t)
    BY <2>4 DEF ShowHistory, Idle, Writing
  <2> QED BY <2>1, <2>2, <2>3, <2>4
<1>2. req'[t].reports \in {<<>>, req[t].reports, file.reports}
  <2>1. ASSUME NEW k \in {"report", "history"}, Begin(t, k)
        PROVE  req'[t].reports = <<>>
    BY <2>1 DEF Begin
  <2>2. CASE Test(t)
    BY <2>2 DEF Test
  <2>3. CASE Load(t)
    BY <2>3 DEF Load, Idle
  <2>4. CASE ShowHistory(t)
    BY <2>4 DEF ShowHistory, Idle
  <2> QED BY <2>1, <2>2, <2>3, <2>4
<1>3. SubsequenceOf(req'[t].reports, accepted)
  BY <1>1, <1>2, EmptyIsSubsequence DEF ListsInOrder, Loaded
<1>4. \A s \in Threads : SubsequenceOf(Loaded(s), accepted)'
  BY <1>1, <1>3 DEF ListsInOrder, Loaded, Writing
<1> QED BY <1>1, <1>4 DEF ListsInOrder

\* The request that opens the file for writing has loaded what it had.
LEMMA OpenKeepsOrder ==
    ASSUME ReportInv, NEW t \in Threads, OpenForWriting(t)
    PROVE  ListsInOrder'
<1> DEFINE longer == Append(req[t].reports, req[t].report)
<1>1. req' = [req EXCEPT ![t] = [@ EXCEPT !.pc = "dump", !.reports = longer]]
  BY DEF OpenForWriting, WithReport
<1>2. file' = Empty /\ accepted' = accepted /\ req[t].pc = "use"
  BY DEF OpenForWriting
<1>3. SubSeq(longer, 1, Len(longer) - 1) = req[t].reports
  BY FrontOfLonger DEF ReportInv, ReportTypes, RequestType
<1> HIDE DEF longer
<1>4. /\ req'[t].pc = "dump" /\ req'[t].reports = longer
      /\ \A s \in Threads \ {t} : req'[s] = req[s]
  BY <1>1 DEF ReportInv, ReportTypes, RequestType
<1>5. Loaded(t)' = Loaded(t)
  BY <1>2, <1>3, <1>4 DEF Loaded, Writing
<1>6. \A s \in Threads : SubsequenceOf(Loaded(s), accepted)'
  BY <1>2, <1>4, <1>5 DEF ReportInv, ListsInOrder, Loaded, Writing
<1>7. SubsequenceOf(file.reports, accepted)'
  BY <1>2, EmptyIsSubsequence DEF Empty, ReportInv, ReportTypes
<1> QED BY <1>6, <1>7 DEF ListsInOrder

\* A dump accepts its own report, behind those that its request has loaded.
LEMMA DumpKeepsOrder ==
    ASSUME ReportInv, NEW t \in Threads, Dump(t)
    PROVE  ListsInOrder'
<1> DEFINE new == req[t].reports
           front == SubSeq(new, 1, Len(new) - 1)
           r == req[t].report
           more == Append(accepted, r)
<1>1. Writing(t) /\ new \in Seq(Nat) /\ new # <<>> /\ new[Len(new)] = r /\ r \in Nat
  BY DEF Dump, Writing, ReportInv, ReportTypes, RequestType
<1>2. front \in Seq(Nat) /\ new = Append(front, r)
  BY <1>1, LastOfList
<1>3. accepted \in Seq(Nat) /\ more \in Seq(Nat) /\ accepted' = more
  BY <1>1, AppendProperties DEF Dump, ReportInv, ReportTypes
<1>4. SubsequenceOf(front, accepted)
  BY <1>1 DEF ReportInv, ListsInOrder, Loaded
<1>5. SubsequenceOf(new, more)
  BY <1>1, <1>2, <1>3, <1>4, SubsequenceGrows
<1>6. file'.reports \in {new, <<>>}
  <2>1. file' \in {List(new), Torn}
    BY DEF Dump
  <2> QED BY <2>1 DEF List, Torn
<1>7. SubsequenceOf(file.reports, accepted)'
  BY <1>3, <1>5, <1>6, EmptyIsSubsequence
<1>8. ASSUME NEW s \in Threads
      PROVE  SubsequenceOf(Loaded(s), accepted)'
  <2>1. req' = [req EXCEPT ![t] = Idle]
    BY DEF Dump
  <2>2. CASE s = t
    <3>1. Loaded(s)' = <<>>
      BY <2>1, <2>2 DEF Loaded, Writing, Idle, ReportInv, ReportTypes
    <3> QED BY <1>3, <3>1, EmptyIsSubsequence
  <2>3. CASE s # t
    <3>1. Loaded(s)' = Loaded(s)
      BY <2>1, <2>3 DEF Loaded, Writing, ReportInv, ReportTypes
    <3>2. Loaded(s) \in Seq(Nat)
      BY LastOfList DEF Loaded, ReportInv, ReportTypes, RequestType
    <3>3. SubsequenceOf(Loaded(s), accepted)
      BY DEF ReportInv, ListsInOrder
    <3>4. SubsequenceOf(Loaded(s), more)
      BY <1>1, <1>3, <3>2, <3>3, SubsequenceGrows
    <3> QED BY <1>3, <3>1, <3>4
  <2> QED BY <2>2, <2>3
<1> QED BY <1>7, <1>8 DEF ListsInOrder

\* A request that begins while no report request is under way, and every step that only
\* reads, leave the file whole.
LEMMA ReadersKeepAll ==
    ASSUME ReportTypes, AllIsKept, ~troubled', NEW t \in Threads,
           \/ \E k \in {"report", "history"} : Begin(t, k)
           \/ Test(t) \/ Load(t) \/ ShowHistory(t)
    PROVE  AllIsKept'
<1> USE DEF ReportTypes, RequestType
<1>1. /\ file' = file /\ accepted' = accepted
      /\ \A s \in Threads \ {t} : req'[s] = req[s]
      /\ ~Writing(t) /\ ~Writing(t)'
  <2>1. ASSUME NEW k \in {"report", "history"}, Begin(t, k)
        PROVE  <1>1!:
    BY <2>1 DEF Begin, Writing
  <2>2. CASE Test(t)
    BY <2>2 DEF Test, Writing
  <2>3. CASE Load(t)
    BY <2>3 DEF Load, Idle, Writing
  <2>4. CASE ShowHistory(t)
    BY <2>4 DEF ShowHistory, Idle, Writing
  <2> QED BY <2>1, <2>2, <2>3, <2>4
<1>2. Reporting(t)' => Reporting(t) \/ \A s \in Threads : ~Reporting(s)
  <2>1. ASSUME NEW k \in {"report", "history"}, Begin(t, k), Reporting(t)'
        PROVE  \A s \in Threads : ~Reporting(s)
    <3>1. k = "report"
      BY <2>1 DEF Begin, Reporting
    <3> QED BY <2>1, <3>1, Zenon DEF Begin
  <2>2. CASE Test(t)
    BY <2>2 DEF Test, Reporting
  <2>3. CASE Load(t)
    BY <2>3 DEF Load, Idle, Reporting
  <2>4. CASE ShowHistory(t)
    BY <2>4 DEF ShowHistory, Idle, Reporting
  <2> QED BY <2>1, <2>2, <2>3, <2>4
<1>3. req'[t].pc \in {"idle", "test", "load"} => req'[t].reports = <<>>
  <2>1. ASSUME NEW k \in {"report", "history"}, Begin(t, k)
        PROVE  req'[t].reports = <<>>
    BY <2>1 DEF Begin
  <2>2. CASE Test(t)
    BY <2>2 DEF Test, AllIsKept, AllIsLoaded
  <2>3. CASE Load(t)
    BY <2>3 DEF Load, Idle
  <2>4. CASE ShowHistory(t)
    BY <2>4 DEF ShowHistory, Idle
  <2> QED BY <2>1, <2>2, <2>3, <2>4
<1>4. Reporting(t)' /\ req'[t].pc = "use" => req'[t].reports = accepted
  <2> SUFFICES ASSUME Reporting(t)', req'[t].pc = "use"
               PROVE  req'[t].reports = accepted
    OBVIOUS
  <2>1. Reporting(t) /\ (Test(t) \/ Load(t))
    <3>1. ~ \E k \in {"report", "history"} : Begin(t, k)
      BY DEF Begin
    <3>2. ~ShowHistory(t)
      BY DEF ShowHistory, Idle
    <3>3. CASE Test(t)
      BY <3>3 DEF Test, Reporting
    <3>4. CASE Load(t)
      BY <3>4 DEF Load, Idle, Reporting
    <3> QED BY <3>1, <3>2, <3>3, <3>4
  <2>2. \A s \in Threads : ~Writing(s)
    BY <1>1, <2>1 DEF AllIsKept, OneReporter, Reporting, Writing
  <2>3. file.state \in {"absent", "list"} /\ file.reports = accepted
    BY <2>2 DEF AllIsKept, FileIsWhole
  <2>4. CASE Test(t)
    <3>1. file.state = "absent" /\ req'[t].reports = req[t].reports /\ req[t].pc = "test"
      BY <2>3, <2>4 DEF Test, HasContent
    <3>2. accepted = <<>> /\ req[t].reports = <<>>
      BY <1>1, <2>3, <3>1 DEF AllIsKept, AllIsLoaded
    <3> QED BY <3>1, <3>2
  <2>5. CASE Load(t)
    BY <2>3, <2>5 DEF Load, Idle
  <2> QED BY <2>1, <2>4, <2>5
<1>5. OneReporter'
  <2>1. \A s \in Threads \ {t} : Reporting(s)' <=> Reporting(s)
    BY <1>1 DEF Reporting
  <2>2. \A r, s \in Threads : Reporting(r) /\ Reporting(s) => r = s
    BY DEF AllIsKept, OneReporter
  <2>3. \A r, s \in Threads : Reporting(r)' /\ Reporting(s)' => r = s
    BY <1>2, <2>1, <2>2, Zenon
  <2> QED BY <2>3 DEF OneReporter
<1>6. WriterHasAll'
  BY <1>1 DEF AllIsKept, WriterHasAll, Writing
<1>7. FileIsWhole'
  BY <1>1 DEF AllIsKept, FileIsWhole, Writing
<1>8. AllIsLoaded'
  <2>1. ASSUME NEW s \in Threads
        PROVE  /\ req'[s].pc \in {"idle", "test", "load"} => req'[s].reports = <<>>
               /\ Reporting(s)' /\ req'[s].pc = "use" => req'[s].reports = accepted'
    <3>1. CASE s = t
      BY <1>1, <1>3, <1>4, <3>1
    <3>2. CASE s # t
      BY <1>1, <2>1, <3>2 DEF AllIsKept, AllIsLoaded, Reporting, Writing
    <3> QED BY <3>1, <3>2
  <2> QED BY <2>1 DEF AllIsLoaded
<1> QED BY <1>5, <1>6, <1>7, <1>8 DEF AllIsKept

\* The request that truncates the file keeps all of it.
LEMMA OpenKeepsAll ==
    ASSUME ReportTypes, AllIsKept, NEW t \in Threads, OpenForWriting(t)
    PROVE  AllIsKept'
<1> DEFINE longer == Append(req[t].reports, req[t].report)
<1>1. req' = [req EXCEPT ![t] = [@ EXCEPT !.pc = "dump", !.reports = longer]]
  BY DEF OpenForWriting, WithReport
<1>2. file' = Empty /\ accepted' = accepted /\ req[t].kind = "report" /\ req[t].pc = "use"
  BY DEF OpenForWriting
<1>3. req[t].reports = accepted
  BY <1>2 DEF AllIsKept, AllIsLoaded, Reporting, Writing
<1>4. SubSeq(longer, 1, Len(longer) - 1) = accepted
  BY <1>3, FrontOfLonger DEF ReportTypes, RequestType
<1> HIDE DEF longer
<1>5. /\ req'[t].pc = "dump" /\ req'[t].reports = longer
      /\ \A s \in Threads \ {t} : req'[s] = req[s]
  BY <1>1 DEF ReportTypes
<1>6. \A s \in Threads : Reporting(s)' => Reporting(s)
  BY <1>2, <1>5 DEF Reporting
<1>7. \A s \in Threads : Writing(s)' => s = t
  <2>1. \A s \in Threads \ {t} : ~Writing(s)
    BY <1>2 DEF AllIsKept, OneReporter, Reporting, Writing, ReportTypes
  <2> QED BY <1>5, <2>1 DEF Writing
<1>8. OneReporter'
  BY <1>6 DEF AllIsKept, OneReporter
<1>9. WriterHasAll'
  BY <1>2, <1>4, <1>5, <1>7 DEF WriterHasAll
<1>10. FileIsWhole'
  BY <1>5 DEF FileIsWhole, Writing
<1>11. AllIsLoaded'
  BY <1>2, <1>5 DEF AllIsKept, AllIsLoaded, Reporting, Writing
<1> QED BY <1>8, <1>9, <1>10, <1>11 DEF AllIsKept

\* Over an empty file a dump leaves what was dumped: the accepted reports and one more.
LEMMA DumpKeepsAll ==
    ASSUME ReportTypes, AllIsKept, NEW t \in Threads, Dump(t)
    PROVE  AllIsKept'
<1> DEFINE new == req[t].reports
           r == req[t].report
<1>1. /\ Writing(t) /\ req[t].kind = "report" /\ new \in Seq(Nat) /\ new # <<>>
      /\ new[Len(new)] = r
  BY DEF Dump, Writing, ReportTypes, RequestType
<1>2. file = Empty /\ accepted = SubSeq(new, 1, Len(new) - 1)
  BY <1>1 DEF AllIsKept, WriterHasAll
<1>3. new = Append(accepted, r) /\ Len(new) \in Nat
  BY <1>1, <1>2, LastOfList, LenProperties
<1>4. accepted' = new
  <2>1. accepted' = Append(accepted, r)
    BY DEF Dump
  <2> QED BY <2>1, <1>3
<1>5. file' = List(new)
  <2>1. file.reports = <<>> /\ file.state # "torn" /\ Len(<<>>) = 0 /\ Len(new) # 0
    BY <1>1, <1>2, EmptySeq DEF Empty
  <2> QED BY <1>3, <2>1 DEF Dump
<1>6. req' = [req EXCEPT ![t] = Idle]
  BY DEF Dump
<1>7. req'[t] = Idle /\ \A s \in Threads \ {t} : req'[s] = req[s]
  BY <1>6 DEF ReportTypes
<1>8. \A s \in Threads \ {t} : ~Reporting(s) /\ ~Writing(s)
  BY <1>1 DEF AllIsKept, OneReporter, Reporting, Writing, ReportTypes
<1>9. \A s \in Threads : ~Reporting(s)' /\ ~Writing(s)'
  BY <1>7, <1>8 DEF Reporting, Writing, Idle
<1>10. OneReporter' /\ WriterHasAll'
  BY <1>9 DEF OneReporter, WriterHasAll
<1>11. FileIsWhole'
  BY <1>4, <1>5 DEF FileIsWhole, List
<1>12. AllIsLoaded'
  <2> SUFFICES ASSUME NEW s \in Threads
               PROVE  req'[s].pc \in {"idle", "test", "load"} => req'[s].reports = <<>>
    BY <1>9 DEF AllIsLoaded
  <2>1. CASE s = t
    BY <1>7, <2>1 DEF Idle
  <2>2. CASE s # t
    BY <1>7, <2>2 DEF AllIsKept, AllIsLoaded
  <2> QED BY <2>1, <2>2
<1> QED BY <1>10, <1>11, <1>12 DEF AllIsKept

\* A restart ends the requests and leaves the file alone, empty or not; one that cuts no
\* writer off leaves it whole.
LEMMA RestartKeepsReports ==
    ASSUME ReportInv, Restart
    PROVE  ReportInv'
<1>1. (\A t \in Threads : req'[t] = Idle) /\ UNCHANGED <<file, submitted, accepted>>
  BY DEF Restart
<1>2. ReportTypes'
  <2>1. req' \in [Threads -> RequestType]
    BY EmptySeq DEF Restart, Idle, RequestType
  <2>2. troubled' \in BOOLEAN
    BY Zenon DEF Restart
  <2> QED BY <1>1, <2>1, <2>2 DEF ReportInv, ReportTypes, Writing, Idle
<1>3. ListsInOrder'
  <2>1. \A t \in Threads : Loaded(t)' = <<>>
    BY <1>1 DEF Loaded, Writing, Idle
  <2> QED BY <1>1, <2>1, EmptyIsSubsequence DEF ListsInOrder, ReportInv, ReportTypes
<1>4. ASSUME ~troubled'
      PROVE  AllIsKept'
  <2>1. ~troubled /\ \A t \in Threads : ~Writing(t)
    BY <1>4, Zenon DEF Restart
  <2>2. OneReporter' /\ WriterHasAll' /\ AllIsLoaded'
    BY <1>1 DEF OneReporter, WriterHasAll, AllIsLoaded, Reporting, Writing, Idle
  <2>3. FileIsWhole'
    BY <1>1, <2>1 DEF ReportInv, AllIsKept, FileIsWhole
  <2> QED BY <2>2, <2>3 DEF AllIsKept
<1> QED BY <1>2, <1>3, <1>4 DEF ReportInv

\* Every step of a request keeps the file whole as long as there was no trouble.
LEMMA ReportsKeepAll ==
    ASSUME ReportInv, ReportsNext, ~troubled'
    PROVE  AllIsKept'
<1>1. ASSUME NEW t \in Threads, NEW k \in {"report", "history"}, Begin(t, k)
      PROVE  AllIsKept'
  <2>1. ~troubled
    BY <1>1, Zenon DEF Begin
  <2> QED BY <1>1, <2>1, ReadersKeepAll DEF ReportInv
<1>2. ASSUME NEW t \in Threads, Test(t) \/ Load(t) \/ ShowHistory(t)
      PROVE  AllIsKept'
  <2>1. ~troubled
    BY <1>2 DEF Test, Load, ShowHistory
  <2> QED BY <1>2, <2>1, ReadersKeepAll DEF ReportInv
<1>3. ASSUME NEW t \in Threads, OpenForWriting(t)
      PROVE  AllIsKept'
  BY <1>3, OpenKeepsAll DEF ReportInv, OpenForWriting
<1>4. ASSUME NEW t \in Threads, Dump(t)
      PROVE  AllIsKept'
  BY <1>4, DumpKeepsAll DEF ReportInv, Dump
<1> QED BY <1>1, <1>2, <1>3, <1>4 DEF ReportsNext

\* However requests overlap, and whatever restarts of the server cut off, the file and what a
\* request loads hold only reports whose request has ended well, none of them twice, in
\* the order in which they were filed; and none is missing as long as report requests have
\* not overlapped and none was cut off while it wrote (views.py:43-52, 110-118), for any
\* number of threads and reports.
THEOREM FiledReportsInOrder == Spec => []FiledInOrder
<1>1. Init => ReportInv
  <2> SUFFICES ASSUME Init
               PROVE  ReportInv
    OBVIOUS
  <2>1. /\ file = Absent /\ accepted = <<>> /\ submitted = 0 /\ troubled = FALSE
        /\ req = [t \in Threads |-> Idle]
    BY DEF Init, ReportsInit
  <2>2. \A t \in Threads : req[t] = Idle /\ Loaded(t) = <<>>
    BY <2>1 DEF Loaded, Writing, Idle
  <2>3. ReportTypes
    BY <2>1, EmptySeq DEF ReportTypes, RequestType, Absent, Idle, Writing
  <2>4. ListsInOrder
    BY <2>1, <2>2, <2>3, EmptyIsSubsequence DEF ListsInOrder, Absent, ReportTypes
  <2>5. AllIsKept
    BY <2>1, <2>2 DEF AllIsKept, OneReporter, WriterHasAll, FileIsWhole, AllIsLoaded,
                      Reporting, Writing, Idle, Absent
  <2> QED BY <2>3, <2>4, <2>5 DEF ReportInv
<1>2. ReportInv /\ [Next]_vars => ReportInv'
  <2> SUFFICES ASSUME ReportInv, [Next]_vars
               PROVE  ReportInv'
    OBVIOUS
  <2>1. CASE UNCHANGED reportVars
    BY <2>1 DEF reportVars, ReportInv, ReportTypes, ListsInOrder, Loaded, Writing, AllIsKept,
                OneReporter, WriterHasAll, FileIsWhole, AllIsLoaded, Reporting
  <2>2. CASE ReportsNext
    <3>1. ReportTypes'
      BY <2>2, ReportsKeepTypes DEF ReportInv
    <3>2. ListsInOrder'
      BY <2>2, ReadersKeepOrder, OpenKeepsOrder, DumpKeepsOrder DEF ReportsNext
    <3>3. ~troubled' => AllIsKept'
      BY <2>2, ReportsKeepAll
    <3> QED BY <3>1, <3>2, <3>3 DEF ReportInv
  <2>3. CASE RestartServer
    BY <2>3, RestartKeepsReports DEF RestartServer
  <2>4. UNCHANGED reportVars \/ ReportsNext \/ RestartServer
    BY DEF Next, vars, Fetch, alertsend, PostLost, reportVars
  <2> QED BY <2>1, <2>2, <2>3, <2>4
<1>3. ReportInv => FiledInOrder
  BY DEF ReportInv, ListsInOrder, AllIsKept, FileIsWhole, FiledInOrder
<1> QED BY <1>1, <1>2, <1>3, PTL DEF Spec
=============================================================================
