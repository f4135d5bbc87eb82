----------------------------- MODULE CampusSafe -----------------------------
(***************************************************************************)
(* The CampusSafe site: a page with the emergency button (module           *)
(* EmergencyButton) and the server it sends its alerts to, which deals     *)
(* with incident reports at the same time (module Reports).                *)
(***************************************************************************)
EXTENDS EmergencyButton, Reports

VARIABLES
    posts,      \* POSTs to alertsend under way
    alerts      \* rows of EmergencyAlert

vars == <<buttonVars, reportVars, posts, alerts>>

Init == ButtonInit /\ ReportsInit /\ posts = 0 /\ alerts = 0

\* The page's fetch, with the position.
Fetch ==
    /\ positions > 0
    /\ positions' = positions - 1 /\ posts' = posts + 1
    /\ UNCHANGED <<countdown, handle, live, pressed, held, holds, alerted, tidy, reportVars,
                   alerts>>

\* alertsend: one more row.
alertsend ==
    /\ posts > 0
    /\ posts' = posts - 1 /\ alerts' = alerts + 1
    /\ UNCHANGED <<buttonVars, reportVars>>

\* The server's process is started again: reports being written and POSTs are lost.
RestartServer == Restart /\ posts' = 0 /\ UNCHANGED <<buttonVars, alerts>>

\* The network loses a POST; the page only logs that.
PostLost ==
    /\ posts > 0
    /\ posts' = posts - 1
    /\ UNCHANGED <<buttonVars, reportVars, alerts>>

Next ==
    \/ ButtonNext /\ UNCHANGED <<reportVars, posts, alerts>>
    \/ ReportsNext /\ UNCHANGED <<buttonVars, posts, alerts>>
    \/ Fetch \/ alertsend \/ PostLost \/ RestartServer

Spec == Init /\ [][Next]_vars

\* Every alert that is recorded goes back to a press of its own, held to the end of the
\* countdown, as long as the button is pressed and released on itself, one press at
\* a time, and not again after an alert (script.js:6-28).
AlertAfterHold == tidy => alerts + posts + positions <= holds

\* "Alert canceled button not held long enough." (script.js:24): no alert without a press
\* that was held.  It does not hold of a release outside of the button, of a second
\* press while the button is down, and of a press after an alert.
NoAlertUnheld == alerts + posts + positions <= holds
=============================================================================
