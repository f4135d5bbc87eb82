--------------------------- MODULE EmergencyButton ---------------------------
(***************************************************************************)
(* The emergency button of one page (static/crimoapp/script.js): mouse     *)
(* events, the interval that counts down while the button is held, and the *)
(* request for the position that follows.  The page runs one callback at a *)
(* time, so each is a step.                                                *)
(***************************************************************************)
EXTENDS Integers

CONSTANTS
    HOLD,       \* countdown's first value (10 in the code)
    Presses     \* bound of the model: mousedown events

ASSUME HoldAssumption == HOLD \in Nat \ {0} /\ Presses \in Nat

VARIABLES
    countdown,  \* countdown, which lives as long as the page
    handle,     \* countdownInterval
    live,       \* the intervals that tick
    positions,  \* getCurrentPosition calls that have not answered
    pressed,    \* history: the button is down
    held,       \* history: ticks since it was pressed
    holds,      \* history: presses held for HOLD ticks
    alerted,    \* history: triggerEmergency has been called on this page
    tidy        \* history: see Mousedown and ReleaseElsewhere

buttonVars == <<countdown, handle, live, positions, pressed, held, holds, alerted, tidy>>

ButtonInit ==
    /\ countdown = HOLD /\ handle = 0 /\ live = {} /\ positions = 0
    /\ pressed = FALSE /\ held = 0 /\ holds = 0 /\ alerted = FALSE /\ tidy = TRUE

\* The handle of the interval before is overwritten.  Not tidy: a second mouse button
\* while the first is down, and a press after an alert.
Mousedown ==
    /\ handle < Presses
    /\ handle' = handle + 1
    /\ live' = live \cup {handle + 1}
    /\ pressed' = TRUE /\ held' = 0
    /\ tidy' = (tidy /\ ~pressed /\ ~alerted)
    /\ UNCHANGED <<countdown, positions, holds, alerted>>

NoReset == countdown                         \* mutant: countdown not set back
AfterMouseup == IF countdown > 0 THEN HOLD ELSE countdown

Mouseup ==
    /\ pressed
    /\ live' = live \ {handle}
    /\ countdown' = AfterMouseup
    /\ pressed' = FALSE /\ held' = 0
    /\ UNCHANGED <<handle, positions, holds, alerted, tidy>>

\* The button hears no mouseup if the pointer has left it.
ReleaseElsewhere ==
    /\ pressed
    /\ pressed' = FALSE /\ tidy' = FALSE
    /\ UNCHANGED <<countdown, handle, live, positions, held, holds, alerted>>

\* A second of interval i.  It clears the interval of the handle, which another
\* press may have overwritten; Presses also bounds how far it then counts.
Tick(i) ==
    /\ i \in live /\ countdown > -Presses
    /\ countdown' = countdown - 1
    /\ held' = IF pressed /\ held < HOLD THEN held + 1 ELSE held
    /\ holds' = IF pressed /\ held' = HOLD /\ held # HOLD THEN holds + 1 ELSE holds
    /\ IF countdown' > 0
       THEN UNCHANGED <<live, positions, alerted>>
       ELSE /\ live' = live \ {handle}
            /\ positions' = positions + 1
            /\ alerted' = TRUE
    /\ UNCHANGED <<handle, pressed, tidy>>

\* The position is refused, and nothing is sent.
Refused ==
    /\ positions > 0
    /\ positions' = positions - 1
    /\ UNCHANGED <<countdown, handle, live, pressed, held, holds, alerted, tidy>>

ButtonNext ==
    Mousedown \/ Mouseup \/ ReleaseElsewhere \/ (\E i \in live : Tick(i)) \/ Refused
=============================================================================
