--------------------------- MODULE DailySchedule ---------------------------
(***************************************************************************)
(* What `surplies schedule`, `disable` and `remove` promise their user     *)
(* (README.md, "Scheduled scans"), whatever the platform's scheduler is:   *)
(* after a command reported success, the daily scan runs with exactly the  *)
(* settings of that command, or not at all, across logouts and reboots,    *)
(* until the next command.  A command that is under way, failed or was     *)
(* killed promises nothing.                                                *)
(***************************************************************************)
CONSTANTS Settings,  \* what an installation asks for: a time and a scope
          None,      \* no setting
          Unsure,    \* the last command did not succeed
          Off        \* disabled, removed or never installed

VARIABLES told,     \* what the last command told its user
          armed,    \* the setting at whose time the scheduler starts a scan
          helper,   \* the setting whose scope such a scan has
          running   \* the setting of the scan that is running

vars == <<told, armed, helper, running>>

Init ==
    /\ told = Off
    /\ armed = None
    /\ helper = None
    /\ running = None

\* A command starts to change things.
Doubt ==
    /\ told' = Unsure
    /\ UNCHANGED <<armed, helper, running>>

\* It changes them; it may stop a scan but starts none.
Meddle ==
    /\ told = Unsure
    /\ armed' \in Settings \cup {None}
    /\ helper' \in Settings \cup {None}
    /\ running' \in {running, None}
    /\ UNCHANGED told

Promise(s) ==
    /\ told = Unsure
    /\ told' = s
    /\ armed' = s
    /\ helper' = s
    /\ running' \in {running, None}

Silence ==
    /\ told = Unsure
    /\ told' = Off
    /\ armed' = None
    /\ helper' \in Settings \cup {None}
    /\ running' = None

StartScan ==
    /\ armed # None
    /\ running = None
    /\ running' = helper
    /\ UNCHANGED <<told, armed, helper>>

EndScan ==
    /\ running' = None
    /\ UNCHANGED <<told, armed, helper>>

\* Only after a command that did not succeed may a reboot change the schedule.
Reboot ==
    /\ running' = None
    /\ IF told = Unsure THEN armed' \in Settings \cup {None} ELSE UNCHANGED armed
    /\ UNCHANGED <<told, helper>>

Next ==
    \/ Doubt \/ Meddle \/ Silence
    \/ \E s \in Settings : Promise(s)
    \/ StartScan \/ EndScan \/ Reboot

Spec == Init /\ [][Next]_vars
=============================================================================
