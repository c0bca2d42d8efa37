------------------------------ MODULE Schedule ------------------------------
(***************************************************************************)
(* The `surplies schedule` commands on either platform: what installer's   *)
(* goos decides, and what all of them promise together.                    *)
(***************************************************************************)
EXTENDS ScheduleCommand

VARIABLES
    goos,                            \* installer.goos
    service, timer, wants, armed,    \* linux, see SystemdSchedule
    plist, override, loaded          \* darwin, see LaunchdSchedule

Systemd == INSTANCE SystemdSchedule
Launchd == INSTANCE LaunchdSchedule

linux == <<service, timer, wants, armed>>
darwin == <<plist, override, loaded>>
vars == <<goos, commandVars, helper, running, linux, darwin>>

Init == goos \in {"linux", "darwin"} /\ Systemd!Init /\ Launchd!Init

Next ==
    \/ goos = "linux" /\ Systemd!Next /\ UNCHANGED <<goos, darwin>>
    \/ goos = "darwin" /\ Launchd!Next /\ UNCHANGED <<goos, linux>>

Spec == Init /\ [][Next]_vars

-----------------------------------------------------------------------------
(* Properties.                                                             *)

\* Whichever step failed or was the last one before a kill or a reboot, a
\* daily scan that may start, now or after the next login, finds the files it
\* needs (the order of the writes in install, of the deletions in remove).
ArmedIsRunnable ==
    IF goos = "linux" THEN Systemd!ArmedIsRunnable ELSE Launchd!ArmedIsRunnable

\* "Schedule and notification helper removed" is true: nothing is left on disk
\* or in the service manager (stopCommand).
RemovedIsGone ==
    IF goos = "linux" THEN Systemd!RemovedIsGone ELSE Launchd!RemovedIsGone

\* On macOS a disable or a remove can always be run to its end, whatever an
\* earlier command left behind (disable, remove).
StoppingIsNeverRefused == goos = "darwin" => Launchd!StoppingIsNeverRefused

\* What a successful command told its user stays true until the next command
\* starts to change things: the commands implement DailySchedule.
Promised == INSTANCE DailySchedule WITH
    Off <- Disabled,
    armed <- IF goos = "linux" THEN armed ELSE loaded,
    told <- IF told = Removed THEN Disabled ELSE told

KeepsItsPromise == Promised!Spec
=============================================================================
