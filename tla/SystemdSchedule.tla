-------------------------- MODULE SystemdSchedule --------------------------
(***************************************************************************)
(* `surplies schedule` on Linux (internal/schedule/schedule.go): install,  *)
(* disable and remove as the sequences of file writes and systemctl calls  *)
(* they are, any of which may fail or be the last one before the command   *)
(* is killed, beside a systemd user manager that fires the timer whenever  *)
(* it is armed and reads the unit files again when the machine reboots.    *)
(***************************************************************************)
EXTENDS ScheduleCommand

VARIABLES
    service,  \* surplies-notify.service is in the unit directory
    timer,    \* surplies-notify.timer in the unit directory
    wants,    \* manager: the timer is enabled (timers.target wants it)
    armed     \* manager: the timer is active, at this setting's time

fileVars == <<helper, service, timer>>
managerVars == <<wants, armed, running>>
vars == <<fileVars, managerVars, commandVars>>

Installing == {"show-environment", "notify-send", "write-helper", "write-service",
               "write-timer", "daemon-reload", "enable", "restart"}
Stopping == {"disable", "stop"}
Removing == {"remove-timer", "remove-service", "remove-helper", "final-reload"}

Init ==
    /\ CommandInit
    /\ timer = None /\ service = FALSE
    /\ wants = FALSE /\ armed = None

-----------------------------------------------------------------------------
(* The systemd user manager, as the calls in schedule.go rely on it.       *)

\* The timer elapses, or catches up on a missed run (Persistent=true).
Fire ==
    /\ armed # None
    /\ running = None
    /\ service
    /\ running' = helper
    /\ UNCHANGED <<fileVars, wants, armed, commandVars>>

ScanEnds ==
    /\ running # None
    /\ running' = None
    /\ UNCHANGED <<fileVars, wants, armed, commandVars>>

\* The session ends, and with it a command under way; the next one starts the
\* enabled timer from its file.
Reboot ==
    /\ running' = None
    /\ armed' = IF wants THEN timer ELSE None
    /\ NoCommand
    /\ UNCHANGED <<fileVars, wants, told>>

-----------------------------------------------------------------------------
(* The commands.                                                           *)

\* An install that only probes its prerequisites has changed nothing yet.
BeginInstall(s) ==
    /\ Begin("install", s, "show-environment")
    /\ UNCHANGED <<fileVars, managerVars, told>>

BeginStop(c) ==
    /\ Begin(c, None, "disable")
    /\ told' = Unsure
    /\ UNCHANGED <<fileVars, managerVars>>

Abort == Quit /\ UNCHANGED <<fileVars, managerVars>>

ShowEnvironment ==
    /\ Step("show-environment", "notify-send")
    /\ UNCHANGED <<fileVars, managerVars>>

ProbeNotifier ==
    /\ pc = "notify-send"
    /\ pc' = "write-helper"
    /\ told' = Unsure
    /\ UNCHANGED <<fileVars, managerVars, command, want>>

\* writeFile renames a complete file into place: it is the old or the new one.
WriteHelper ==
    /\ Step("write-helper", "write-service")
    /\ helper' = want
    /\ UNCHANGED <<service, timer, managerVars>>

WriteService ==
    /\ Step("write-service", "write-timer")
    /\ service' = TRUE
    /\ UNCHANGED <<helper, timer, managerVars>>

WriteTimer ==
    /\ Step("write-timer", "daemon-reload")
    /\ timer' = want
    /\ UNCHANGED <<helper, service, managerVars>>

\* An active timer follows its file at the reload.
Reload ==
    /\ armed' = IF armed = None THEN None ELSE timer
    /\ UNCHANGED <<fileVars, wants, running>>

DaemonReload ==
    /\ Step("daemon-reload", "enable")
    /\ Reload

Enable ==
    /\ Step("enable", "restart")
    /\ wants' = TRUE
    /\ UNCHANGED <<fileVars, armed, running>>

Restart ==
    /\ Finish("restart", want)
    /\ armed' = timer
    /\ UNCHANGED <<fileVars, wants, running>>

\* systemctl refuses to disable a unit that has no file.
disableTimer ==
    /\ timer # None
    /\ wants' = FALSE
    /\ armed' = None
    /\ UNCHANGED <<fileVars, running>>

stopService ==
    /\ service
    /\ running' = None
    /\ UNCHANGED <<fileVars, wants, armed>>

DisableTimer ==
    /\ Step("disable", "stop")
    /\ disableTimer

\* `disable --now` fails between removing the enablement and stopping.
DisableHalfway ==
    /\ pc = "disable"
    /\ timer # None
    /\ wants' = FALSE
    /\ NoCommand
    /\ UNCHANGED <<fileVars, armed, running, told>>

\* disable() returns: remove goes on to the files.
AfterStop ==
    \/ command = "disable" /\ Finish("stop", Disabled)
    \/ command = "remove" /\ Step("stop", "remove-timer")

StopService == AfterStop /\ stopService

\* Mutant: a failing scheduler does not keep remove from the files.
RemoveTimer_Anyway ==
    /\ command = "remove"
    /\ pc \in Stopping \cup {"remove-timer"}
    /\ pc' = "remove-service"
    /\ timer' = None
    /\ UNCHANGED <<helper, service, managerVars, command, want, told>>

\* os.Remove of a file that is not there is not an error.
RemoveTimer ==
    /\ Step("remove-timer", "remove-service")
    /\ timer' = None
    /\ UNCHANGED <<helper, service, managerVars>>

RemoveService ==
    /\ Step("remove-service", "remove-helper")
    /\ service' = FALSE
    /\ UNCHANGED <<helper, timer, managerVars>>

RemoveHelper ==
    /\ Step("remove-helper", "final-reload")
    /\ helper' = None
    /\ UNCHANGED <<service, timer, managerVars>>

FinalReload == Finish("final-reload", Removed) /\ Reload

Command ==
    \/ \E s \in Settings : BeginInstall(s)
    \/ ShowEnvironment \/ ProbeNotifier \/ WriteHelper \/ WriteService
    \/ WriteTimer \/ DaemonReload \/ Enable \/ Restart
    \/ \E c \in {"disable", "remove"} : BeginStop(c)
    \/ DisableTimer \/ DisableHalfway \/ StopService
    \/ RemoveTimer \/ RemoveService \/ RemoveHelper \/ FinalReload
    \/ Abort

Next == Command \/ Fire \/ ScanEnds \/ Reboot

Spec == Init /\ [][Next]_vars

-----------------------------------------------------------------------------
(* Properties.                                                             *)

\* Whichever step failed or was the last one before a kill or a reboot, a
\* timer that may fire, now or after the next boot, finds the service and the
\* helper it runs (the order of the writes in install, of the deletions in
\* remove).
ArmedIsRunnable ==
    armed # None \/ (wants /\ timer # None) => service /\ helper # None

\* "Schedule and notification helper removed" is true: nothing is left on disk
\* or in the manager (stopCommand).
RemovedIsGone ==
    told = Removed => /\ helper = None /\ timer = None /\ service = FALSE
                      /\ ~wants /\ armed = None /\ running = None
=============================================================================
