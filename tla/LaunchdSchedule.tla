-------------------------- MODULE LaunchdSchedule --------------------------
(***************************************************************************)
(* `surplies schedule` on macOS (internal/schedule/schedule.go): install,  *)
(* disable and remove as sequences of file writes and launchctl calls, any *)
(* of which may fail or be the last one before the command is killed,      *)
(* beside a launchd that starts the loaded job at its time and, at the     *)
(* next login, loads every agent in LaunchAgents that is not overridden.   *)
(***************************************************************************)
EXTENDS ScheduleCommand

VARIABLES
    plist,     \* LaunchAgents/com.surplies.notify.plist
    override,  \* launchd: the service is marked disabled, persistently
    loaded     \* launchd: the setting of the loaded job

fileVars == <<helper, plist>>
launchdVars == <<override, loaded, running>>
vars == <<fileVars, launchdVars, commandVars>>

Installing == {"write-helper", "write-plist", "print", "bootout-old", "enable",
               "bootstrap"}
Stopping == {"disable", "bootout"}
Removing == {"remove-plist", "remove-helper", "clear-override"}

Init ==
    /\ CommandInit
    /\ plist = None
    /\ override = FALSE /\ loaded = None

-----------------------------------------------------------------------------
(* launchd, as the calls in schedule.go rely on it.                        *)

Fire ==
    /\ loaded # None
    /\ running = None
    /\ running' = helper
    /\ UNCHANGED <<fileVars, override, loaded, commandVars>>

ScanEnds ==
    /\ running # None
    /\ running' = None
    /\ UNCHANGED <<fileVars, override, loaded, commandVars>>

\* The session ends, and with it a command under way; the next login loads the
\* agent unless its service is overridden.
Login ==
    /\ running' = None
    /\ loaded' = IF override THEN None ELSE plist
    /\ NoCommand
    /\ UNCHANGED <<fileVars, override, told>>

-----------------------------------------------------------------------------
(* The commands.                                                           *)

BeginInstall(s) ==
    /\ Begin("install", s, "write-helper")
    /\ told' = Unsure
    /\ UNCHANGED <<fileVars, launchdVars>>

BeginStop(c) ==
    /\ Begin(c, None, "disable")
    /\ told' = Unsure
    /\ UNCHANGED <<fileVars, launchdVars>>

Abort == Quit /\ UNCHANGED <<fileVars, launchdVars>>

WriteHelper ==
    /\ Step("write-helper", "write-plist")
    /\ helper' = want
    /\ UNCHANGED <<plist, launchdVars>>

WritePlist ==
    /\ Step("write-plist", "print")
    /\ plist' = want
    /\ UNCHANGED <<helper, launchdVars>>

\* A `print` that fails, for whatever reason, counts as a job that is not
\* loaded.
PrintService ==
    /\ \/ loaded # None /\ Step("print", "bootout-old")
       \/ Step("print", "enable")
    /\ UNCHANGED <<fileVars, launchdVars>>

\* launchctl bootout: the job is stopped and unloaded.
unload ==
    /\ loaded' = None
    /\ running' = None
    /\ UNCHANGED <<fileVars, override>>

BootoutOld ==
    /\ Step("bootout-old", "enable")
    /\ loaded # None
    /\ unload

\* Mutant: install leaves the override of an earlier disable in place.
EnableService_Skipped == Step("enable", "bootstrap") /\ UNCHANGED <<fileVars, launchdVars>>

EnableService ==
    /\ Step("enable", "bootstrap")
    /\ override' = FALSE
    /\ UNCHANGED <<fileVars, loaded, running>>

\* launchctl bootstrap refuses a job that is loaded already.
Bootstrap ==
    /\ Finish("bootstrap", want)
    /\ loaded = None
    /\ loaded' = plist
    /\ UNCHANGED <<fileVars, override, running>>

DisableService ==
    /\ Step("disable", "bootout")
    /\ override' = TRUE
    /\ UNCHANGED <<fileVars, loaded, running>>

\* disable() returns: remove goes on to the files.
AfterStop ==
    \/ command = "disable" /\ Finish("bootout", Disabled)
    \/ command = "remove" /\ Step("bootout", "remove-plist")

\* Mutant: bootout's "no such process" is an error like any other.
Bootout_Strict == AfterStop /\ loaded # None /\ unload

\* Exit status 3 says that the job was not loaded: it is stopped already.
Bootout == AfterStop /\ unload

\* os.Remove of a file that is not there is not an error.
RemovePlist ==
    /\ Step("remove-plist", "remove-helper")
    /\ plist' = None
    /\ UNCHANGED <<helper, launchdVars>>

RemoveHelper ==
    /\ Step("remove-helper", "clear-override")
    /\ helper' = None
    /\ UNCHANGED <<plist, launchdVars>>

\* Mutant: the override of disable() outlives the removal.
ClearOverride_Kept == Finish("clear-override", Removed) /\ UNCHANGED <<fileVars, launchdVars>>

ClearOverride ==
    /\ Finish("clear-override", Removed)
    /\ override' = FALSE
    /\ UNCHANGED <<fileVars, loaded, running>>

Proceed ==
    \/ WriteHelper \/ WritePlist \/ PrintService \/ BootoutOld
    \/ EnableService \/ Bootstrap
    \/ DisableService \/ Bootout \/ RemovePlist \/ RemoveHelper \/ ClearOverride

Command ==
    \/ \E s \in Settings : BeginInstall(s)
    \/ \E c \in {"disable", "remove"} : BeginStop(c)
    \/ Proceed
    \/ Abort

Next == Command \/ Fire \/ ScanEnds \/ Login

Spec == Init /\ [][Next]_vars

-----------------------------------------------------------------------------
(* Properties.                                                             *)

\* Whichever step failed or was the last one before a kill or a logout, a job
\* that may start, now or after the next login, finds its helper (the order of
\* the writes in install, of the deletions in remove).
ArmedIsRunnable ==
    loaded # None \/ (~override /\ plist # None) => helper # None

\* A removal leaves no orphan: no file, no job and no "disabled" entry for a
\* service that no longer exists (remove).
RemovedIsGone ==
    told = Removed => /\ helper = None /\ plist = None
                      /\ loaded = None /\ running = None /\ ~override

\* A disable or a remove can always be run to its end, whatever an earlier
\* command that failed or was killed left behind: a job that is not loaded and
\* files that are gone are no errors (disable, remove).
StoppingIsNeverRefused == command \in {"disable", "remove"} => ENABLED Proceed
=============================================================================
