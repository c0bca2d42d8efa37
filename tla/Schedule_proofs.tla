--------------------------- MODULE Schedule_proofs ---------------------------
(* What `surplies schedule` promises its user is kept on both platforms,      *)
(* whatever fails and wherever a command is killed, for any settings.         *)
EXTENDS Schedule, TLAPS

Kept == Settings \cup {None}
SystemdSteps == {"idle"} \cup Systemd!Installing \cup Systemd!Stopping \cup Systemd!Removing
LaunchdSteps == {"idle"} \cup Launchd!Installing \cup Launchd!Stopping \cup Launchd!Removing

(* A command is at one of its own steps, and an install knows its setting.    *)
AtSteps(steps, installing, stopping, removing) ==
  /\ pc \in steps
  /\ pc \in installing => command = "install" /\ want \in Settings
  /\ pc \in stopping => command \in {"disable", "remove"}
  /\ pc \in removing => command = "remove"

(* Linux: what an install has written so far, what a removal has undone, and  *)
(* what was true when the last command succeeded and still is.                *)
SystemdInv ==
  /\ AtSteps(SystemdSteps, Systemd!Installing, Systemd!Stopping, Systemd!Removing)
  /\ helper \in Kept /\ timer \in Kept /\ armed \in Kept /\ running \in Kept
  /\ service \in BOOLEAN /\ wants \in BOOLEAN
  /\ told \in Settings \cup {Unsure, Disabled, Removed}
  /\ pc \notin {"idle", "show-environment", "notify-send"} => told = Unsure
  /\ pc \in {"write-service", "write-timer", "daemon-reload", "enable", "restart"} => helper = want
  /\ pc \in {"write-timer", "daemon-reload", "enable", "restart"} => service
  /\ pc \in {"daemon-reload", "enable", "restart"} => timer = want
  /\ pc = "restart" => wants
  /\ pc \in Systemd!Removing \cup {"stop"} => ~wants /\ armed = None
  /\ pc \in Systemd!Removing => running = None
  /\ pc \in {"remove-service", "remove-helper", "final-reload"} => timer = None
  /\ pc \in {"remove-helper", "final-reload"} => ~service
  /\ pc = "final-reload" => helper = None
  /\ Systemd!ArmedIsRunnable
  /\ Systemd!RemovedIsGone
  /\ told \in Settings => armed = told /\ timer = told /\ helper = told /\ wants
  /\ told = Disabled => armed = None /\ ~wants /\ running = None

(* macOS: the same, with the override that outlives a logout in the place of  *)
(* the enablement.                                                            *)
LaunchdInv ==
  /\ AtSteps(LaunchdSteps, Launchd!Installing, Launchd!Stopping, Launchd!Removing)
  /\ helper \in Kept /\ plist \in Kept /\ loaded \in Kept /\ running \in Kept
  /\ override \in BOOLEAN
  /\ told \in Settings \cup {Unsure, Disabled, Removed}
  /\ pc # "idle" => told = Unsure
  /\ pc \in {"write-plist", "print", "bootout-old", "enable", "bootstrap"} => helper = want
  /\ pc \in {"print", "bootout-old", "enable", "bootstrap"} => plist = want
  /\ pc = "bootstrap" => ~override
  /\ pc \in Launchd!Removing \cup {"bootout"} => override
  /\ pc \in Launchd!Removing => loaded = None /\ running = None
  /\ pc \in {"remove-helper", "clear-override"} => plist = None
  /\ pc = "clear-override" => helper = None
  /\ Launchd!ArmedIsRunnable
  /\ Launchd!RemovedIsGone
  /\ told \in Settings => loaded = told /\ plist = told /\ helper = told /\ ~override
  /\ told = Disabled => loaded = None /\ override /\ running = None

ScheduleInv ==
  /\ goos \in {"linux", "darwin"}
  /\ goos = "linux" => SystemdInv
  /\ goos = "darwin" => LaunchdInv

-----------------------------------------------------------------------------
(* The steps of the commands on Linux, and what systemd does by itself.       *)
LEMMA SystemdStep == ASSUME SystemdInv, Systemd!Next PROVE SystemdInv'
<1> USE SettingsAssumption
    DEF SystemdInv, AtSteps, SystemdSteps, Systemd!Installing, Systemd!Stopping,
        Systemd!Removing, Kept, Systemd!ArmedIsRunnable, Systemd!RemovedIsGone,
        Systemd!fileVars, Systemd!managerVars, Systemd!Step, Systemd!Begin,
        Systemd!Finish, Systemd!NoCommand, Systemd!Quit, Systemd!commandVars
<1>1. ASSUME NEW s \in Settings, Systemd!BeginInstall(s) PROVE SystemdInv'
  BY <1>1 DEF Systemd!BeginInstall
<1>2. ASSUME Systemd!ShowEnvironment PROVE SystemdInv'
  BY <1>2 DEF Systemd!ShowEnvironment
<1>3. ASSUME Systemd!ProbeNotifier PROVE SystemdInv'
  BY <1>3 DEF Systemd!ProbeNotifier
<1>4. ASSUME Systemd!WriteHelper PROVE SystemdInv'
  BY <1>4 DEF Systemd!WriteHelper
<1>5. ASSUME Systemd!WriteService PROVE SystemdInv'
  BY <1>5 DEF Systemd!WriteService
<1>6. ASSUME Systemd!WriteTimer PROVE SystemdInv'
  BY <1>6 DEF Systemd!WriteTimer
<1>7. ASSUME Systemd!DaemonReload PROVE SystemdInv'
  BY <1>7 DEF Systemd!DaemonReload, Systemd!Reload
<1>8. ASSUME Systemd!Enable PROVE SystemdInv'
  BY <1>8 DEF Systemd!Enable
<1>9. ASSUME Systemd!Restart PROVE SystemdInv'
  BY <1>9 DEF Systemd!Restart
<1>10. ASSUME NEW c \in {"disable", "remove"}, Systemd!BeginStop(c) PROVE SystemdInv'
  BY <1>10 DEF Systemd!BeginStop
<1>11. ASSUME Systemd!DisableTimer PROVE SystemdInv'
  BY <1>11 DEF Systemd!DisableTimer, Systemd!disableTimer
<1>12. ASSUME Systemd!DisableHalfway PROVE SystemdInv'
  BY <1>12 DEF Systemd!DisableHalfway
<1>13. ASSUME Systemd!StopService PROVE SystemdInv'
  BY <1>13 DEF Systemd!StopService, Systemd!AfterStop, Systemd!stopService
<1>14. ASSUME Systemd!RemoveTimer PROVE SystemdInv'
  BY <1>14 DEF Systemd!RemoveTimer
<1>15. ASSUME Systemd!RemoveService PROVE SystemdInv'
  BY <1>15 DEF Systemd!RemoveService
<1>16. ASSUME Systemd!RemoveHelper PROVE SystemdInv'
  BY <1>16 DEF Systemd!RemoveHelper
<1>17. ASSUME Systemd!FinalReload PROVE SystemdInv'
  BY <1>17 DEF Systemd!FinalReload, Systemd!Reload
<1>18. ASSUME Systemd!Abort PROVE SystemdInv'
  BY <1>18 DEF Systemd!Abort
<1>19. ASSUME Systemd!Fire PROVE SystemdInv'
  BY <1>19 DEF Systemd!Fire
<1>20. ASSUME Systemd!ScanEnds PROVE SystemdInv'
  BY <1>20 DEF Systemd!ScanEnds
<1>21. ASSUME Systemd!Reboot PROVE SystemdInv'
  BY <1>21 DEF Systemd!Reboot
<1> QED
  BY <1>1, <1>2, <1>3, <1>4, <1>5, <1>6, <1>7, <1>8, <1>9, <1>10, <1>11, <1>12,
     <1>13, <1>14, <1>15, <1>16, <1>17, <1>18, <1>19, <1>20, <1>21 DEF Systemd!Next, Systemd!Command

(* The same on macOS.                                                         *)
LEMMA LaunchdStep == ASSUME LaunchdInv, Launchd!Next PROVE LaunchdInv'
<1> USE SettingsAssumption
    DEF LaunchdInv, AtSteps, LaunchdSteps, Launchd!Installing, Launchd!Stopping,
        Launchd!Removing, Kept, Launchd!ArmedIsRunnable, Launchd!RemovedIsGone,
        Launchd!fileVars, Launchd!launchdVars, Launchd!Step, Launchd!Begin,
        Launchd!Finish, Launchd!NoCommand, Launchd!Quit, Launchd!commandVars
<1>1. ASSUME NEW s \in Settings, Launchd!BeginInstall(s) PROVE LaunchdInv'
  BY <1>1 DEF Launchd!BeginInstall
<1>2. ASSUME NEW c \in {"disable", "remove"}, Launchd!BeginStop(c) PROVE LaunchdInv'
  BY <1>2 DEF Launchd!BeginStop
<1>3. ASSUME Launchd!WriteHelper PROVE LaunchdInv'
  BY <1>3 DEF Launchd!WriteHelper
<1>4. ASSUME Launchd!WritePlist PROVE LaunchdInv'
  BY <1>4 DEF Launchd!WritePlist
<1>5. ASSUME Launchd!PrintService PROVE LaunchdInv'
  BY <1>5 DEF Launchd!PrintService
<1>6. ASSUME Launchd!BootoutOld PROVE LaunchdInv'
  BY <1>6 DEF Launchd!BootoutOld, Launchd!unload
<1>7. ASSUME Launchd!EnableService PROVE LaunchdInv'
  BY <1>7 DEF Launchd!EnableService
<1>8. ASSUME Launchd!Bootstrap PROVE LaunchdInv'
  BY <1>8 DEF Launchd!Bootstrap
<1>9. ASSUME Launchd!DisableService PROVE LaunchdInv'
  BY <1>9 DEF Launchd!DisableService
<1>10. ASSUME Launchd!Bootout PROVE LaunchdInv'
  BY <1>10 DEF Launchd!Bootout, Launchd!AfterStop, Launchd!unload
<1>11. ASSUME Launchd!RemovePlist PROVE LaunchdInv'
  BY <1>11 DEF Launchd!RemovePlist
<1>12. ASSUME Launchd!RemoveHelper PROVE LaunchdInv'
  BY <1>12 DEF Launchd!RemoveHelper
<1>13. ASSUME Launchd!ClearOverride PROVE LaunchdInv'
  BY <1>13 DEF Launchd!ClearOverride
<1>14. ASSUME Launchd!Abort PROVE LaunchdInv'
  BY <1>14 DEF Launchd!Abort
<1>15. ASSUME Launchd!Fire PROVE LaunchdInv'
  BY <1>15 DEF Launchd!Fire
<1>16. ASSUME Launchd!ScanEnds PROVE LaunchdInv'
  BY <1>16 DEF Launchd!ScanEnds
<1>17. ASSUME Launchd!Login PROVE LaunchdInv'
  BY <1>17 DEF Launchd!Login
<1> QED
  BY <1>1, <1>2, <1>3, <1>4, <1>5, <1>6, <1>7, <1>8, <1>9, <1>10, <1>11, <1>12,
     <1>13, <1>14, <1>15, <1>16, <1>17 DEF Launchd!Next, Launchd!Command, Launchd!Proceed

(* One step of a command or of a service manager on either platform.          *)
LEMMA ScheduleStep == ASSUME ScheduleInv, [Next]_vars PROVE ScheduleInv'
<1>1. CASE goos = "linux" /\ Systemd!Next /\ UNCHANGED <<goos, darwin>>
  BY <1>1, SystemdStep DEF ScheduleInv
<1>2. CASE goos = "darwin" /\ Launchd!Next /\ UNCHANGED <<goos, linux>>
  BY <1>2, LaunchdStep DEF ScheduleInv
<1>3. CASE UNCHANGED vars
  BY <1>3 DEF ScheduleInv, vars, commandVars, linux, darwin, SystemdInv, LaunchdInv, AtSteps,
              SystemdSteps, LaunchdSteps, Systemd!ArmedIsRunnable, Systemd!RemovedIsGone,
              Launchd!ArmedIsRunnable, Launchd!RemovedIsGone
<1> QED
  BY <1>1, <1>2, <1>3 DEF Next

(* What the files and the service manager hold follows from how far a command *)
(* came (install, disable and remove in schedule.go).                         *)
THEOREM Invariance == Spec => []ScheduleInv
<1>1. Init => ScheduleInv
  BY SettingsAssumption
  DEF Init, Systemd!Init, Launchd!Init, Systemd!CommandInit, Launchd!CommandInit, ScheduleInv, SystemdInv, LaunchdInv, AtSteps,
      SystemdSteps, LaunchdSteps, Systemd!Installing, Systemd!Stopping, Systemd!Removing,
      Launchd!Installing, Launchd!Stopping, Launchd!Removing, Kept, Systemd!ArmedIsRunnable,
      Systemd!RemovedIsGone, Launchd!ArmedIsRunnable, Launchd!RemovedIsGone
<1> QED
  BY <1>1, ScheduleStep, PTL DEF Spec

(* A daily scan that may start finds the files it needs, wherever a command   *)
(* was cut short (the order of writes in install, of deletions in remove).    *)
THEOREM ArmedIsAlwaysRunnable == Spec => []ArmedIsRunnable
<1>1. ScheduleInv => ArmedIsRunnable
  BY DEF ScheduleInv, SystemdInv, LaunchdInv, ArmedIsRunnable
<1> QED
  BY <1>1, Invariance, PTL

(* What a removal reports as gone is gone, and stays so (stopCommand).        *)
THEOREM RemovedIsAlwaysGone == Spec => []RemovedIsGone
<1>1. ScheduleInv => RemovedIsGone
  BY DEF ScheduleInv, SystemdInv, LaunchdInv, RemovedIsGone
<1> QED
  BY <1>1, Invariance, PTL

-----------------------------------------------------------------------------
(* A step on Linux is a step of what was promised, or none.                   *)
LEMMA SystemdKeeps ==
  ASSUME goos = "linux", goos' = "linux", SystemdInv, Systemd!Next
  PROVE  [Promised!Next]_(Promised!vars)
<1> USE SettingsAssumption
    DEF SystemdInv, AtSteps, Kept, Systemd!Installing, Systemd!Stopping, Systemd!Removing,
        Systemd!ArmedIsRunnable, Systemd!RemovedIsGone,
        Systemd!fileVars, Systemd!managerVars, Systemd!Step, Systemd!Begin, Systemd!Finish,
        Systemd!NoCommand, Systemd!Quit, Systemd!commandVars, Promised!vars
<1>1. ASSUME NEW s \in Settings, Systemd!BeginInstall(s) PROVE UNCHANGED Promised!vars
  BY <1>1 DEF Systemd!BeginInstall
<1>2. ASSUME Systemd!ShowEnvironment PROVE UNCHANGED Promised!vars
  BY <1>2 DEF Systemd!ShowEnvironment
<1>3. ASSUME Systemd!ProbeNotifier PROVE Promised!Doubt
  BY <1>3 DEF Systemd!ProbeNotifier, Promised!Doubt
<1>4. ASSUME Systemd!WriteHelper PROVE Promised!Meddle
  BY <1>4 DEF Systemd!WriteHelper, Promised!Meddle
<1>5. ASSUME Systemd!WriteService PROVE Promised!Meddle
  BY <1>5 DEF Systemd!WriteService, Promised!Meddle
<1>6. ASSUME Systemd!WriteTimer PROVE Promised!Meddle
  BY <1>6 DEF Systemd!WriteTimer, Promised!Meddle
<1>7. ASSUME Systemd!DaemonReload PROVE Promised!Meddle
  BY <1>7 DEF Systemd!DaemonReload, Systemd!Reload, Promised!Meddle
<1>8. ASSUME Systemd!Enable PROVE Promised!Meddle
  BY <1>8 DEF Systemd!Enable, Promised!Meddle
<1>9. ASSUME Systemd!Restart PROVE want \in Settings /\ Promised!Promise(want)
  BY <1>9 DEF Systemd!Restart, Promised!Promise
<1>10. ASSUME NEW c \in {"disable", "remove"}, Systemd!BeginStop(c) PROVE Promised!Doubt
  BY <1>10 DEF Systemd!BeginStop, Promised!Doubt
<1>11. ASSUME Systemd!DisableTimer PROVE Promised!Meddle
  BY <1>11 DEF Systemd!DisableTimer, Systemd!disableTimer, Promised!Meddle
<1>12. ASSUME Systemd!DisableHalfway PROVE Promised!Meddle
  BY <1>12 DEF Systemd!DisableHalfway, Promised!Meddle
<1>13. ASSUME Systemd!StopService PROVE Promised!Silence \/ Promised!Meddle
  BY <1>13 DEF Systemd!StopService, Systemd!AfterStop, Systemd!stopService, Promised!Silence, Promised!Meddle
<1>14. ASSUME Systemd!RemoveTimer PROVE Promised!Meddle
  BY <1>14 DEF Systemd!RemoveTimer, Promised!Meddle
<1>15. ASSUME Systemd!RemoveService PROVE Promised!Meddle
  BY <1>15 DEF Systemd!RemoveService, Promised!Meddle
<1>16. ASSUME Systemd!RemoveHelper PROVE Promised!Meddle
  BY <1>16 DEF Systemd!RemoveHelper, Promised!Meddle
<1>17. ASSUME Systemd!FinalReload PROVE Promised!Silence
  BY <1>17 DEF Systemd!FinalReload, Systemd!Reload, Promised!Silence
<1>18. ASSUME Systemd!Abort PROVE UNCHANGED Promised!vars
  BY <1>18 DEF Systemd!Abort
<1>19. ASSUME Systemd!Fire PROVE Promised!StartScan
  BY <1>19 DEF Systemd!Fire, Promised!StartScan
<1>20. ASSUME Systemd!ScanEnds PROVE Promised!EndScan
  BY <1>20 DEF Systemd!ScanEnds, Promised!EndScan
<1>21. ASSUME Systemd!Reboot PROVE Promised!Reboot
  BY <1>21 DEF Systemd!Reboot, Promised!Reboot
<1> QED
  BY <1>1, <1>2, <1>3, <1>4, <1>5, <1>6, <1>7, <1>8, <1>9, <1>10, <1>11, <1>12,
     <1>13, <1>14, <1>15, <1>16, <1>17, <1>18, <1>19, <1>20, <1>21
  DEF Systemd!Next, Systemd!Command, Promised!Next

(* The same on macOS, where a job that is loaded is armed.                    *)
LEMMA LaunchdKeeps ==
  ASSUME goos = "darwin", goos' = "darwin", LaunchdInv, Launchd!Next
  PROVE  [Promised!Next]_(Promised!vars)
<1> USE SettingsAssumption
    DEF LaunchdInv, AtSteps, Kept, Launchd!Installing, Launchd!Stopping, Launchd!Removing,
        Launchd!ArmedIsRunnable, Launchd!RemovedIsGone,
        Launchd!fileVars, Launchd!launchdVars, Launchd!Step, Launchd!Begin, Launchd!Finish,
        Launchd!NoCommand, Launchd!Quit, Launchd!commandVars, Promised!vars
<1>1. ASSUME NEW s \in Settings, Launchd!BeginInstall(s) PROVE Promised!Doubt
  BY <1>1 DEF Launchd!BeginInstall, Promised!Doubt
<1>2. ASSUME NEW c \in {"disable", "remove"}, Launchd!BeginStop(c) PROVE Promised!Doubt
  BY <1>2 DEF Launchd!BeginStop, Promised!Doubt
<1>3. ASSUME Launchd!WriteHelper PROVE Promised!Meddle
  BY <1>3 DEF Launchd!WriteHelper, Promised!Meddle
<1>4. ASSUME Launchd!WritePlist PROVE Promised!Meddle
  BY <1>4 DEF Launchd!WritePlist, Promised!Meddle
<1>5. ASSUME Launchd!PrintService PROVE UNCHANGED Promised!vars
  BY <1>5 DEF Launchd!PrintService
<1>6. ASSUME Launchd!BootoutOld PROVE Promised!Meddle
  BY <1>6 DEF Launchd!BootoutOld, Launchd!unload, Promised!Meddle
<1>7. ASSUME Launchd!EnableService PROVE UNCHANGED Promised!vars
  BY <1>7 DEF Launchd!EnableService
<1>8. ASSUME Launchd!Bootstrap PROVE want \in Settings /\ Promised!Promise(want)
  BY <1>8 DEF Launchd!Bootstrap, Promised!Promise
<1>9. ASSUME Launchd!DisableService PROVE UNCHANGED Promised!vars
  BY <1>9 DEF Launchd!DisableService
<1>10. ASSUME Launchd!Bootout PROVE Promised!Silence \/ Promised!Meddle
  BY <1>10 DEF Launchd!Bootout, Launchd!AfterStop, Launchd!unload, Promised!Silence, Promised!Meddle
<1>11. ASSUME Launchd!RemovePlist PROVE Promised!Meddle
  BY <1>11 DEF Launchd!RemovePlist, Promised!Meddle
<1>12. ASSUME Launchd!RemoveHelper PROVE Promised!Meddle
  BY <1>12 DEF Launchd!RemoveHelper, Promised!Meddle
<1>13. ASSUME Launchd!ClearOverride PROVE Promised!Silence
  BY <1>13 DEF Launchd!ClearOverride, Promised!Silence
<1>14. ASSUME Launchd!Abort PROVE UNCHANGED Promised!vars
  BY <1>14 DEF Launchd!Abort
<1>15. ASSUME Launchd!Fire PROVE Promised!StartScan
  BY <1>15 DEF Launchd!Fire, Promised!StartScan
<1>16. ASSUME Launchd!ScanEnds PROVE Promised!EndScan
  BY <1>16 DEF Launchd!ScanEnds, Promised!EndScan
<1>17. ASSUME Launchd!Login PROVE Promised!Reboot
  BY <1>17 DEF Launchd!Login, Promised!Reboot
<1> QED
  BY <1>1, <1>2, <1>3, <1>4, <1>5, <1>6, <1>7, <1>8, <1>9, <1>10, <1>11, <1>12,
     <1>13, <1>14, <1>15, <1>16, <1>17
  DEF Launchd!Next, Launchd!Command, Launchd!Proceed, Promised!Next

(* The commands implement DailySchedule: what a successful command told its   *)
(* user stays true until the next command starts to change things.            *)
THEOREM PromiseIsKept == Spec => KeepsItsPromise
<1>1. Init => Promised!Init
  BY SettingsAssumption DEF Init, Systemd!Init, Launchd!Init, Systemd!CommandInit, Launchd!CommandInit, Promised!Init
<1>2. ScheduleInv /\ [Next]_vars => [Promised!Next]_(Promised!vars)
  <2>1. SUFFICES ASSUME ScheduleInv, [Next]_vars PROVE [Promised!Next]_(Promised!vars)
    OBVIOUS
  <2>2. CASE goos = "linux" /\ Systemd!Next /\ UNCHANGED <<goos, darwin>>
    BY <2>1, <2>2, SystemdKeeps DEF ScheduleInv
  <2>3. CASE goos = "darwin" /\ Launchd!Next /\ UNCHANGED <<goos, linux>>
    BY <2>1, <2>3, LaunchdKeeps DEF ScheduleInv
  <2>4. CASE UNCHANGED vars
    BY <2>4 DEF vars, commandVars, linux, darwin, Promised!vars
  <2> QED
    BY <2>1, <2>2, <2>3, <2>4 DEF Next
<1> QED
  BY <1>1, <1>2, Invariance, PTL DEF Spec, KeepsItsPromise, Promised!Spec
=============================================================================
