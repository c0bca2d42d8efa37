-------------------------- MODULE ScheduleCommand --------------------------
(***************************************************************************)
(* What the `surplies schedule` commands have in common on every platform  *)
(* (internal/schedule/schedule.go): a command is a sequence of steps, each *)
(* of which may fail or be the last one before the command is killed, and  *)
(* only the last one tells the user anything.                              *)
(*                                                                         *)
(* A file is named by the setting of the installation that wrote it: the   *)
(* helper carries that setting's scope, the timer its time of day.         *)
(***************************************************************************)
CONSTANTS Settings, None, Unsure, Disabled, Removed

ASSUME SettingsAssumption ==
    /\ {None, Unsure, Disabled, Removed} \cap Settings = {}
    /\ Unsure \notin {Disabled, Removed}
    /\ Disabled # Removed

VARIABLES
    helper,   \* ~/.local/bin/surplies-notify
    running,  \* the service manager runs a helper of this setting
    command,  \* the command under way
    pc,       \* its next step
    want,     \* the setting an install is for
    told      \* what the last command told its user

commandVars == <<command, pc, want, told>>

NoCommand == command' = "none" /\ pc' = "idle" /\ want' = None

Begin(c, setting, at) ==
    /\ pc = "idle"
    /\ command' = c /\ pc' = at /\ want' = setting

\* A step that succeeds; the command goes on.
Step(at, to) ==
    /\ pc = at
    /\ pc' = to
    /\ UNCHANGED <<command, want, told>>

\* The last step of a command, which then tells its user so.
Finish(at, outcome) ==
    /\ pc = at
    /\ NoCommand
    /\ told' = outcome

\* A step failed, or the command was killed before it.
Quit ==
    /\ pc # "idle"
    /\ NoCommand
    /\ UNCHANGED told

CommandInit ==
    /\ helper = None /\ running = None
    /\ command = "none" /\ pc = "idle" /\ want = None
    /\ told = Removed
=============================================================================
