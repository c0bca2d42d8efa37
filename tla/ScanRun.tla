------------------------------- MODULE ScanRun -------------------------------
(* One run of surplies from its arguments to what its user is told: runScan   *)
(* in main.go, the phases of Scanner.Run, the summary, the exit status and    *)
(* the daily helper (scripts/notify) that turns the status into a             *)
(* notification.  A phase is what it reports: the modules FileReads,          *)
(* NetworkSnapshot and GitHistory say how.                                    *)
EXTENDS GitVerdict

CONSTANT MaxRepositories    \* bound on what the Git phase finds
ASSUME RepositoriesBound == MaxRepositories \in Nat

VARIABLES
  run,          \* who started it, for what, and what is wrong with that
  pc,           \* the phase that comes next
  phaseNum,     \* Scanner.phaseNum
  findings,     \* Scanner.Findings
  abandoned,    \* Scanner.readsAbandoned
  git,          \* the Git part of Scanner.stats
  summary,      \* what PrintReportSummary printed
  exit,         \* the exit status
  notification, \* what the helper showed
  gaps          \* history: what could not be looked at as it should

scan == <<phaseNum, findings, abandoned, git, gaps>>
vars == <<run, pc, scan, summary, exit, notification>>

Severities == {"INFO", "WARN", "CRITICAL"}
None == "none"
NoExit == [status |-> 0, how |-> None]
NoGit == [version |-> "none", found |-> 0, scanned |-> 0, skipped |-> FALSE]
NoSummary == [result |-> None, complete |-> FALSE, banners |-> {}]

(* The helper runs `surplies -q` with the roots and the -only it was scheduled*)
(* with, which were right then; the program or a root may be gone since.      *)
Runs ==
  {r \in [by : {"helper", "user"}, only : BOOLEAN, asks : {"scan", "version", "help"},
          fault : {None, "absent", "flag", "argument", "scope", "debug"}] :
     /\ r.by = "helper" => r.asks = "scan" /\ r.fault \in {None, "absent", "scope"}
     /\ r.fault = "absent" => r.by = "helper"}

Init ==
  /\ run \in Runs
  /\ pc = "start"
  /\ phaseNum = 0 /\ findings = {} /\ abandoned = FALSE /\ git = NoGit
  /\ summary = NoSummary /\ exit = NoExit /\ notification = None
  /\ gaps = {}

Exit(code, why) == exit' = [status |-> code, how |-> why] /\ pc' = "exited"

-----------------------------------------------------------------------------
(* runScan before the scan.  flag.CommandLine exits by itself: 2 for a flag   *)
(* it does not know, 0 for -h; every other refusal is a 1, in this order.     *)
Start ==
  /\ pc = "start"
  /\ \/ run.fault = "absent" /\ Exit(127, "refused")
     \/ run.fault = "flag" /\ Exit(2, "refused")
     \/ run.fault \notin {"absent", "flag"} /\ run.asks = "help" /\ Exit(0, "asked")
     \/ run.fault = "argument" /\ run.asks # "help" /\ Exit(1, "refused")
     \/ run.fault \in {None, "scope", "debug"} /\ run.asks = "version" /\ Exit(0, "asked")
     \/ run.fault \in {"scope", "debug"} /\ run.asks = "scan" /\ Exit(1, "refused")
     \/ run.fault = None /\ run.asks = "scan" /\ pc' = "artifacts" /\ UNCHANGED exit
  /\ UNCHANGED <<run, scan, summary, notification>>

-----------------------------------------------------------------------------
total == 1 + IF run.only THEN 3 ELSE 5

(* What a phase adds.  Each incomplete check is a warning of its own.         *)
indicators(saw) == {verdict("indicator", severity, "machine") : severity \in saw}
incomplete(what) == verdict("scan-incomplete", "WARN", what)
limited(what) == verdict("scan-limited", "INFO", what)

Report(saw, missed, more) ==
  /\ gaps' = gaps \cup missed
  /\ findings' = findings \cup indicators(saw) \cup {incomplete(what) : what \in missed} \cup more

Abandonment == verdict("scan-incomplete", "CRITICAL", "content")

(* Reading and walking: anything may turn up, some of it may be unreadable,   *)
(* and a timeout may be the one that exhausts the stall budget.               *)
Read(missed, more) ==
  \E saw \in SUBSET Severities, gap, trips \in BOOLEAN :
    /\ trips => gap /\ ~abandoned
    /\ abandoned' = (abandoned \/ trips)
    /\ Report(saw, missed \cup (IF gap THEN {"files"} ELSE {}),
              more \cup IF trips THEN {Abandonment} ELSE {})

Phase(this, next) ==
  /\ pc = this /\ pc' = next
  /\ phaseNum' = phaseNum + 1
  /\ UNCHANGED <<run, git, summary, exit, notification>>

checkArtifacts == Phase("artifacts", "projects") /\ Read({}, {})

(* The scope notice is there on every run without -broad.                     *)
scanSharedDiscovery == Phase("projects", "python") /\ Read({}, {limited("content")})

scanPythonPackages ==
  Phase("python", IF run.only THEN "git" ELSE "processes") /\ Read({}, {})

(* inspectProcesses: the collection fails; or it has a snapshot, in which the *)
(* scanner itself must be, and some command lines may be restricted.  A       *)
(* script that runs is read like any other file.                              *)
checkProcesses ==
  /\ Phase("processes", "network")
  /\ \/ Report({}, {"processes"}, {}) /\ UNCHANGED abandoned
     \/ \E selfSeen \in BOOLEAN, notices \in {{}, {limited("processes")}} :
          Read(IF selfSeen THEN {} ELSE {"processes"}, notices)

checkNetworkIOCs ==
  /\ Phase("network", "git")
  /\ \E saw \in SUBSET {"CRITICAL"}, missed \in SUBSET {"network"} :
       Report(saw, missed, {limited("netstat")})
  /\ UNCHANGED abandoned

(* Run leaves the Git phase out once reading was given up.                    *)
SkipGit ==
  /\ pc = "git" /\ abandoned
  /\ git' = [git EXCEPT !.skipped = TRUE]
  /\ gaps' = gaps \cup {"git"}
  /\ pc' = "report"
  /\ UNCHANGED <<run, phaseNum, findings, abandoned, summary, exit, notification>>

(* scanGitRepositories: there is no Git, or it has a version, which may not   *)
(* be known, and some of the repositories are completed: none under a Git     *)
(* that is known to be too old.                                               *)
GitMissing ==
  /\ Report({}, {"git"}, {})
  /\ UNCHANGED git

GitCounts ==
  \E version \in Versions, found \in 0..MaxRepositories, saw \in SUBSET Severities :
    \E scanned \in 0..found :
      /\ version = "old" => scanned = 0
      /\ found = 0 => saw = {}
      /\ git' = [version |-> version, found |-> found, scanned |-> scanned, skipped |-> FALSE]
      /\ gaps' = gaps \cup
           IF found = 0 \/ scanned < found \/ ~gitPathsSupported(version) THEN {"git"} ELSE {}
      /\ findings' = findings \cup indicators(saw)
           \cup (IF version = "none" THEN {incomplete("GitPath")} ELSE {})
           \cup (IF scanned < found THEN {incomplete("repository")} ELSE {})
           \cup reportGitCoverage(version, found, scanned)

scanGitRepositories ==
  /\ pc = "git" /\ ~abandoned /\ pc' = "report"
  /\ phaseNum' = phaseNum + 1
  /\ GitMissing \/ GitCounts
  /\ UNCHANGED <<run, abandoned, summary, exit, notification>>

-----------------------------------------------------------------------------
(* Findings about the scan, not about the machine.                            *)
isCoverageCheck(check) ==
  check \in {"scan-incomplete", "git-too-old", "git-too-old-for-filenames"}

coverage == {f \in findings : isCoverageCheck(f.check)}
observed == {f \in findings : ~isCoverageCheck(f.check) /\ f.check # "scan-limited"}
CriticalIn(S) == \E f \in S : f.severity = "CRITICAL"

(* Where the report is saved, and whether it could be, changes nothing else.  *)
PrintReportSummary ==
  /\ pc = "report" /\ pc' = "exit"
  /\ summary' =
       [result |-> IF CriticalIn(observed) THEN "critical-indicators"
                   ELSE IF CriticalIn(coverage) THEN "coverage-failed" ELSE "none-critical",
        complete |-> coverage = {},
        banners |-> IF git.skipped THEN {"not-scanned"}
                    ELSE banners(git.version, git.found, git.scanned)]
  /\ UNCHANGED <<run, scan, exit, notification>>

(* Mutant: coverage is a warning at most.                                     *)
worstSeverityExitCode_Coverage ==
  IF CriticalIn(observed) THEN 2
  ELSE IF \E f \in findings : f.severity # "INFO" THEN 1 ELSE 0

worstSeverityExitCode ==
  IF CriticalIn(findings) THEN 2
  ELSE IF \E f \in findings : f.severity = "WARN" THEN 1 ELSE 0

Finish ==
  /\ pc = "exit" /\ Exit(worstSeverityExitCode, "completed")
  /\ UNCHANGED <<run, scan, summary, notification>>

(* The process is killed (137 to the shell), or the Go runtime ends it: after *)
(* a panic, a SIGQUIT or for want of memory its status is 2.                  *)
Die ==
  /\ pc \notin {"start", "exited", "done"}
  /\ \E status \in {2, 137} : Exit(status, "died")
  /\ UNCHANGED <<run, scan, summary, notification>>

(* linux.sh and macos.sh look at nothing but the status.                      *)
Notify ==
  /\ pc = "exited" /\ run.by = "helper" /\ pc' = "done"
  /\ notification' = IF exit.status = 0 THEN None
                     ELSE IF exit.status = 2 THEN "Critical" ELSE "Warning"
  /\ UNCHANGED <<run, scan, summary, exit>>

Next ==
  \/ Start \/ checkArtifacts \/ scanSharedDiscovery \/ scanPythonPackages
  \/ checkProcesses \/ checkNetworkIOCs \/ SkipGit \/ scanGitRepositories
  \/ PrintReportSummary \/ Finish \/ Die \/ Notify

Spec == Init /\ [][Next]_vars

-----------------------------------------------------------------------------
Verdict == pc \in {"exited", "done"} /\ exit.how = "completed"

(* Every variable holds a value of its kind, and the progress lines count up  *)
(* to the number they announce (phase).                                       *)
TypeOK ==
  /\ run \in Runs
  /\ pc \in {"start", "artifacts", "projects", "python", "processes", "network",
             "git", "report", "exit", "exited", "done"}
  /\ phaseNum \in 0..total
  /\ pc = "report" => phaseNum = total - IF git.skipped THEN 1 ELSE 0
  /\ \A f \in findings : f.severity \in Severities
  /\ abandoned \in BOOLEAN
  /\ git.version \in Versions /\ git.scanned \in 0..git.found
  /\ exit \in [status : {0, 1, 2, 127, 137}, how : {None, "asked", "refused", "completed", "died"}]
  /\ notification \in {None, "Warning", "Critical"}
  /\ gaps \subseteq {"files", "processes", "network", "git"}

(* "Clean scan, no indicators found": a scan exits 0, and the daily helper is *)
(* silent, only after every phase in scope went to its end, nothing was left  *)
(* unseen, Git history included, and nothing above context was met.           *)
SilenceIsEarned ==
  (\/ pc = "done" /\ notification = None
   \/ pc = "exited" /\ run.asks = "scan" /\ exit.status = 0) =>
    /\ Verdict /\ phaseNum = total
    /\ gaps = {} /\ ~abandoned
    /\ git.found > 0 /\ git.scanned = git.found /\ gitPathsSupported(git.version)
    /\ \A f \in observed : f.severity = "INFO"

(* The exit codes of the README: a completed scan exits 2 just for a critical *)
(* finding, a Git without object paths or one that failed more than a quarter *)
(* of the repositories there were, or reading that stopped.                   *)
TwoIsDeserved ==
  Verdict =>
    (exit.status = 2 <=>
       \/ CriticalIn({f \in findings : f.check = "indicator"})
       \/ git.version \in {"old", "legacy"} /\ git.found > 0
       \/ 4 * (git.found - git.scanned) > git.found
       \/ abandoned)

(* The summary and the status are computed apart (PrintReportSummary,         *)
(* worstSeverityExitCode) and the banners from the counters once more         *)
(* (printGitSummary): they tell one story.  Coverage is never an indicator.   *)
SummaryAgrees ==
  Verdict =>
    LET says(check, severity, path) == verdict(check, severity, path) \in findings IN
      /\ exit.status = 2 <=> summary.result # "none-critical"
      /\ summary.result = "critical-indicators" <=> says("indicator", "CRITICAL", "machine")
      /\ summary.complete <=> gaps = {}
      /\ "unusable" \in summary.banners <=> says("scan-incomplete", "CRITICAL", "git")
      /\ "too-old" \in summary.banners <=> says("git-too-old", "CRITICAL", "GitPath")
      /\ "not-scanned" \in summary.banners <=> says("scan-incomplete", "CRITICAL", "content")
      /\ says("git-too-old-for-filenames", "CRITICAL", "GitPath") =>
           "names-missing" \in summary.banners
=============================================================================
