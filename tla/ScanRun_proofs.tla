--------------------------- MODULE ScanRun_proofs ---------------------------
(* What the exit status of a run and the silence of the daily helper are      *)
(* worth, for any number of repositories.                                     *)
EXTENDS ScanRun, TLAPS

Phases == {"artifacts", "projects", "python", "processes", "network", "git", "report", "exit"}
Loud(S) == \E f \in S : f.severity \in {"WARN", "CRITICAL"}

(* Who is told what, and that only Finish gives a verdict.                    *)
ExitInv ==
  /\ run \in Runs
  /\ pc \in Phases \cup {"start", "exited", "done"}
  /\ pc \in Phases => run.asks = "scan"
  /\ pc \in Phases \cup {"start"} => exit = NoExit
  /\ pc \in {"exited", "done"} =>
       \/ exit.how = "completed" /\ exit.status = worstSeverityExitCode
       \/ exit.how = "died" /\ exit.status # 0
       \/ exit.how = "refused" /\ exit.status # 0
       \/ exit.how = "asked" /\ run.asks # "scan"
  /\ pc = "done" => run.by = "helper" /\ (notification = None => exit.status = 0)

(* A phase is numbered as it is reached, and none in scope is passed over.    *)
PhaseInv ==
  /\ pc = "start" => gaps = {} /\ ~abandoned
  /\ pc \in {"start", "artifacts"} => phaseNum = 0
  /\ pc = "projects" => phaseNum = 1
  /\ pc = "python" => phaseNum = 2
  /\ pc = "processes" => phaseNum = 3 /\ ~run.only
  /\ pc = "network" => phaseNum = 4 /\ ~run.only
  /\ pc = "git" => phaseNum = total - 1

Whole == git.found > 0 /\ git.scanned = git.found /\ gitPathsSupported(git.version)
Over == pc \in {"report", "exit"} \/ Verdict

(* Whatever was not looked at was reported above INFO: this relates the gaps  *)
(* of one phase to what the phases before it and the verdicts after it say.   *)
GapInv ==
  /\ abandoned \in BOOLEAN
  /\ \A f \in findings : f.severity \in Severities
  /\ gaps # {} \/ abandoned => Loud(findings)
  /\ Over => abandoned \/ gaps # {} \/ (Whole /\ phaseNum = total)

RunInv == ExitInv /\ PhaseInv /\ GapInv

-----------------------------------------------------------------------------
(* A run starts with nothing said and nothing missed.                         *)
LEMMA InitLemma == Init => RunInv
  BY DEF Init, RunInv, ExitInv, PhaseInv, GapInv, Over, Verdict, NoExit, None, Phases, Loud

(* What a phase reports: types are kept, and a gap is a warning.              *)
LEMMA ReportLemma ==
  ASSUME NEW saw \in SUBSET Severities, NEW missed, NEW more,
         \A f \in more : f.severity \in Severities,
         GapInv, Report(saw, missed, more)
  PROVE  /\ \A f \in findings' : f.severity \in Severities
         /\ gaps' # {} \/ abandoned => Loud(findings')
<1>1. ASSUME NEW f \in findings' PROVE f.severity \in Severities
  BY <1>1 DEF Report, GapInv, indicators, incomplete, verdict, Severities
<1>2. Loud(findings) => Loud(findings')
  BY DEF Report, Loud
<1>3. ASSUME NEW what \in missed PROVE Loud(findings')
  <2>1. incomplete(what) \in findings'
    BY <1>3 DEF Report
  <2> QED
    BY <2>1 DEF Loud, incomplete, verdict
<1> QED
  BY <1>1, <1>2, <1>3 DEF Report, GapInv

(* The same of a phase that reads files and may give up on them.              *)
LEMMA ReadLemma ==
  ASSUME NEW missed, NEW more, \A f \in more : f.severity \in Severities,
         GapInv, Read(missed, more)
  PROVE  /\ abandoned' \in BOOLEAN
         /\ \A f \in findings' : f.severity \in Severities
         /\ gaps' # {} \/ abandoned' => Loud(findings')
<1>1. PICK saw \in SUBSET Severities, gap \in BOOLEAN, trips \in BOOLEAN :
        /\ trips => gap
        /\ abandoned' = (abandoned \/ trips)
        /\ Report(saw, missed \cup (IF gap THEN {"files"} ELSE {}),
                  more \cup IF trips THEN {Abandonment} ELSE {})
  BY DEF Read
<1>2. \A f \in more \cup (IF trips THEN {Abandonment} ELSE {}) : f.severity \in Severities
  BY DEF Abandonment, verdict, Severities
<1>3. /\ \A f \in findings' : f.severity \in Severities
      /\ gaps' # {} \/ abandoned => Loud(findings')
  BY <1>1, <1>2, ReportLemma
<1>4. trips => gaps' # {}
  BY <1>1 DEF Report
<1>5. abandoned' \in BOOLEAN
  BY <1>1 DEF GapInv
<1> QED
  BY <1>1, <1>3, <1>4, <1>5

(* A phase that is followed by another one keeps the invariant.               *)
LEMMA PhaseLemma ==
  ASSUME RunInv, NEW this \in Phases, NEW next \in Phases \ {"report", "exit"},
         Phase(this, next), PhaseInv',
         abandoned' \in BOOLEAN,
         \A f \in findings' : f.severity \in Severities,
         gaps' # {} \/ abandoned' => Loud(findings')
  PROVE  RunInv'
<1>1. ExitInv'
  BY DEF RunInv, ExitInv, Phase, Phases
<1>2. GapInv'
  BY DEF Phase, Phases, GapInv, Over, Verdict
<1> QED
  BY <1>1, <1>2 DEF RunInv

(* The verdicts on the Git half leave nothing unsaid.                         *)
LEMMA GitLemma ==
  ASSUME NEW version \in Versions, NEW found \in Nat, NEW scanned \in 0..found
  PROVE  /\ \A f \in reportGitCoverage(version, found, scanned) : f.severity \in Severities
         /\ \/ version = "none" \/ scanned < found \/ (gitPathsSupported(version) /\ found > 0)
            \/ Loud(reportGitCoverage(version, found, scanned))
<1>1. \A f \in reportGitCoverage(version, found, scanned) : f.severity \in Severities
  BY DEF reportGitCoverage, reportGitVersion, versionVerdict, verdict, Severities, Versions
<1>2. CASE found = 0
  <2>1. verdict("scan-incomplete", "WARN", "git") \in reportGitCoverage(version, found, scanned)
    BY <1>2 DEF reportGitCoverage
  <2> QED
    BY <1>1, <2>1 DEF Loud, verdict
<1>3. CASE found # 0 /\ version \in {"garbled", "old", "legacy"}
  <2>1. \E f \in reportGitVersion(version, found) : f.severity \in {"WARN", "CRITICAL"}
    BY <1>3 DEF reportGitVersion, versionVerdict, verdict
  <2> QED
    BY <1>1, <2>1 DEF Loud, reportGitCoverage
<1>4. CASE found # 0 /\ version \in {"none", "paths"}
  BY <1>1, <1>4 DEF gitPathsSupported
<1> QED
  BY <1>2, <1>3, <1>4 DEF Versions

(* The Git phase keeps the invariant.                                         *)
LEMMA GitPhaseLemma == ASSUME RunInv, scanGitRepositories PROVE RunInv'
<1>1. GapInv /\ abandoned = FALSE /\ abandoned' = abandoned /\ pc = "git" /\ pc' = "report"
  BY DEF RunInv, GapInv, scanGitRepositories
<1>2. ExitInv'
  BY DEF RunInv, ExitInv, scanGitRepositories, Phases
<1>3. PhaseInv'
  BY <1>1 DEF PhaseInv
<1>4. phaseNum' = total'
  BY <1>1 DEF RunInv, PhaseInv, scanGitRepositories, total
<1>5. CASE GitMissing
  <2>1. /\ \A f \in findings' : f.severity \in Severities
        /\ gaps' # {} \/ abandoned => Loud(findings')
    BY <1>1, <1>5, ReportLemma DEF GitMissing
  <2>2. gaps' # {}
    BY <1>5 DEF GitMissing, Report
  <2> QED
    BY <1>1, <1>2, <1>3, <2>1, <2>2 DEF RunInv, GapInv
<1>6. CASE GitCounts
  <2>1. PICK version \in Versions, found \in 0..MaxRepositories, saw \in SUBSET Severities :
          \E scanned \in 0..found :
            /\ git' = [version |-> version, found |-> found, scanned |-> scanned, skipped |-> FALSE]
            /\ gaps' = gaps \cup
                 IF found = 0 \/ scanned < found \/ ~gitPathsSupported(version) THEN {"git"} ELSE {}
            /\ findings' = findings \cup indicators(saw)
                 \cup (IF version = "none" THEN {incomplete("GitPath")} ELSE {})
                 \cup (IF scanned < found THEN {incomplete("repository")} ELSE {})
                 \cup reportGitCoverage(version, found, scanned)
    BY <1>6 DEF GitCounts
  <2>2. PICK scanned \in 0..found :
            /\ git' = [version |-> version, found |-> found, scanned |-> scanned, skipped |-> FALSE]
            /\ gaps' = gaps \cup
                 IF found = 0 \/ scanned < found \/ ~gitPathsSupported(version) THEN {"git"} ELSE {}
            /\ findings' = findings \cup indicators(saw)
                 \cup (IF version = "none" THEN {incomplete("GitPath")} ELSE {})
                 \cup (IF scanned < found THEN {incomplete("repository")} ELSE {})
                 \cup reportGitCoverage(version, found, scanned)
    BY <2>1
  <2>3. found \in Nat
    BY RepositoriesBound
  <2> DEFINE said == reportGitCoverage(version, found, scanned)
  <2>4. /\ \A f \in said : f.severity \in Severities
        /\ \/ version = "none" \/ scanned < found \/ (gitPathsSupported(version) /\ found > 0)
           \/ Loud(said)
    BY <2>3, GitLemma
  <2> HIDE DEF said
  <2>5. \A f \in findings' : f.severity \in Severities
    BY <1>1, <2>2, <2>4 DEF GapInv, indicators, incomplete, verdict, Severities, said
  <2>6. Loud(findings) \/ Loud(said) \/ version = "none" \/ scanned < found => Loud(findings')
    <3>1. version = "none" => incomplete("GitPath") \in findings'
      BY <2>2
    <3>2. scanned < found => incomplete("repository") \in findings'
      BY <2>2
    <3>3. findings \subseteq findings' /\ said \subseteq findings'
      BY <2>2 DEF said
    <3> QED
      BY <3>1, <3>2, <3>3 DEF Loud, incomplete, verdict
  <2>7. gaps' # {} => Loud(findings')
    BY <1>1, <2>2, <2>4, <2>6 DEF GapInv
  <2>8. gaps' # {} \/ Whole'
    BY <2>2, <2>3 DEF Whole
  <2> QED
    BY <1>1, <1>2, <1>3, <1>4, <2>5, <2>7, <2>8 DEF RunInv, GapInv
<1> QED
  BY <1>5, <1>6 DEF scanGitRepositories

(* Before the scan: who is refused is told so.                                *)
LEMMA StartLemma == ASSUME RunInv, Start PROVE RunInv'
<1>1. ExitInv'
  BY DEF RunInv, ExitInv, Start, Exit, Runs, Phases, scan, worstSeverityExitCode
<1>2. PhaseInv'
  BY DEF RunInv, PhaseInv, Start, Exit, scan
<1>3. GapInv'
  BY DEF RunInv, GapInv, Start, Exit, scan, Over, Verdict
<1> QED
  BY <1>1, <1>2, <1>3 DEF RunInv

(* Every step keeps the invariant.                                            *)
LEMMA StepLemma == ASSUME RunInv, [Next]_vars PROVE RunInv'
<1> USE DEF RunInv
<1>1. ASSUME Start PROVE RunInv'
  BY <1>1, StartLemma
<1>2. ASSUME checkArtifacts PROVE RunInv'
  <2>1. PhaseInv'
    BY <1>2 DEF PhaseInv, checkArtifacts, Phase
  <2> QED
    BY <1>2, <2>1, ReadLemma, PhaseLemma DEF checkArtifacts, Phases
<1>3. ASSUME scanSharedDiscovery PROVE RunInv'
  <2>1. PhaseInv'
    BY <1>3 DEF PhaseInv, scanSharedDiscovery, Phase
  <2>2. \A f \in {limited("content")} : f.severity \in Severities
    BY DEF limited, verdict, Severities
  <2> QED
    BY <1>3, <2>1, <2>2, ReadLemma, PhaseLemma DEF scanSharedDiscovery, Phases
<1>4. ASSUME scanPythonPackages PROVE RunInv'
  <2>1. PhaseInv'
    BY <1>4 DEF PhaseInv, scanPythonPackages, Phase, total
  <2> QED
    BY <1>4, <2>1, ReadLemma, PhaseLemma DEF scanPythonPackages, Phases
<1>5. ASSUME checkProcesses PROVE RunInv'
  <2>1. PhaseInv'
    BY <1>5 DEF PhaseInv, checkProcesses, Phase
  <2>2. /\ abandoned' \in BOOLEAN
        /\ \A f \in findings' : f.severity \in Severities
        /\ gaps' # {} \/ abandoned' => Loud(findings')
    <3>1. CASE Report({}, {"processes"}, {}) /\ UNCHANGED abandoned
      <4> DEFINE nothing == {}
                 table == {"processes"}
      <4>1. /\ nothing \in SUBSET Severities /\ \A f \in nothing : f.severity \in Severities
            /\ GapInv /\ Report(nothing, table, nothing)
        BY <3>1
      <4> HIDE DEF nothing, table
      <4>2. /\ \A f \in findings' : f.severity \in Severities
            /\ gaps' # {} \/ abandoned => Loud(findings')
        BY <4>1, ReportLemma
      <4> QED
        BY <3>1, <4>1, <4>2 DEF GapInv
    <3>2. ASSUME NEW selfSeen \in BOOLEAN, NEW notices \in {{}, {limited("processes")}},
                 Read(IF selfSeen THEN {} ELSE {"processes"}, notices)
          PROVE  <2>2!:
      <4>1. \A f \in notices : f.severity \in Severities
        BY DEF limited, verdict, Severities
      <4> QED
        BY <3>2, <4>1, ReadLemma
    <3> QED
      BY <1>5, <3>1, <3>2 DEF checkProcesses
  <2> QED
    BY <1>5, <2>1, <2>2, PhaseLemma DEF checkProcesses, Phases
<1>6. ASSUME checkNetworkIOCs PROVE RunInv'
  <2>1. PhaseInv'
    BY <1>6 DEF RunInv, PhaseInv, checkNetworkIOCs, Phase, total
  <2>2. PICK saw \in SUBSET {"CRITICAL"}, missed \in SUBSET {"network"} :
          Report(saw, missed, {limited("netstat")})
    BY <1>6 DEF checkNetworkIOCs
  <2>3. saw \in SUBSET Severities /\ \A f \in {limited("netstat")} : f.severity \in Severities
    BY DEF limited, verdict, Severities
  <2>4. /\ abandoned' = abandoned
        /\ \A f \in findings' : f.severity \in Severities
        /\ gaps' # {} \/ abandoned => Loud(findings')
    BY <1>6, <2>2, <2>3, ReportLemma DEF checkNetworkIOCs
  <2> QED
    BY <1>6, <2>1, <2>4, PhaseLemma DEF checkNetworkIOCs, Phases, GapInv
<1>7. ASSUME SkipGit PROVE RunInv'
  BY <1>7 DEF SkipGit, ExitInv, PhaseInv, GapInv, Phases, Over, Verdict
<1>8. ASSUME scanGitRepositories PROVE RunInv'
  BY <1>8, GitPhaseLemma
<1>9. ASSUME PrintReportSummary PROVE RunInv'
  BY <1>9 DEF PrintReportSummary, scan, ExitInv, PhaseInv, GapInv, Phases, Over, Verdict, Whole, total
<1>10. ASSUME Finish PROVE RunInv'
  <2>1. ExitInv'
    BY <1>10 DEF Finish, Exit, scan, ExitInv, Phases, worstSeverityExitCode, CriticalIn
  <2> QED
    BY <1>10, <2>1 DEF Finish, Exit, scan, PhaseInv, GapInv, Over, Verdict, Whole, total
<1>11. ASSUME Die PROVE RunInv'
  BY <1>11 DEF Die, Exit, scan, ExitInv, PhaseInv, GapInv, Phases, Over, Verdict
<1>12. ASSUME Notify PROVE RunInv'
  <2>1. ExitInv'
    BY <1>12 DEF Notify, scan, ExitInv, Phases, worstSeverityExitCode, CriticalIn, None
  <2> QED
    BY <1>12, <2>1 DEF Notify, scan, PhaseInv, GapInv, Over, Verdict, Whole, total
<1>13. CASE UNCHANGED vars
  BY <1>13 DEF vars, scan, ExitInv, PhaseInv, GapInv, Over, Verdict, Whole, total,
               worstSeverityExitCode, CriticalIn
<1> QED
  BY <1>1, <1>2, <1>3, <1>4, <1>5, <1>6, <1>7, <1>8, <1>9, <1>10, <1>11, <1>12, <1>13 DEF Next

(* The invariant holds of every run (runScan, Scanner.Run, scripts/notify).   *)
THEOREM Invariance == Spec => []RunInv
  BY InitLemma, StepLemma, PTL DEF Spec

(* A scan exits 0, and the daily helper stays silent, only after a whole and  *)
(* clean scan (worstSeverityExitCode, linux.sh, macos.sh).                    *)
THEOREM SilenceIsAlwaysEarned == Spec => []SilenceIsEarned
<1>1. RunInv => SilenceIsEarned
  <2>1. SUFFICES ASSUME RunInv,
                        \/ pc = "done" /\ notification = None
                        \/ pc = "exited" /\ run.asks = "scan" /\ exit.status = 0
                 PROVE  /\ Verdict /\ phaseNum = total
                        /\ gaps = {} /\ ~abandoned /\ Whole
                        /\ \A f \in observed : f.severity = "INFO"
    BY DEF SilenceIsEarned, Whole
  <2>2. run.asks = "scan" /\ exit.status = 0
    BY <2>1 DEF RunInv, ExitInv, Runs
  <2>3. Verdict /\ worstSeverityExitCode = 0
    BY <2>1, <2>2 DEF RunInv, ExitInv, Verdict
  <2>4. ~Loud(findings)
    BY <2>3 DEF worstSeverityExitCode, CriticalIn, Loud
  <2>5. gaps = {} /\ ~abandoned
    BY <2>1, <2>4 DEF RunInv, GapInv
  <2>6. Whole /\ phaseNum = total
    BY <2>1, <2>3, <2>5 DEF RunInv, GapInv, Over
  <2>7. \A f \in observed : f.severity = "INFO"
    BY <2>1, <2>4 DEF RunInv, GapInv, observed, Loud, Severities
  <2> QED
    BY <2>3, <2>5, <2>6, <2>7
<1> QED
  BY <1>1, Invariance, PTL

-----------------------------------------------------------------------------
(* What is said of a scan that is whole, lost or cut short, once for each     *)
(* cause of a status of 2.                                                    *)
Unusable == verdict("scan-incomplete", "CRITICAL", "git")
TooOld == verdict("git-too-old", "CRITICAL", "GitPath")
Nameless == verdict("git-too-old-for-filenames", "CRITICAL", "GitPath")
CriticalIndicator == verdict("indicator", "CRITICAL", "machine")

(* Nothing else is CRITICAL.                                                  *)
Mild(f) ==
  \/ f.check = "indicator" /\ (f.severity = "CRITICAL" <=> f = CriticalIndicator)
  \/ f.check = "scan-limited" /\ f.severity = "INFO"
  \/ isCoverageCheck(f.check) /\ f.severity = "WARN"

Sayable(f) == Mild(f) \/ f \in {Abandonment, Unusable, TooOld, Nameless}

(* A finding about the scan and a gap in it come together.                    *)
VerdictInv ==
  /\ \A f \in findings : Sayable(f)
  /\ Abandonment \in findings <=> abandoned
  /\ coverage = {} <=> gaps = {}

(* The verdicts on the Git half are those its counters call for, and the half *)
(* is skipped just when reading was given up.                                 *)
GitSaid ==
  /\ Unusable \in findings <=> unusable(git.found, git.scanned)
  /\ TooOld \in findings <=> git.version = "old" /\ git.found > 0
  /\ Nameless \in findings <=> git.version = "legacy" /\ git.found > 0

GitInv ==
  /\ git.found \in Nat /\ git.scanned \in 0..git.found
  /\ GitSaid
  /\ git.skipped => abandoned /\ git.version = "none" /\ git.found = 0
  /\ Over => (abandoned => git.skipped)
  /\ pc \in (Phases \cup {"start"}) \ {"report", "exit"} => git = NoGit

(* The summary says of the findings what the exit status will say.            *)
SummaryInv ==
  pc = "exit" \/ Verdict =>
    /\ summary.result # "none-critical" <=> CriticalIn(findings)
    /\ summary.result = "critical-indicators" <=> CriticalIndicator \in findings
    /\ summary.complete <=> coverage = {}
    /\ \/ git.skipped /\ summary.banners = {"not-scanned"}
       \/ ~git.skipped /\ summary.banners = banners(git.version, git.found, git.scanned)

SayInv == VerdictInv /\ GitInv /\ SummaryInv

(* What a phase other than Git's adds to the findings.                        *)
LEMMA ReportSays ==
  ASSUME VerdictInv, NEW saw \in SUBSET Severities, NEW missed, NEW more,
         Report(saw, missed, more),
         \A f \in more : f = Abandonment \/ (f.check = "scan-limited" /\ f.severity = "INFO"),
         Abandonment \in more => missed # {},
         abandoned' = (abandoned \/ Abandonment \in more)
  PROVE  /\ VerdictInv'
         /\ Unusable \in findings' <=> Unusable \in findings
         /\ TooOld \in findings' <=> TooOld \in findings
         /\ Nameless \in findings' <=> Nameless \in findings
<1> USE DEF Abandonment, Unusable, TooOld, Nameless, verdict
<1> DEFINE added == indicators(saw) \cup {incomplete(what) : what \in missed} \cup more
<1>1. findings' = findings \cup added /\ gaps' = gaps \cup missed
  BY DEF Report
<1>2. \A f \in indicators(saw) : Mild(f) /\ ~isCoverageCheck(f.check)
  BY DEF indicators, Mild, CriticalIndicator, isCoverageCheck
<1>3. \A f \in {incomplete(what) : what \in missed} : Mild(f) /\ isCoverageCheck(f.check)
  BY DEF incomplete, Mild, isCoverageCheck
<1>4. \A f \in more : (Mild(f) /\ ~isCoverageCheck(f.check)) \/ f = Abandonment
  BY DEF Mild, isCoverageCheck
<1>5. ~Mild(Abandonment) /\ ~Mild(Unusable) /\ ~Mild(TooOld) /\ ~Mild(Nameless)
  BY DEF Mild, isCoverageCheck
<1>6. /\ Abandonment # Unusable /\ Abandonment # TooOld /\ Abandonment # Nameless
      /\ isCoverageCheck(Abandonment.check)
  BY DEF isCoverageCheck
<1> HIDE DEF Abandonment, Unusable, TooOld, Nameless, verdict
<1>7. \A f \in added : Mild(f) \/ (f = Abandonment /\ f \in more)
  BY <1>2, <1>3, <1>4
<1>8. missed # {} <=> \E f \in added : isCoverageCheck(f.check)
  <2>1. ASSUME NEW what \in missed PROVE \E f \in added : isCoverageCheck(f.check)
    BY <1>3
  <2>2. ASSUME NEW f \in added, isCoverageCheck(f.check) PROVE missed # {}
    BY <1>2, <1>4, <2>2
  <2> QED
    BY <2>1, <2>2
<1> HIDE DEF added
<1>9. Abandonment \in added <=> Abandonment \in more
  BY <1>5, <1>7 DEF added
<1>10. (\A f \in findings' : Sayable(f)) /\ (Abandonment \in findings' <=> abandoned')
  BY <1>1, <1>7, <1>9 DEF VerdictInv, Sayable
<1>11. coverage' = {} <=> gaps' = {}
  BY <1>1, <1>8 DEF VerdictInv, coverage
<1> QED
  BY <1>1, <1>5, <1>6, <1>7, <1>10, <1>11 DEF VerdictInv

(* The same of a phase that reads files and may give up on them.              *)
LEMMA ReadSays ==
  ASSUME VerdictInv, abandoned \in BOOLEAN, NEW missed, NEW more, Read(missed, more),
         \A f \in more : f.check = "scan-limited" /\ f.severity = "INFO"
  PROVE  /\ VerdictInv'
         /\ Unusable \in findings' <=> Unusable \in findings
         /\ TooOld \in findings' <=> TooOld \in findings
         /\ Nameless \in findings' <=> Nameless \in findings
<1>1. PICK saw \in SUBSET Severities, gap \in BOOLEAN, trips \in BOOLEAN :
        /\ trips => gap
        /\ abandoned' = (abandoned \/ trips)
        /\ Report(saw, missed \cup (IF gap THEN {"files"} ELSE {}),
                  more \cup IF trips THEN {Abandonment} ELSE {})
  BY DEF Read
<1> DEFINE gone == missed \cup (IF gap THEN {"files"} ELSE {})
           said == more \cup IF trips THEN {Abandonment} ELSE {}
<1>2. /\ \A f \in said : f = Abandonment \/ (f.check = "scan-limited" /\ f.severity = "INFO")
      /\ Abandonment \in said => trips
  BY DEF Abandonment, verdict
<1>3. /\ Abandonment \in said => gone # {}
      /\ abandoned' = (abandoned \/ Abandonment \in said)
  BY <1>1, <1>2
<1>4. Report(saw, gone, said)
  BY <1>1
<1> HIDE DEF gone, said
<1> QED
  BY <1>2, <1>3, <1>4, ReportSays

(* A phase before Git's keeps what is said.                                   *)
LEMMA PhaseSays ==
  ASSUME RunInv, SayInv, NEW this \in Phases \ {"git", "report", "exit"},
         NEW next \in Phases \ {"report", "exit"}, Phase(this, next),
         VerdictInv',
         Unusable \in findings' <=> Unusable \in findings,
         TooOld \in findings' <=> TooOld \in findings,
         Nameless \in findings' <=> Nameless \in findings
  PROVE  SayInv'
<1>1. pc = this /\ pc' = next /\ git' = git /\ git = NoGit /\ ~Over' /\ ~(pc' = "exit" \/ Verdict')
  BY DEF Phase, Phases, Over, Verdict, SayInv, GitInv
<1>2. GitSaid'
  BY <1>1 DEF SayInv, GitInv, GitSaid
<1>3. GitInv'
  BY <1>1, <1>2 DEF SayInv, GitInv, NoGit
<1> QED
  BY <1>1, <1>3 DEF SayInv, SummaryInv

(* The verdicts on the Git half that reportGitCoverage returns.               *)
LEMMA CoverageSays ==
  ASSUME NEW version \in Versions, NEW found \in Nat, NEW scanned \in 0..found
  PROVE  LET said == reportGitCoverage(version, found, scanned) IN
           /\ \A f \in said : isCoverageCheck(f.check) /\ Sayable(f) /\ f # Abandonment
           /\ Unusable \in said <=> unusable(found, scanned)
           /\ TooOld \in said <=> version = "old" /\ found > 0
           /\ Nameless \in said <=> version = "legacy" /\ found > 0
           /\ said # {} => found = 0 \/ scanned < found \/ ~gitPathsSupported(version)
           /\ found = 0 => said # {}
           /\ version \in {"garbled", "old", "legacy"} => said # {}
<1> DEFINE said == reportGitCoverage(version, found, scanned)
           share == IF found = 0 THEN {verdict("scan-incomplete", "WARN", "git")}
                    ELSE IF unusable(found, scanned) THEN {Unusable} ELSE {}
<1>1. said = reportGitVersion(version, found) \cup share
  BY DEF reportGitCoverage, Unusable
<1>2. \A f \in share : isCoverageCheck(f.check) /\ Sayable(f) /\ f # Abandonment
  BY DEF isCoverageCheck, Sayable, Mild, Unusable, Abandonment, verdict
<1>3. unusable(found, scanned) => scanned < found /\ found # 0
  BY DEF unusable, GitUnscannableCriticalPercent
<1>4. /\ Unusable \in share <=> unusable(found, scanned)
      /\ TooOld \notin share /\ Nameless \notin share
  BY <1>3 DEF Unusable, TooOld, Nameless, verdict
<1>5. \A f \in reportGitVersion(version, found) :
        isCoverageCheck(f.check) /\ Sayable(f) /\ f # Abandonment /\ f # Unusable
  BY DEF reportGitVersion, versionVerdict, verdict, isCoverageCheck, Sayable, Mild,
         Unusable, TooOld, Nameless, Abandonment, Versions
<1>6. /\ TooOld \in reportGitVersion(version, found) <=> version = "old" /\ found > 0
      /\ Nameless \in reportGitVersion(version, found) <=> version = "legacy" /\ found > 0
  BY DEF reportGitVersion, versionVerdict, verdict, TooOld, Nameless, Versions
<1>7. reportGitVersion(version, found) # {} <=>
        found # 0 /\ version \in {"garbled", "old", "legacy"}
  BY DEF reportGitVersion, Versions
<1>8. share # {} <=> found = 0 \/ unusable(found, scanned)
  BY <1>3
<1> HIDE DEF share
<1>9. said # {} => found = 0 \/ scanned < found \/ ~gitPathsSupported(version)
  BY <1>1, <1>3, <1>7, <1>8 DEF gitPathsSupported
<1>10. /\ found = 0 => said # {}
       /\ version \in {"garbled", "old", "legacy"} => said # {}
  BY <1>1, <1>7, <1>8
<1> QED
  BY <1>1, <1>2, <1>4, <1>5, <1>6, <1>9, <1>10

(* The Git phase counts what it says.                                         *)
LEMMA GitSays == ASSUME RunInv, SayInv, scanGitRepositories PROVE SayInv'
<1>1. /\ abandoned = FALSE /\ abandoned' = FALSE /\ pc = "git" /\ pc' = "report" /\ git = NoGit
      /\ VerdictInv /\ GitInv
  BY DEF RunInv, GapInv, SayInv, GitInv, Phases, scanGitRepositories
<1>2. SummaryInv'
  BY <1>1 DEF SummaryInv, Verdict
<1>3. CASE GitMissing
  <2> DEFINE nothing == {}
             half == {"git"}
  <2>1. /\ Report(nothing, half, nothing) /\ nothing \in SUBSET Severities
        /\ \A f \in nothing : f = Abandonment \/ (f.check = "scan-limited" /\ f.severity = "INFO")
        /\ Abandonment \notin nothing /\ git' = git
    BY <1>3 DEF GitMissing
  <2> HIDE DEF nothing, half
  <2>2. abandoned' = (abandoned \/ Abandonment \in nothing)
    BY <1>1, <2>1
  <2>3. /\ VerdictInv'
        /\ Unusable \in findings' <=> Unusable \in findings
        /\ TooOld \in findings' <=> TooOld \in findings
        /\ Nameless \in findings' <=> Nameless \in findings
    BY <1>1, <2>1, <2>2, ReportSays
  <2>4. GitInv'
    BY <1>1, <2>1, <2>3 DEF GitInv, GitSaid, NoGit, Phases
  <2> QED
    BY <1>2, <2>3, <2>4 DEF SayInv
<1>4. CASE GitCounts
  <2>1. PICK version \in Versions, found \in 0..MaxRepositories, saw \in SUBSET Severities :
          \E scanned \in 0..found :
            /\ git' = [version |-> version, found |-> found, scanned |-> scanned, skipped |-> FALSE]
            /\ gaps' = gaps \cup
                 IF found = 0 \/ scanned < found \/ ~gitPathsSupported(version) THEN {"git"} ELSE {}
            /\ findings' = findings \cup indicators(saw)
                 \cup (IF version = "none" THEN {incomplete("GitPath")} ELSE {})
                 \cup (IF scanned < found THEN {incomplete("repository")} ELSE {})
                 \cup reportGitCoverage(version, found, scanned)
    BY <1>4 DEF GitCounts
  <2>2. PICK scanned \in 0..found :
            /\ git' = [version |-> version, found |-> found, scanned |-> scanned, skipped |-> FALSE]
            /\ gaps' = gaps \cup
                 IF found = 0 \/ scanned < found \/ ~gitPathsSupported(version) THEN {"git"} ELSE {}
            /\ findings' = findings \cup indicators(saw)
                 \cup (IF version = "none" THEN {incomplete("GitPath")} ELSE {})
                 \cup (IF scanned < found THEN {incomplete("repository")} ELSE {})
                 \cup reportGitCoverage(version, found, scanned)
    BY <2>1
  <2> DEFINE said == reportGitCoverage(version, found, scanned)
             missing == (IF version = "none" THEN {incomplete("GitPath")} ELSE {})
                          \cup (IF scanned < found THEN {incomplete("repository")} ELSE {})
             lacking == found = 0 \/ scanned < found \/ ~gitPathsSupported(version)
  <2>3. found \in Nat
    BY RepositoriesBound
  <2>4. /\ \A f \in said : isCoverageCheck(f.check) /\ Sayable(f) /\ f # Abandonment
        /\ Unusable \in said <=> unusable(found, scanned)
        /\ TooOld \in said <=> version = "old" /\ found > 0
        /\ Nameless \in said <=> version = "legacy" /\ found > 0
        /\ said # {} => lacking
        /\ found = 0 => said # {}
        /\ version \in {"garbled", "old", "legacy"} => said # {}
    BY <2>3, CoverageSays
  <2>5. \A f \in indicators(saw) : Mild(f) /\ ~isCoverageCheck(f.check)
    BY DEF indicators, Mild, CriticalIndicator, isCoverageCheck, verdict
  <2>6. \A f \in missing : Mild(f) /\ isCoverageCheck(f.check)
    BY DEF incomplete, verdict, Mild, isCoverageCheck
  <2>7. ~Mild(Abandonment) /\ ~Mild(Unusable) /\ ~Mild(TooOld) /\ ~Mild(Nameless)
    BY DEF Mild, isCoverageCheck, Abandonment, Unusable, TooOld, Nameless, verdict
  <2>8. missing # {} <=> version = "none" \/ scanned < found
    OBVIOUS
  <2>9. findings' = findings \cup indicators(saw) \cup missing \cup said
    BY <2>2
  <2>10. gaps' = gaps \cup IF lacking THEN {"git"} ELSE {}
    BY <2>2
  <2>11. lacking <=> missing # {} \/ said # {}
    BY <2>4, <2>8 DEF gitPathsSupported, Versions
  <2> HIDE DEF said, missing, lacking
  <2>12. VerdictInv'
    <3>1. (\A f \in findings' : Sayable(f)) /\ (Abandonment \in findings' <=> abandoned')
      BY <1>1, <2>4, <2>5, <2>6, <2>7, <2>9 DEF VerdictInv, Sayable
    <3>2. coverage' = {} <=> coverage = {} /\ missing = {} /\ said = {}
      BY <2>4, <2>5, <2>6, <2>9 DEF coverage
    <3>3. gaps' = {} <=> gaps = {} /\ ~lacking
      BY <2>10
    <3> QED
      BY <1>1, <2>11, <3>1, <3>2, <3>3 DEF VerdictInv
  <2>13. Unusable \notin findings /\ TooOld \notin findings /\ Nameless \notin findings
    BY <1>1 DEF GitInv, GitSaid, NoGit, unusable, GitUnscannableCriticalPercent
  <2>14. GitSaid'
    <3>1. /\ Unusable \in findings' <=> Unusable \in said
          /\ TooOld \in findings' <=> TooOld \in said
          /\ Nameless \in findings' <=> Nameless \in said
      BY <2>5, <2>6, <2>7, <2>9, <2>13
    <3> QED
      BY <2>2, <2>4, <3>1 DEF GitSaid
  <2>15. GitInv'
    BY <1>1, <2>2, <2>3, <2>14 DEF GitInv, Phases
  <2> QED
    BY <1>2, <2>12, <2>15 DEF SayInv
<1> QED
  BY <1>3, <1>4 DEF scanGitRepositories

(* What is critical, once the Git half had its say.                           *)
LEMMA CriticalLemma ==
  ASSUME VerdictInv
  PROVE  /\ CriticalIn(observed) <=> CriticalIndicator \in findings
         /\ CriticalIn(coverage) <=>
              \E f \in {Abandonment, Unusable, TooOld, Nameless} : f \in findings
         /\ CriticalIn(findings) <=> CriticalIn(observed) \/ CriticalIn(coverage)
         /\ CriticalIn({f \in findings : f.check = "indicator"}) <=> CriticalIndicator \in findings
<1> USE DEF verdict
<1>1. /\ CriticalIndicator.check = "indicator" /\ CriticalIndicator.severity = "CRITICAL"
      /\ \A f \in {Abandonment, Unusable, TooOld, Nameless} :
           isCoverageCheck(f.check) /\ f.severity = "CRITICAL"
      /\ ~isCoverageCheck("indicator") /\ ~isCoverageCheck("scan-limited")
  BY DEF CriticalIndicator, Abandonment, Unusable, TooOld, Nameless, isCoverageCheck
<1>2. \A f \in findings : f.severity = "CRITICAL" =>
        f = CriticalIndicator \/ f \in {Abandonment, Unusable, TooOld, Nameless}
  BY DEF VerdictInv, Sayable, Mild
<1>3. CriticalIn(observed) <=> CriticalIndicator \in findings
  BY <1>1, <1>2 DEF CriticalIn, observed
<1>4. CriticalIn(coverage) <=>
        \E f \in {Abandonment, Unusable, TooOld, Nameless} : f \in findings
  BY <1>1, <1>2 DEF CriticalIn, coverage
<1>5. CriticalIn(findings) <=> CriticalIn(observed) \/ CriticalIn(coverage)
  BY <1>1, <1>2, <1>3, <1>4 DEF CriticalIn
<1>6. CriticalIn({f \in findings : f.check = "indicator"}) <=> CriticalIndicator \in findings
  BY <1>1, <1>2 DEF CriticalIn
<1> QED
  BY <1>3, <1>4, <1>5, <1>6

(* The summary is computed from the findings as they are at the end.          *)
LEMMA SummarySays == ASSUME RunInv, SayInv, PrintReportSummary PROVE SayInv'
<1>1. /\ UNCHANGED <<findings, gaps, abandoned, git>> /\ pc = "report" /\ pc' = "exit"
      /\ ~Verdict' /\ ~Verdict
  BY DEF PrintReportSummary, scan, RunInv, ExitInv, Verdict
<1>2. /\ CriticalIn(observed) <=> CriticalIndicator \in findings
      /\ CriticalIn(findings) <=> CriticalIn(observed) \/ CriticalIn(coverage)
  BY CriticalLemma DEF SayInv
<1>3. SummaryInv'
  <2>1. /\ summary'.result = IF CriticalIn(observed) THEN "critical-indicators"
                   ELSE IF CriticalIn(coverage) THEN "coverage-failed" ELSE "none-critical"
        /\ summary'.complete = (coverage = {})
        /\ summary'.banners = IF git.skipped THEN {"not-scanned"}
                              ELSE banners(git.version, git.found, git.scanned)
    BY DEF PrintReportSummary
  <2>2. /\ summary'.result # "none-critical" <=> CriticalIn(findings)
        /\ summary'.result = "critical-indicators" <=> CriticalIndicator \in findings
    BY <1>2, <2>1
  <2>3. findings' = findings /\ coverage' = coverage /\ git' = git
    BY <1>1 DEF coverage
  <2>4. CriticalIn(findings') <=> CriticalIn(findings)
    BY <2>3
  <2> QED
    BY <2>1, <2>2, <2>3, <2>4 DEF SummaryInv
<1>4. VerdictInv'
  BY <1>1 DEF SayInv, VerdictInv, coverage
<1>5. GitInv'
  BY <1>1 DEF SayInv, GitInv, GitSaid, Over, Phases
<1> QED
  BY <1>3, <1>4, <1>5 DEF SayInv

(* The steps before the scan and after it add nothing.                        *)
LEMMA SilentSays ==
  ASSUME RunInv, SayInv, UNCHANGED <<findings, gaps, abandoned, git, summary>>,
         pc' \in {"artifacts", "exited", "done"} \cup {pc},
         pc' = "artifacts" => pc = "start" \/ pc = "artifacts",
         pc' = "exit" => pc = "exit",
         Verdict' => pc = "exit" \/ Verdict
  PROVE  SayInv'
<1>1. VerdictInv'
  BY DEF SayInv, VerdictInv, coverage
<1>2. GitInv'
  BY DEF SayInv, GitInv, GitSaid, Over, Phases
<1>3. SummaryInv'
  BY DEF SayInv, SummaryInv, coverage, CriticalIn
<1> QED
  BY <1>1, <1>2, <1>3 DEF SayInv

(* Every step says what it finds and what it misses.                          *)
LEMMA SayStep == ASSUME RunInv, SayInv, [Next]_vars PROVE SayInv'
<1>1. VerdictInv /\ abandoned \in BOOLEAN
  BY DEF SayInv, RunInv, GapInv
<1>2. ASSUME Start PROVE SayInv'
  BY <1>2, SilentSays DEF Start, Exit, scan, Verdict
<1>3. ASSUME checkArtifacts PROVE SayInv'
  <2>1. Read({}, {}) /\ Phase("artifacts", "projects")
    BY <1>3 DEF checkArtifacts
  <2> QED
    BY <1>1, <2>1, ReadSays, PhaseSays DEF Phases
<1>4. ASSUME scanSharedDiscovery PROVE SayInv'
  <2>1. Read({}, {limited("content")}) /\ Phase("projects", "python")
    BY <1>4 DEF scanSharedDiscovery
  <2>2. \A f \in {limited("content")} : f.check = "scan-limited" /\ f.severity = "INFO"
    BY DEF limited, verdict
  <2> QED
    BY <1>1, <2>1, <2>2, ReadSays, PhaseSays DEF Phases
<1>5. ASSUME scanPythonPackages PROVE SayInv'
  <2>1. PICK next \in {"git", "processes"} : Phase("python", next)
    BY <1>5 DEF scanPythonPackages
  <2>2. Read({}, {})
    BY <1>5 DEF scanPythonPackages
  <2> QED
    BY <1>1, <2>1, <2>2, ReadSays, PhaseSays DEF Phases
<1>6. ASSUME checkProcesses PROVE SayInv'
  <2>1. Phase("processes", "network")
    BY <1>6 DEF checkProcesses
  <2>2. /\ VerdictInv'
        /\ Unusable \in findings' <=> Unusable \in findings
        /\ TooOld \in findings' <=> TooOld \in findings
        /\ Nameless \in findings' <=> Nameless \in findings
    <3>1. CASE Report({}, {"processes"}, {}) /\ UNCHANGED abandoned
      <4> DEFINE nothing == {}
                 table == {"processes"}
      <4>1. /\ nothing \in SUBSET Severities /\ Report(nothing, table, nothing)
            /\ \A f \in nothing : f = Abandonment \/ (f.check = "scan-limited" /\ f.severity = "INFO")
            /\ Abandonment \notin nothing
        BY <3>1
      <4> HIDE DEF nothing, table
      <4> QED
        BY <1>1, <3>1, <4>1, ReportSays
    <3>2. ASSUME NEW selfSeen \in BOOLEAN, NEW notices \in {{}, {limited("processes")}},
                 Read(IF selfSeen THEN {} ELSE {"processes"}, notices)
          PROVE  <2>2!:
      <4>1. \A f \in notices : f.check = "scan-limited" /\ f.severity = "INFO"
        BY DEF limited, verdict
      <4> QED
        BY <1>1, <3>2, <4>1, ReadSays
    <3> QED
      BY <1>6, <3>1, <3>2 DEF checkProcesses
  <2> QED
    BY <2>1, <2>2, PhaseSays DEF Phases
<1>7. ASSUME checkNetworkIOCs PROVE SayInv'
  <2>1. PICK saw \in SUBSET {"CRITICAL"}, missed \in SUBSET {"network"} :
          Report(saw, missed, {limited("netstat")})
    BY <1>7 DEF checkNetworkIOCs
  <2> DEFINE more == {limited("netstat")}
  <2>2. /\ saw \in SUBSET Severities /\ Report(saw, missed, more)
        /\ \A f \in more : f = Abandonment \/ (f.check = "scan-limited" /\ f.severity = "INFO")
        /\ Abandonment \notin more
    BY <2>1 DEF limited, verdict, Severities, Abandonment
  <2> HIDE DEF more
  <2>3. abandoned' = (abandoned \/ Abandonment \in more)
    BY <1>1, <1>7, <2>2 DEF checkNetworkIOCs
  <2>4. Phase("network", "git")
    BY <1>7 DEF checkNetworkIOCs
  <2> QED
    BY <1>1, <2>2, <2>3, <2>4, ReportSays, PhaseSays DEF Phases
<1>8. ASSUME SkipGit PROVE SayInv'
  <2>1. /\ UNCHANGED <<findings, abandoned, summary>> /\ abandoned /\ git = NoGit
        /\ git' = [NoGit EXCEPT !.skipped = TRUE] /\ pc' = "report" /\ gaps' # {}
    BY <1>8 DEF SkipGit, SayInv, GitInv, Phases
  <2>2. coverage' = coverage /\ coverage # {}
    <3>1. Abandonment \in coverage
      BY <1>1, <2>1 DEF VerdictInv, coverage, Abandonment, verdict, isCoverageCheck
    <3> QED
      BY <2>1, <3>1 DEF coverage
  <2>3. VerdictInv'
    BY <1>1, <2>1, <2>2 DEF VerdictInv
  <2>4. GitSaid'
    BY <2>1 DEF SayInv, GitInv, GitSaid, NoGit
  <2>5. GitInv' /\ SummaryInv'
    BY <2>1, <2>4 DEF GitInv, NoGit, SummaryInv, Verdict, Phases
  <2> QED
    BY <2>3, <2>5 DEF SayInv
<1>9. ASSUME scanGitRepositories PROVE SayInv'
  BY <1>9, GitSays
<1>10. ASSUME PrintReportSummary PROVE SayInv'
  BY <1>10, SummarySays
<1>11. ASSUME Finish PROVE SayInv'
  BY <1>11, SilentSays DEF Finish, Exit, scan
<1>12. ASSUME Die PROVE SayInv'
  BY <1>12, SilentSays DEF Die, Exit, scan, Verdict
<1>13. ASSUME Notify PROVE SayInv'
  BY <1>13, SilentSays DEF Notify, scan, Verdict
<1>14. CASE UNCHANGED vars
  BY <1>14, SilentSays DEF vars, scan, Verdict
<1> QED
  BY <1>2, <1>3, <1>4, <1>5, <1>6, <1>7, <1>8, <1>9, <1>10, <1>11, <1>12, <1>13, <1>14 DEF Next

(* What the report says follows from what the scan met, in every run          *)
(* (reportGitCoverage, abandonReads, recordIncomplete, PrintReportSummary).   *)
THEOREM SayInvariance == Spec => []SayInv
<1>1. Init => SayInv
  <2>1. SUFFICES ASSUME Init PROVE SayInv
    OBVIOUS
  <2>2. VerdictInv
    BY <2>1 DEF Init, VerdictInv, coverage
  <2>3. GitInv
    BY <2>1 DEF Init, GitInv, GitSaid, NoGit, unusable, GitUnscannableCriticalPercent, Over, Verdict
  <2>4. SummaryInv
    BY <2>1 DEF Init, SummaryInv, Verdict
  <2> QED
    BY <2>2, <2>3, <2>4 DEF SayInv
<1> QED
  BY <1>1, SayStep, Invariance, PTL DEF Spec

(* A completed scan exits 2 for the causes the README gives and for no other  *)
(* (worstSeverityExitCode, reportGitCoverage, abandonReads).                  *)
THEOREM TwoIsAlwaysDeserved == Spec => []TwoIsDeserved
<1>1. RunInv /\ SayInv => TwoIsDeserved
  <2>1. SUFFICES ASSUME RunInv, SayInv, Verdict
                 PROVE  exit.status = 2 <=>
                          \/ CriticalIn({f \in findings : f.check = "indicator"})
                          \/ git.version \in {"old", "legacy"} /\ git.found > 0
                          \/ 4 * (git.found - git.scanned) > git.found
                          \/ abandoned
    BY DEF TwoIsDeserved
  <2>2. exit.status = 2 <=> CriticalIn(findings)
    BY <2>1 DEF RunInv, ExitInv, Verdict, worstSeverityExitCode
  <2>3. CriticalIn(findings) <=>
          \/ CriticalIn({f \in findings : f.check = "indicator"})
          \/ Abandonment \in findings \/ Unusable \in findings
          \/ TooOld \in findings \/ Nameless \in findings
    BY <2>1, CriticalLemma DEF SayInv
  <2>4. Unusable \in findings <=> 4 * (git.found - git.scanned) > git.found
    BY <2>1 DEF SayInv, GitInv, GitSaid, unusable, GitUnscannableCriticalPercent
  <2> QED
    BY <2>1, <2>2, <2>3, <2>4 DEF SayInv, VerdictInv, GitInv, GitSaid
<1> QED
  BY <1>1, Invariance, SayInvariance, PTL

(* The exit status, the summary and its banners tell one story                *)
(* (worstSeverityExitCode, PrintReportSummary, printGitSummary).              *)
THEOREM SummaryAlwaysAgrees == Spec => []SummaryAgrees
<1>1. RunInv /\ SayInv => SummaryAgrees
  <2>1. SUFFICES ASSUME RunInv, SayInv, Verdict PROVE SummaryAgrees
    BY DEF SummaryAgrees
  <2>2. exit.status = 2 <=> CriticalIn(findings)
    BY <2>1 DEF RunInv, ExitInv, Verdict, worstSeverityExitCode
  <2>3. VerdictInv /\ GitInv /\ SummaryInv /\ GitSaid
    BY <2>1 DEF SayInv, GitInv
  <2>4. git.skipped <=> Abandonment \in findings
    BY <2>1, <2>3 DEF VerdictInv, GitInv, Over
  <2>5. /\ "not-scanned" \in summary.banners <=> git.skipped
        /\ "unusable" \in summary.banners <=> unusable(git.found, git.scanned)
        /\ "too-old" \in summary.banners <=> git.version = "old" /\ git.found > 0
        /\ git.version = "legacy" /\ git.found > 0 => "names-missing" \in summary.banners
    <3>1. CASE git.skipped /\ summary.banners = {"not-scanned"}
      <4>1. git.version = "none" /\ git.found = 0 /\ git.scanned = 0
        BY <2>3, <3>1 DEF GitInv
      <4> QED
        BY <3>1, <4>1 DEF unusable, GitUnscannableCriticalPercent
    <3>2. CASE ~git.skipped /\ summary.banners = banners(git.version, git.found, git.scanned)
      BY <3>2 DEF banners
    <3> QED
      BY <2>1, <2>3, <3>1, <3>2 DEF SummaryInv
  <2>6. /\ summary.result # "none-critical" <=> CriticalIn(findings)
        /\ summary.result = "critical-indicators" <=> CriticalIndicator \in findings
        /\ summary.complete <=> gaps = {}
    BY <2>1, <2>3 DEF SummaryInv, VerdictInv
  <2> QED
    BY <2>2, <2>3, <2>4, <2>5, <2>6
    DEF SummaryAgrees, GitSaid, CriticalIndicator, Abandonment, Unusable, TooOld, Nameless
<1> QED
  BY <1>1, Invariance, SayInvariance, PTL
=============================================================================
