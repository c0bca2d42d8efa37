------------------------------ MODULE GitVerdict ------------------------------
(* What a scan concludes from its Git half as a whole, and what its summary   *)
(* says of it (reportGitVersion and reportGitCoverage in internal/scan/git.go,*)
(* printGitSummary in report.go): two places that must tell the same story    *)
(* from the same counters.                                                    *)
EXTENDS Naturals

(* s.stats.GitVersion, as far as it is compared: "none" when it could not be  *)
(* asked, "garbled" when the answer does not parse, "old" before --no-lazy-   *)
(* fetch, "legacy" before object paths.                                       *)
Versions == {"none", "garbled", "old", "legacy", "paths"}

verdict(check, severity, path) == [check |-> check, severity |-> severity, path |-> path]

(* Only a Git that is known to have NUL framing is asked for object paths.    *)
gitPathsSupported(version) == version = "paths"

(* What there is to say of a version that is not what the scan needs.         *)
versionVerdict ==
  [garbled |-> verdict("scan-incomplete", "WARN", "GitPath"),
   old |-> verdict("git-too-old", "CRITICAL", "GitPath"),
   legacy |-> verdict("git-too-old-for-filenames", "CRITICAL", "GitPath")]

(* Mutant: a version that cannot be read is not worth a word.                 *)
reportGitVersion_Silent(version, found) ==
  IF found = 0 \/ version \in {"none", "paths", "garbled"} THEN {} ELSE {versionVerdict[version]}

(* Gated on having found a repository: a machine without one needed no Git.   *)
reportGitVersion(version, found) ==
  IF found = 0 \/ version \in {"none", "paths"} THEN {} ELSE {versionVerdict[version]}

GitUnscannableCriticalPercent == 25

unusable(found, scanned) == (found - scanned) * 100 > found * GitUnscannableCriticalPercent

(* Mutant: a Git half that found nothing to scan says nothing.                *)
reportGitCoverage_NoneIsFine(version, found, scanned) ==
  reportGitVersion(version, found) \cup
    (IF unusable(found, scanned) THEN {verdict("scan-incomplete", "CRITICAL", "git")} ELSE {})

(* The version first, then the share that was lost.                           *)
reportGitCoverage(version, found, scanned) ==
  reportGitVersion(version, found) \cup
    (IF found = 0 THEN {verdict("scan-incomplete", "WARN", "git")}
     ELSE IF unusable(found, scanned) THEN {verdict("scan-incomplete", "CRITICAL", "git")}
     ELSE {})

(* Mutant: compared after rounding, as GitUnscannablePercent prints it.       *)
banners_Rounded(version, found, scanned) ==
  (IF version \in {"garbled", "legacy"} /\ found > 0 THEN {"names-missing"} ELSE {}) \cup
  (IF version = "old" /\ found > 0 THEN {"too-old"} ELSE {}) \cup
  (IF found = 0 THEN {"none-found"}
   ELSE IF ((found - scanned) * 100) \div found >= GitUnscannableCriticalPercent
     THEN {"unusable"} ELSE {})

(* printGitSummary of a Git half that ran: what qualifies its counts.         *)
banners(version, found, scanned) ==
  (IF version \in {"garbled", "legacy"} /\ found > 0 THEN {"names-missing"} ELSE {}) \cup
  (IF version = "old" /\ found > 0 THEN {"too-old"} ELSE {}) \cup
  (IF unusable(found, scanned) THEN {"unusable"} ELSE {}) \cup
  (IF found = 0 THEN {"none-found"} ELSE {})
===============================================================================
