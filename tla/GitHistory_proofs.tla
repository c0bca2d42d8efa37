-------------------------- MODULE GitHistory_proofs --------------------------
(* What the Git half of a scan promises, whatever Git answers and whenever it *)
(* dies, for any repositories, histories and catalog.                         *)
EXTENDS GitHistoryInv, SequenceTheorems, FiniteSetTheorems, TLAPS

(* A step that leaves the list of repositories alone: the scanner moves       *)
(* inside the scan of one, or Git does, and no repository is warned about.    *)
Inside ==
  /\ pc' = pc \/ {pc, pc'} \subseteq Scanning
  /\ UNCHANGED <<version, left, repo, seen, found, scanned, outcome, fixed>>
  /\ findings \subseteq findings'
  /\ \A f \in findings' \ findings : f.check \in {"git-payload-hash", "scan-limited"}
  /\ died' \subseteq Processes

InsideSteps ==
  \/ StartProcesses \/ ReadHeader \/ ReadBody \/ RequestBody \/ BatchFails
  \/ WaitList \/ CloseContents \/ CloseMetadata \/ EndOfStream
  \/ ShallowAnswers \/ StartFails \/ ReadID \/ ReadToken
  \/ MetadataFails \/ PassOver \/ Identify \/ Oversized \/ WantBody
  \/ BatchAnswers \/ ProcessDies \/ Expire \/ UNCHANGED vars

ListSteps ==
  \/ LookPath \/ recordGitVersion \/ NextRepository \/ ReportCoverage
  \/ DiscoveryFails \/ SkipSeen \/ CountRepository \/ ShallowFails \/ Conclude

LEMMA StepLemma == ASSUME [Next]_vars PROVE InsideSteps \/ ListSteps
  BY DEF Next, Own, Git, InsideSteps, ListSteps

LEMMA InsideLemma == ASSUME KindInv, InsideSteps PROVE Inside
<1> USE DEF KindInv, Scanning, fixed, processes, stream, Processes
<1>1. ASSUME StartProcesses \/ RequestBody \/ BatchFails \/ WaitList \/ CloseContents
             \/ CloseMetadata \/ EndOfStream \/ ShallowAnswers \/ StartFails \/ ReadID
             \/ MetadataFails \/ PassOver \/ WantBody \/ ReadHeader
      PROVE  Inside
  BY <1>1 DEF Inside, StartProcesses, RequestBody, BatchFails, WaitList, CloseContents,
     CloseMetadata, EndOfStream, ShallowAnswers, StartFails, ReadID, MetadataFails,
     PassOver, WantBody, ReadHeader, Fail, NextObject, flush, Described
<1>2. ASSUME ReadToken \/ BatchAnswers \/ ProcessDies \/ UNCHANGED vars PROVE Inside
  BY <1>2 DEF Inside, ReadToken, BatchAnswers, ProcessDies, scanner, vars
<1>3. ASSUME Expire PROVE Inside
  BY <1>3 DEF Inside, Expire, scanner, killed
<1>4. ASSUME ReadBody PROVE Inside
  BY <1>4 DEF Inside, ReadBody, PayloadFinding, Finding, NextObject
<1>5. ASSUME Identify PROVE Inside
  BY <1>5 DEF Inside, Identify, PayloadFinding, Finding, NextObject, Described
<1>6. ASSUME Oversized PROVE Inside
  <2>1. /\ {pc, pc'} \subseteq Scanning
        /\ UNCHANGED <<version, left, repo, seen, found, scanned, outcome, fixed, died>>
    BY <1>6 DEF Oversized, NextObject, Described, Fail
  <2> DEFINE limit == Finding("scan-limited", "INFO", repo)
  <2>2. findings' = findings \/ findings' = findings \cup {limit}
    BY <1>6 DEF Oversized
  <2>a. limit.check = "scan-limited"
    BY DEF Finding
  <2> HIDE DEF limit
  <2>3. findings \subseteq findings' /\ \A f \in findings' \ findings : f.check = "scan-limited"
    BY <2>2, <2>a
  <2> QED
    BY <2>1, <2>3 DEF Inside
<1> QED
  BY <1>1, <1>2, <1>3, <1>4, <1>5, <1>6 DEF InsideSteps

-----------------------------------------------------------------------------
(* The list of repositories.                                                  *)
ListPart == KindInv /\ VisitInv /\ SeenInv /\ ListInv /\ CoverInv

LEMMA InsideKeepsList == ASSUME ListPart, Inside PROVE ListPart'
<1> USE DEF ListPart, Inside, fixed
<1>1. KindInv'
  BY DEF KindInv, Scanning
<1>2. /\ pc \in {"lookup", "version", "next", "discover", "done"} \cup Scanning
      /\ pc' \in Visiting <=> pc \in Visiting
      /\ pc' \in Scanning <=> pc \in Scanning
      /\ pc' \in {"lookup", "version"} <=> pc \in {"lookup", "version"}
      /\ pc' = "done" <=> pc = "done"
      /\ Pending' = Pending
  BY DEF KindInv, Visiting, Scanning, Pending
<1>3. VisitInv'
  BY <1>2 DEF VisitInv
<1>4. SeenInv'
  BY <1>2 DEF SeenInv
<1>5. Incomplete' = Incomplete /\ Listed' = Listed
  BY DEF Incomplete, Listed
<1>6. ListInv'
  <2>1. FailuresAreListed = (/\ found = scanned + (IF pc \in Scanning THEN 1 ELSE 0) + Cardinality(Listed)
                             /\ {f.path : f \in Listed} = {p \in Paths : outcome[p] = "failed"})
    BY DEF FailuresAreListed, Listed
  <2>2. FailuresAreListed' = (/\ found' = scanned' + (IF pc' \in Scanning THEN 1 ELSE 0) + Cardinality(Listed')
                             /\ {f.path : f \in Listed'} = {p \in Paths : outcome'[p] = "failed"})
    BY DEF FailuresAreListed, Listed
  <2> QED
    BY <1>2, <1>5, <2>1, <2>2 DEF ListInv
<1>7. CoverInv'
  <2>1. {f \in findings : f.severity # "INFO" /\ f.path \notin Paths} \subseteq
        {f \in findings' : f.severity # "INFO" /\ f.path \notin Paths}
    OBVIOUS
  <2>2. CleanMeansWhole'
    BY <1>2, <1>5, <2>1 DEF CoverInv, CleanMeansWhole
  <2> QED
    BY <1>2, <2>2 DEF CoverInv, gitScanError, Finding
<1> QED
  BY <1>1, <1>3, <1>4, <1>6, <1>7

(* A repository is settled: it leaves the list with something to say of it.   *)
Settle(how) ==
  /\ pc \in Visiting /\ pc' = "next"
  /\ outcome' = [outcome EXCEPT ![repo] = how]
  /\ UNCHANGED <<version, left, repo, seen, discovered, installed, lost, died>>

LEMMA ListLemma == ASSUME KindInv
                   PROVE  /\ left \in Seq(Paths) /\ Len(left) \in Nat /\ DOMAIN left = 1..Len(left)
                          /\ Pending \subseteq Paths
                          /\ \A j \in DOMAIN discovered : discovered[j] \in Paths
<1>1. left \in Seq(Paths) /\ discovered \in Seq(Paths)
  BY RepositoriesAssumption DEF KindInv
<1> QED
  BY <1>1 DEF Pending

LEMMA NextList == ASSUME ListPart, NextRepository
                  PROVE  /\ repo' \in Pending /\ left' \in Seq(Paths)
                         /\ Pending' = Pending \ {repo'}
                         /\ \A j, k \in DOMAIN left' : left'[j] = left'[k] => j = k
<1> DEFINE s == left
           t == Tail(left)
<1>1. s \in Seq(Paths) /\ s # <<>> /\ repo' = Head(s) /\ left' = t
      /\ \A j, k \in DOMAIN s : s[j] = s[k] => j = k
  BY DEF NextRepository, ListPart, KindInv, VisitInv
<1>2. /\ Head(s) = s[1] /\ t \in Seq(Paths) /\ Len(s) \in Nat /\ Len(s) >= 1
      /\ Len(t) = Len(s) - 1 /\ \A k \in 1..Len(t) : t[k] = s[k + 1]
      /\ DOMAIN s = 1..Len(s) /\ DOMAIN t = 1..Len(t)
  BY <1>1
<1> HIDE DEF s, t
<1>3. ASSUME NEW j \in DOMAIN t, NEW k \in DOMAIN t, t[j] = t[k] PROVE j = k
  <2>1. t[j] = s[j + 1] /\ t[k] = s[k + 1] /\ j + 1 \in DOMAIN s /\ k + 1 \in DOMAIN s
        /\ j \in Nat /\ k \in Nat
    BY <1>2
  <2> DEFINE m == j + 1
             n == k + 1
  <2>2. m \in DOMAIN s /\ n \in DOMAIN s /\ s[m] = s[n]
    BY <1>3, <2>1
  <2> HIDE DEF m, n
  <2>3. m = n
    BY <1>1, <2>2
  <2> QED
    BY <2>1, <2>3 DEF m, n
<1>4. {t[k] : k \in DOMAIN t} = {s[k] : k \in DOMAIN s} \ {s[1]}
  <2>1. ASSUME NEW k \in DOMAIN t PROVE t[k] \in {s[m] : m \in DOMAIN s} \ {s[1]}
    BY <1>1, <1>2
  <2>2. ASSUME NEW m \in DOMAIN s, s[m] # s[1] PROVE s[m] \in {t[k] : k \in DOMAIN t}
    <3>1. m - 1 \in DOMAIN t /\ t[m - 1] = s[m]
      BY <2>2, <1>2
    <3> QED
      BY <3>1
  <2> QED
    BY <2>1, <2>2
<1>5. Pending = {s[k] : k \in DOMAIN s} /\ Pending' = {t[k] : k \in DOMAIN t}
  BY <1>1 DEF Pending, s
<1>6. repo' = s[1] /\ s[1] \in Pending
  BY <1>1, <1>2, <1>5
<1> QED
  BY <1>1, <1>2, <1>3, <1>4, <1>5, <1>6

LEMMA SettleVisit == ASSUME ListPart, NEW how \in Outcomes \ {"unvisited"}, Settle(how)
                     PROVE  VisitInv' /\ outcome' \in [Paths -> Outcomes]
<1>1. repo \in Paths \ Pending /\ outcome \in [Paths -> Outcomes]
      /\ pc' \notin Visiting /\ pc' \notin {"lookup", "version"} /\ pc \notin {"lookup", "version"}
      /\ Pending' = Pending /\ Pending \subseteq Paths
  BY ListLemma DEF ListPart, VisitInv, KindInv, Settle, Visiting, Scanning, Pending
<1>2. \A p \in Paths : outcome'[p] = IF p = repo THEN how ELSE outcome[p]
  BY <1>1 DEF Settle
<1>3. \A p \in Pending' : outcome'[p] = "unvisited"
  BY <1>1, <1>2 DEF ListPart, VisitInv
<1>4. \A j \in DOMAIN discovered' :
        outcome'[discovered'[j]] = "unvisited" => discovered'[j] \in Pending'
  BY <1>1, <1>2, ListLemma DEF ListPart, VisitInv, Settle
<1> QED
  BY <1>1, <1>2, <1>3, <1>4 DEF ListPart, VisitInv, Settle

LEMMA SettleSeen == ASSUME ListPart, NEW how \in Outcomes \ {"unvisited"}, Settle(how),
                           how = "skipped" => pc \notin Scanning /\ Common[repo] \in seen
                    PROVE  SeenInv'
<1>1. repo \in Paths /\ outcome[repo] = "unvisited" /\ outcome \in [Paths -> Outcomes]
      /\ seen' = seen
  BY DEF ListPart, VisitInv, KindInv, Settle
<1>2. \A p \in Paths : outcome'[p] = IF p = repo THEN how ELSE outcome[p]
  BY <1>1 DEF Settle
<1>3. ASSUME NEW c \in seen
      PROVE  \E q \in Paths : Common[q] = c /\ outcome'[q] \in {"failed", "scanned"}
  <2>1. ASSUME pc \in Scanning, Common[repo] = c
        PROVE  \E q \in Paths : Common[q] = c /\ outcome'[q] \in {"failed", "scanned"}
    BY <2>1, <1>1, <1>2 DEF Outcomes
  <2>2. ASSUME NEW q \in Paths, Common[q] = c, outcome[q] \in {"failed", "scanned"}
        PROVE  outcome'[q] \in {"failed", "scanned"}
    BY <2>2, <1>1, <1>2
  <2> QED
    BY <2>1, <2>2 DEF ListPart, SeenInv
<1>4. \A p \in Paths : outcome'[p] = "skipped" => Common[p] \in seen
  BY <1>1, <1>2 DEF ListPart, SeenInv
<1> QED
  BY <1>1, <1>3, <1>4 DEF SeenInv

(* The steps of the list, and which of them settle a repository.              *)
LEMMA SettleLemma ==
  ASSUME ListPart
  PROVE  /\ DiscoveryFails \/ ShallowFails => Settle("failed")
         /\ SkipSeen => Settle("skipped") /\ pc \notin Scanning /\ Common[repo] \in seen
         /\ Conclude => Settle(IF result = "ok" THEN "scanned" ELSE "failed")
  BY DEF Settle, DiscoveryFails, ShallowFails, SkipSeen, Conclude, Leave, Visiting, Scanning,
     fixed, processes

LEMMA ListKeepsVisits == ASSUME ListPart, ListSteps PROVE VisitInv' /\ SeenInv'
<1> USE DEF ListPart
<1>1. ASSUME LookPath \/ recordGitVersion \/ ReportCoverage PROVE VisitInv' /\ SeenInv'
  <2>1. /\ UNCHANGED <<left, repo, seen, discovered, outcome>>
        /\ pc \notin Visiting /\ pc' \notin Visiting /\ pc \notin Scanning
        /\ pc' \in {"lookup", "version"} => pc \in {"lookup", "version"}
    BY <1>1 DEF LookPath, recordGitVersion, ReportCoverage, Visiting, Scanning, fixed
  <2> QED
    BY <2>1 DEF VisitInv, SeenInv, Pending
<1>2. ASSUME CountRepository PROVE VisitInv' /\ SeenInv'
  <2>1. /\ UNCHANGED <<left, repo, discovered, outcome>> /\ seen' = seen \cup {Common[repo]}
        /\ pc \in Visiting /\ pc' \in Visiting /\ pc \notin Scanning /\ pc' \in Scanning
        /\ pc' \notin {"lookup", "version"}
    BY <1>2 DEF CountRepository, Visiting, Scanning, fixed
  <2> QED
    BY <2>1 DEF VisitInv, SeenInv, Pending
<1>3. ASSUME NextRepository PROVE VisitInv' /\ SeenInv'
  <2>1. /\ UNCHANGED <<discovered, outcome, seen>> /\ pc \notin Visiting /\ pc' \in Visiting
        /\ pc \notin Scanning /\ pc' \notin {"lookup", "version"}
    BY <1>3 DEF NextRepository, Visiting, Scanning, fixed
  <2>2. Pending \subseteq Paths
    BY ListLemma
  <2>3. VisitInv'
    BY <1>3, <2>1, <2>2, NextList DEF VisitInv
  <2> QED
    BY <2>1, <2>3 DEF SeenInv
<1>4. ASSUME DiscoveryFails \/ ShallowFails PROVE VisitInv' /\ SeenInv'
  BY <1>4, SettleLemma, SettleVisit, SettleSeen DEF Outcomes
<1>5. ASSUME SkipSeen PROVE VisitInv' /\ SeenInv'
  BY <1>5, SettleLemma, SettleVisit, SettleSeen DEF Outcomes
<1>6. ASSUME Conclude PROVE VisitInv' /\ SeenInv'
  <2> DEFINE how == IF result = "ok" THEN "scanned" ELSE "failed"
  <2>1. how \in Outcomes \ {"unvisited"} /\ how # "skipped" /\ Settle(how)
    BY <1>6, SettleLemma DEF Outcomes
  <2> HIDE DEF how
  <2> QED
    BY <2>1, SettleVisit, SettleSeen
<1> QED
  BY <1>1, <1>2, <1>3, <1>4, <1>5, <1>6 DEF ListSteps

(* A repository that is given up is one more warning under its own path.      *)
LEMMA AnotherFailure ==
  ASSUME ListPart, Settle("failed"), UNCHANGED scanned,
         NEW extra, \A f \in extra : f.check # "scan-incomplete",
         findings' = findings \cup {gitScanError(repo)} \cup extra,
         found' = found + (IF pc \in Scanning THEN 0 ELSE 1)
  PROVE  ListInv'
<1> DEFINE w == gitScanError(repo)
<1>1. w.check = "scan-incomplete" /\ w.severity = "WARN" /\ w.path = repo
  BY DEF gitScanError, Finding
<1>2. repo \in Paths /\ outcome[repo] = "unvisited" /\ outcome \in [Paths -> Outcomes]
  BY DEF ListPart, VisitInv, KindInv, Settle
<1>3. findings' = findings \cup {w} \cup extra
  OBVIOUS
<1> HIDE DEF w
<1>4. Listed' = Listed \cup {w}
  BY <1>1, <1>2, <1>3 DEF Listed, Incomplete
<1>5. {f.path : f \in Listed} = {p \in Paths : outcome[p] = "failed"}
      /\ found = scanned + (IF pc \in Scanning THEN 1 ELSE 0) + Cardinality(Listed)
      /\ IsFiniteSet(Listed)
  BY DEF ListPart, ListInv, FailuresAreListed, Listed
<1>6. w \notin Listed
  BY <1>1, <1>2, <1>5
<1>7. IsFiniteSet(Listed') /\ Cardinality(Listed') = Cardinality(Listed) + 1
      /\ Cardinality(Listed) \in Nat
  BY <1>4, <1>5, <1>6, FS_AddElement, FS_CardinalityType
<1>8. {f.path : f \in Listed'} = {p \in Paths : outcome'[p] = "failed"}
  <2>1. \A p \in Paths : outcome'[p] = IF p = repo THEN "failed" ELSE outcome[p]
    BY <1>2 DEF Settle
  <2>2. {f.path : f \in Listed'} = {f.path : f \in Listed} \cup {repo}
    BY <1>1, <1>4
  <2> QED
    BY <1>2, <1>5, <2>1, <2>2
<1>9. found' = scanned' + 0 + Cardinality(Listed')
  BY <1>5, <1>7 DEF ListPart, KindInv
<1>10. pc' \notin Scanning
  BY DEF Settle, Scanning
<1> QED
  BY <1>7, <1>8, <1>9, <1>10 DEF ListInv, FailuresAreListed, Listed

(* A step that leaves the warnings about repositories alone.                  *)
LEMMA SameWarnings ==
  ASSUME ListPart,
         Listed' = Listed,
         \/ UNCHANGED <<found, scanned>> /\ (pc \in Scanning <=> pc' \in Scanning)
         \/ found' = found + 1 /\ UNCHANGED scanned /\ pc \notin Scanning /\ pc' \in Scanning
         \/ scanned' = scanned + 1 /\ UNCHANGED found /\ pc \in Scanning /\ pc' \notin Scanning,
         \A p \in Paths : outcome'[p] = "failed" <=> outcome[p] = "failed"
  PROVE  ListInv'
<1>1. {f.path : f \in Listed} = {p \in Paths : outcome[p] = "failed"}
      /\ found = scanned + (IF pc \in Scanning THEN 1 ELSE 0) + Cardinality(Listed)
      /\ IsFiniteSet(Listed) /\ Cardinality(Listed) \in Nat
  BY FS_CardinalityType DEF ListPart, ListInv, FailuresAreListed, Listed
<1>2. found' = scanned' + (IF pc' \in Scanning THEN 1 ELSE 0) + Cardinality(Listed')
  <2> DEFINE c == Cardinality(Listed)
  <2>1. found \in Nat /\ scanned \in Nat /\ c \in Nat /\ Cardinality(Listed') = c
    BY <1>1 DEF ListPart, KindInv
  <2>2. found = scanned + (IF pc \in Scanning THEN 1 ELSE 0) + c
    BY <1>1
  <2> HIDE DEF c
  <2>3. found' = scanned' + (IF pc' \in Scanning THEN 1 ELSE 0) + c
    BY <2>1, <2>2
  <2> QED
    BY <2>1, <2>3
<1>3. {f.path : f \in Listed'} = {p \in Paths : outcome'[p] = "failed"}
  BY <1>1
<1> QED
  BY <1>1, <1>2, <1>3 DEF ListInv, FailuresAreListed, Listed

LEMMA Elsewhere == gitScanError("git") \notin Listed' /\ gitScanError("GitPath") \notin Listed'
  BY RepositoriesAssumption DEF gitScanError, Finding, Listed

LEMMA ListKeepsCounts == ASSUME ListPart, ListSteps PROVE ListInv' /\ found' \in Nat /\ scanned' \in Nat
<1> USE DEF ListPart
<1>0. found \in Nat /\ scanned \in Nat /\ outcome \in [Paths -> Outcomes]
  BY DEF KindInv
<1>1. ASSUME LookPath \/ recordGitVersion PROVE ListInv' /\ found' \in Nat /\ scanned' \in Nat
  <2>1. /\ UNCHANGED <<found, scanned, outcome>> /\ pc \notin Scanning /\ pc' \notin Scanning
        /\ \/ findings' = findings \/ findings' = findings \cup {gitScanError("git")}
           \/ findings' = findings \cup {gitScanError("GitPath")}
    BY <1>1 DEF LookPath, recordGitVersion, Scanning
  <2>2. Listed' = Listed
    BY <2>1, Elsewhere DEF Listed, Incomplete
  <2> QED
    BY <1>0, <2>1, <2>2, SameWarnings
<1>2. ASSUME NextRepository PROVE ListInv' /\ found' \in Nat /\ scanned' \in Nat
  <2>1. UNCHANGED <<found, scanned, outcome, findings>> /\ pc \notin Scanning /\ pc' \notin Scanning
    BY <1>2 DEF NextRepository, Scanning
  <2>2. Listed' = Listed
    BY <2>1 DEF Listed, Incomplete
  <2> QED
    BY <1>0, <2>1, <2>2, SameWarnings
<1>3. ASSUME ReportCoverage PROVE ListInv' /\ found' \in Nat /\ scanned' \in Nat
  <2>1. UNCHANGED <<found, scanned, outcome>> /\ pc \notin Scanning /\ pc' \notin Scanning
    BY <1>3 DEF ReportCoverage, Scanning
  <2>2. \A v \in reportGitCoverage(version, found, scanned) : v.path \in {"git", "GitPath"}
    BY DEF reportGitCoverage, reportGitVersion, versionVerdict, verdict, KindInv, Versions
  <2> DEFINE V == reportGitCoverage(version, found, scanned)
             told == {Finding(v.check, v.severity, v.path) : v \in V}
  <2>3. findings' = findings \cup told
    BY <1>3 DEF ReportCoverage
  <2>a. \A v \in V : v.path \notin Paths
    BY <2>2, RepositoriesAssumption
  <2>b. \A v : Finding(v.check, v.severity, v.path).path = v.path
    BY DEF Finding
  <2> HIDE DEF V
  <2>4. \A f \in told : f.path \notin Paths
    BY <2>a, <2>b
  <2> HIDE DEF told
  <2>5. Listed' = Listed
    BY <2>3, <2>4 DEF Listed, Incomplete
  <2> QED
    BY <1>0, <2>1, <2>5, SameWarnings
<1>4. ASSUME CountRepository PROVE ListInv' /\ found' \in Nat /\ scanned' \in Nat
  <2>1. /\ UNCHANGED <<scanned, outcome, findings>> /\ found' = found + 1
        /\ pc \notin Scanning /\ pc' \in Scanning
    BY <1>4 DEF CountRepository, Scanning
  <2>2. Listed' = Listed
    BY <2>1 DEF Listed, Incomplete
  <2> QED
    BY <1>0, <2>1, <2>2, SameWarnings
<1>5. ASSUME SkipSeen PROVE ListInv' /\ found' \in Nat /\ scanned' \in Nat
  <2>1. /\ UNCHANGED <<found, scanned, findings>>
        /\ pc \notin Scanning /\ pc' \notin Scanning
        /\ outcome' = [outcome EXCEPT ![repo] = "skipped"]
    BY <1>5 DEF SkipSeen, Scanning, Leave
  <2>2. Listed' = Listed
    BY <2>1 DEF Listed, Incomplete
  <2>3. repo \in Paths /\ outcome[repo] = "unvisited"
    BY <1>5, SettleLemma DEF VisitInv, Settle
  <2>4. \A p \in Paths : outcome'[p] = "failed" <=> outcome[p] = "failed"
    BY <1>0, <2>1, <2>3
  <2> QED
    BY <1>0, <2>1, <2>2, <2>4, SameWarnings
<1>6. ASSUME DiscoveryFails \/ ShallowFails PROVE ListInv' /\ found' \in Nat /\ scanned' \in Nat
  <2>1. /\ scanned' = scanned /\ findings' = findings \cup {gitScanError(repo)} \cup {}
        /\ found' = found + (IF pc \in Scanning THEN 0 ELSE 1)
    BY <1>0, <1>6 DEF DiscoveryFails, ShallowFails, Scanning
  <2>2. \A f \in {} : f.check # "scan-incomplete"
    OBVIOUS
  <2> DEFINE none == {}
  <2> HIDE DEF none
  <2>3. /\ findings' = findings \cup {gitScanError(repo)} \cup none
        /\ \A f \in none : f.check # "scan-incomplete"
    BY <2>1, <2>2 DEF none
  <2> QED
    BY <1>0, <1>6, <2>1, <2>3, SettleLemma, AnotherFailure
<1>7. ASSUME Conclude PROVE ListInv' /\ found' \in Nat /\ scanned' \in Nat
  <2> DEFINE told == flushed
  <2>1. \A f \in told : f.check # "scan-incomplete"
    BY DEF flushed
  <2>2. ASSUME result = "ok" PROVE ListInv' /\ found' \in Nat /\ scanned' \in Nat
    <3>1. /\ found' = found /\ scanned' = scanned + 1 /\ findings' = findings \cup told
          /\ outcome' = [outcome EXCEPT ![repo] = "scanned"]
          /\ pc \in Scanning /\ pc' \notin Scanning
      BY <1>7, <2>2 DEF Conclude, Leave, Scanning
    <3> HIDE DEF told
    <3>2. Listed' = Listed
      BY <2>1, <3>1 DEF Listed, Incomplete
    <3>3. repo \in Paths /\ outcome[repo] = "unvisited"
      BY <1>7, SettleLemma DEF VisitInv, Settle
    <3>4. \A p \in Paths : outcome'[p] = "failed" <=> outcome[p] = "failed"
      BY <1>0, <3>1, <3>3
    <3> QED
      BY <1>0, <3>1, <3>2, <3>4, SameWarnings
  <2>3. ASSUME result # "ok" PROVE ListInv' /\ found' \in Nat /\ scanned' \in Nat
    <3>1. /\ found' = found /\ scanned' = scanned
          /\ findings' = findings \cup {gitScanError(repo)} \cup told
          /\ pc \in Scanning
      BY <1>7, <2>3 DEF Conclude, Scanning
    <3> HIDE DEF told
    <3>2. Settle("failed") /\ found' = found + (IF pc \in Scanning THEN 0 ELSE 1)
      BY <1>0, <1>7, <2>3, <3>1, SettleLemma
    <3> QED
      BY <1>0, <2>1, <3>1, <3>2, AnotherFailure
  <2> QED
    BY <2>2, <2>3
<1> QED
  BY <1>1, <1>2, <1>3, <1>4, <1>5, <1>6, <1>7 DEF ListSteps

(* What reportGitCoverage adds unless every repository can be vouched for.    *)
LEMMA VerdictLemma ==
  ASSUME KindInv, ReportCoverage
  PROVE  /\ findings \subseteq findings'
         /\ found = 0 \/ version \notin {"none", "paths"} =>
              \E f \in findings' : f.severity # "INFO" /\ f.path \notin Paths
<1> DEFINE V == reportGitCoverage(version, found, scanned)
           F(v) == Finding(v.check, v.severity, v.path)
<1>1. findings' = findings \cup {F(v) : v \in V}
  BY DEF ReportCoverage
<1>2. \A v : F(v).path = v.path /\ F(v).severity = v.severity
  BY DEF Finding
<1>3. ASSUME found = 0 PROVE verdict("scan-incomplete", "WARN", "git") \in V
  BY <1>3 DEF reportGitCoverage
<1>4. ASSUME found # 0, version \notin {"none", "paths"}
      PROVE  versionVerdict[version] \in V /\ versionVerdict[version].path = "GitPath"
             /\ versionVerdict[version].severity # "INFO"
  BY <1>4 DEF reportGitCoverage, reportGitVersion, KindInv, Versions, versionVerdict, verdict
<1>5. "git" \notin Paths /\ "GitPath" \notin Paths
  BY RepositoriesAssumption
<1> HIDE DEF V, F
<1>6. ASSUME NEW v \in V, v.path \in {"git", "GitPath"}, v.severity # "INFO"
      PROVE  \E f \in findings' : f.severity # "INFO" /\ f.path \notin Paths
  <2>1. F(v) \in findings' /\ F(v).path = v.path /\ F(v).severity = v.severity
    BY <1>1, <1>2
  <2> QED
    BY <2>1, <1>5, <1>6
<1>7. verdict("scan-incomplete", "WARN", "git").path = "git"
      /\ verdict("scan-incomplete", "WARN", "git").severity # "INFO"
  BY DEF verdict
<1> QED
  BY <1>1, <1>3, <1>4, <1>6, <1>7

LEMMA ListKeepsCover == ASSUME ListPart, ListSteps PROVE CoverInv'
<1> USE DEF ListPart
<1>a. pc \in {"lookup", "version", "next", "discover", "done"} \cup Scanning /\ found \in Nat
  BY DEF KindInv
<1>b. /\ gitScanError("git").path = "git" /\ gitScanError("git").severity = "WARN"
      /\ gitScanError("git").check = "scan-incomplete"
      /\ gitScanError("GitPath").path = "GitPath" /\ gitScanError("GitPath").severity = "WARN"
      /\ gitScanError("GitPath").check = "scan-incomplete"
  BY DEF gitScanError, Finding
<1>c. discovered' = discovered
  BY DEF ListSteps, LookPath, recordGitVersion, NextRepository, ReportCoverage, DiscoveryFails,
     SkipSeen, CountRepository, ShallowFails, Conclude, fixed
<1>d. findings \subseteq findings'
  <2>1. ASSUME LookPath \/ recordGitVersion \/ NextRepository \/ DiscoveryFails \/ SkipSeen
               \/ CountRepository \/ ShallowFails \/ Conclude
        PROVE  findings \subseteq findings'
    BY <2>1 DEF LookPath, recordGitVersion, NextRepository, DiscoveryFails, SkipSeen,
       CountRepository, ShallowFails, Conclude
  <2> QED
    BY <2>1, VerdictLemma DEF ListSteps
<1>1. found' > 0 \/ left' # <<>> \/ pc' \in Visiting => discovered' # <<>>
  <2>1. ASSUME LookPath \/ recordGitVersion \/ ReportCoverage
        PROVE  found' = found /\ left' = left /\ pc' \notin Visiting
    BY <2>1 DEF LookPath, recordGitVersion, ReportCoverage, Visiting, Scanning
  <2>2. ASSUME NextRepository PROVE left # <<>>
    BY <2>2 DEF NextRepository
  <2>3. ASSUME DiscoveryFails \/ SkipSeen \/ CountRepository \/ ShallowFails \/ Conclude
        PROVE  pc \in Visiting
    BY <2>3 DEF DiscoveryFails, SkipSeen, CountRepository, ShallowFails, Conclude, Visiting, Scanning
  <2> QED
    BY <1>c, <2>1, <2>2, <2>3 DEF ListSteps, CoverInv
<1>2. pc' \notin {"lookup", "version"} /\ version' = "none" =>
        gitScanError("git") \in findings' \/ gitScanError("GitPath") \in findings'
  <2>1. ASSUME LookPath
        PROVE  pc' \in {"lookup", "version"} \/ gitScanError("git") \in findings'
    BY <2>1 DEF LookPath
  <2>2. ASSUME recordGitVersion
        PROVE  version' # "none" \/ gitScanError("GitPath") \in findings'
    BY <2>2 DEF recordGitVersion, KindInv
  <2>3. ASSUME NextRepository \/ ReportCoverage \/ DiscoveryFails \/ SkipSeen
               \/ CountRepository \/ ShallowFails \/ Conclude
        PROVE  version' = version /\ pc \notin {"lookup", "version"}
    BY <2>3 DEF NextRepository, ReportCoverage, DiscoveryFails, SkipSeen, CountRepository,
       ShallowFails, Conclude
  <2> QED
    BY <1>d, <2>1, <2>2, <2>3 DEF ListSteps, CoverInv
<1>3. CleanMeansWhole'
  <2>1. ASSUME LookPath, pc' = "done" PROVE Incomplete' # {}
    BY <2>1, <1>b DEF LookPath, Incomplete
  <2>2. ASSUME ReportCoverage,
               {f \in findings' : f.severity # "INFO" /\ f.path \notin Paths} = {},
               Incomplete' = {}
        PROVE  /\ discovered' # <<>> /\ gitPathsSupported(version')
               /\ \A j \in DOMAIN discovered' : \E q \in Paths :
                    Common[q] = Common[discovered'[j]] /\ outcome'[q] = "scanned"
    <3>1. found # 0 /\ version \in {"none", "paths"}
      BY <2>2, VerdictLemma
    <3>2. Incomplete \subseteq Incomplete'
      BY <1>d DEF Incomplete
    <3>3. version # "none"
      <4>1. pc \notin {"lookup", "version"}
        BY <2>2 DEF ReportCoverage
      <4> QED
        BY <2>2, <3>2, <4>1, <1>b DEF CoverInv, Incomplete
    <3>4. UNCHANGED <<version, outcome, discovered>> /\ left = <<>> /\ pc = "next"
      BY <2>2 DEF ReportCoverage, fixed
    <3>5. \A p \in Paths : outcome[p] # "failed"
      BY <2>2, <3>2 DEF ListInv, FailuresAreListed
    <3>6. Pending = {} /\ pc \notin Visiting /\ pc \notin Scanning
      <4>1. DOMAIN left = {}
        BY <3>4
      <4> QED
        BY <3>4, <4>1 DEF Pending, Visiting, Scanning
    <3>7. ASSUME NEW j \in DOMAIN discovered
          PROVE  \E q \in Paths : Common[q] = Common[discovered[j]] /\ outcome[q] = "scanned"
      <4> DEFINE p == discovered[j]
      <4>1. p \in Paths /\ outcome[p] \in {"skipped", "scanned"}
        <5>1. p \in Paths /\ outcome[p] \in Outcomes
          BY ListLemma DEF KindInv
        <5> QED
          BY <5>1, <3>5, <3>6 DEF VisitInv, Outcomes
      <4>2. ASSUME outcome[p] = "skipped"
            PROVE  \E q \in Paths : Common[q] = Common[p] /\ outcome[q] = "scanned"
        BY <4>1, <4>2, <3>5, <3>6 DEF SeenInv
      <4> QED
        BY <4>1, <4>2
    <3> QED
      BY <1>a, <3>1, <3>3, <3>4, <3>7 DEF CoverInv, gitPathsSupported
  <2>3. ASSUME recordGitVersion \/ NextRepository \/ DiscoveryFails \/ SkipSeen
               \/ CountRepository \/ ShallowFails \/ Conclude
        PROVE  pc' # "done"
    BY <2>3 DEF recordGitVersion, NextRepository, DiscoveryFails, SkipSeen,
       CountRepository, ShallowFails, Conclude, Leave
  <2> QED
    BY <2>1, <2>2, <2>3 DEF ListSteps, CleanMeansWhole
<1> QED
  BY <1>1, <1>2, <1>3 DEF CoverInv

LEMMA ListKeepsKinds == ASSUME ListPart, ListSteps PROVE KindInv'
<1> USE DEF ListPart
<1>1. found' \in Nat /\ scanned' \in Nat
  BY ListKeepsCounts
<1>2. ASSUME LookPath \/ recordGitVersion \/ CountRepository \/ ReportCoverage PROVE KindInv'
  <2>1. /\ UNCHANGED <<installed, discovered, left, repo, lost, died, outcome>>
        /\ pc' \in {"done", "version", "next", "shallow"}
        /\ pc' = "version" => installed # "none"
    BY <1>2 DEF LookPath, recordGitVersion, CountRepository, ReportCoverage, processes, fixed
  <2>2. version' \in Versions
    BY <1>2 DEF KindInv, LookPath, recordGitVersion, CountRepository, ReportCoverage, Versions
  <2> QED
    BY <1>1, <2>1, <2>2 DEF KindInv, Scanning
<1>3. ASSUME NextRepository PROVE KindInv'
  BY <1>1, <1>3, NextList, ListLemma DEF KindInv, NextRepository, fixed, Processes
<1>4. ASSUME NEW how \in Outcomes \ {"unvisited"}, Settle(how) PROVE KindInv'
  <2>1. outcome' \in [Paths -> Outcomes]
    BY <1>4, SettleVisit
  <2> QED
    BY <1>1, <1>4, <2>1 DEF KindInv, Settle, Scanning
<1>5. ASSUME DiscoveryFails \/ ShallowFails \/ SkipSeen PROVE KindInv'
  BY <1>4, <1>5, SettleLemma DEF Outcomes
<1>6. ASSUME Conclude PROVE KindInv'
  <2> DEFINE how == IF result = "ok" THEN "scanned" ELSE "failed"
  <2>1. how \in Outcomes \ {"unvisited"} /\ Settle(how)
    BY <1>6, SettleLemma DEF Outcomes
  <2> HIDE DEF how
  <2> QED
    BY <1>4, <2>1
<1> QED
  BY <1>2, <1>3, <1>5, <1>6 DEF ListSteps

LEMMA ListStepKeepsList == ASSUME ListPart, ListSteps PROVE ListPart'
  BY ListKeepsKinds, ListKeepsVisits, ListKeepsCounts, ListKeepsCover DEF ListPart

-----------------------------------------------------------------------------
(* The walk of one repository's history.                                      *)
LEMMA OrderLemma ==
  ASSUME repo \in Paths
  PROVE  /\ Order \in Seq(Objects) /\ Len(Order) \in Nat /\ DOMAIN Order = 1..Len(Order)
         /\ \A k \in 1..Len(Order) : Order[k] \in Objects /\ Order[k] # NoObject
         /\ \A j, k \in 1..Len(Order) : Order[j] = Order[k] => j = k
<1>1. Common[repo] \in Commons
  BY RepositoriesAssumption
<1>2. Order \in Seq(Objects) /\ \A j, k \in DOMAIN Order : Order[j] = Order[k] => j = k
  BY <1>1, ObjectsAssumption DEF Order
<1> HIDE DEF Order
<1>3. NoObject \notin Objects
  BY ObjectsAssumption
<1> QED
  BY <1>2, <1>3

LEMMA RepoLemma == ASSUME ListPart, pc \in Scanning PROVE repo \in Paths
  BY DEF ListPart, VisitInv, Visiting

LEMMA StreamingLemma == pc \in Streaming => pc \in Scanning
  BY DEF Streaming, Scanning

(* What the record just completed leaves to be done.                          *)
Opened ==
  \/ /\ walk.announced = 0 \/ (walk.absent /\ walk'.missing > 0)
     /\ pc' = IF walk'.ended THEN "wait" ELSE "walk"
  \/ /\ walk.announced > 0 /\ ~walk.absent /\ pc' = "check"
     /\ current'.id = Order[walk.announced] /\ current'.path = walk.path

LEMMA ReadIDLemma ==
  ASSUME ListPart, WalkInv, ReadID
  PROVE  /\ walk' \in Walks /\ walk'.announced = walk.announced + 1
         /\ walk'.announced <= Len(Order) /\ ~walk'.ended
         /\ walk'.id = Order[walk'.announced] /\ walk'.id # NoObject
         /\ walk'.missing = walk.missing + IF walk.absent THEN 1 ELSE 0
         /\ walk'.told = ~HasToken(walk'.id)
         /\ walk'.absent = (~gitPathsSupported(version) /\ walk'.id \in lost)
         /\ walk.told /\ walk.announced \in Nat
         /\ Opened
<1>1. repo \in Paths /\ pc \in Streaming /\ pc = "walk"
  BY RepoLemma, StreamingLemma DEF ReadID, Streaming
<1>2. /\ walk \in Walks /\ ~walk.ended
      /\ walk.id = IF walk.announced = 0 THEN NoObject ELSE Order[walk.announced]
      /\ walk.told /\ walk.announced < Len(Order)
  BY <1>1 DEF WalkInv, ReadID
<1> DEFINE a == walk.announced
           id == Order[a + 1]
           next == [walk EXCEPT !.announced = @ + 1, !.id = id, !.path = FALSE,
                                !.told = ~HasToken(id),
                                !.absent = ~gitPathsSupported(version) /\ id \in lost]
<1>3. flush(next)
  BY DEF ReadID
<1>4. /\ a \in Nat /\ a + 1 \in 1..Len(Order) /\ id \in Objects /\ id # NoObject
      /\ a > 0 => Order[a] # NoObject
  BY <1>1, <1>2, OrderLemma DEF Walks
<1>5. HasToken(id) \in BOOLEAN /\ gitPathsSupported(version) \in BOOLEAN
  BY DEF HasToken, gitPathsSupported
<1>6. walk' = [next EXCEPT !.missing = walk.missing + IF walk.absent THEN 1 ELSE 0]
  BY <1>3 DEF flush
<1>7. /\ walk' \in Walks /\ walk'.announced = a + 1 /\ walk'.id = id
      /\ walk'.ended = walk.ended /\ walk'.told = ~HasToken(id)
      /\ walk'.missing = walk.missing + IF walk.absent THEN 1 ELSE 0
      /\ walk'.absent = (~gitPathsSupported(version) /\ id \in lost)
  <2> DEFINE n == a + 1
             m == walk.missing + IF walk.absent THEN 1 ELSE 0
             t == ~HasToken(id)
             b == ~gitPathsSupported(version) /\ id \in lost
  <2>1. m \in Nat /\ t \in BOOLEAN /\ b \in BOOLEAN /\ n \in Nat
        /\ id \in Objects \cup {NoObject} /\ walk \in Walks
    BY <1>2, <1>4, <1>5 DEF Walks
  <2>2. walk' = [walk EXCEPT !.announced = n, !.id = id, !.path = FALSE, !.told = t,
                             !.absent = b, !.missing = m]
    BY <1>6
  <2> HIDE DEF id, n, m, t, b
  <2>3. /\ walk' \in Walks /\ walk'.announced = n /\ walk'.id = id /\ walk'.told = t
        /\ walk'.absent = b /\ walk'.missing = m /\ walk'.ended = walk.ended
    BY <2>1, <2>2 DEF Walks
  <2> QED
    BY <2>3 DEF n, m, t, b
<1>8. Opened
  <2>1. next.ended = walk.ended /\ walk'.ended = walk.ended
    BY <1>2, <1>7 DEF Walks
  <2> HIDE DEF next
  <2>2. IF walk.id = NoObject \/ walk.absent
          THEN pc' = IF walk'.ended THEN "wait" ELSE "walk"
          ELSE pc' = "check" /\ current' = [id |-> walk.id, path |-> walk.path]
    BY <1>3, <2>1 DEF flush
  <2>3. walk.absent => walk'.missing > 0
    BY <1>2, <1>7 DEF Walks
  <2> QED
    BY <1>2, <1>4, <2>2, <2>3 DEF Opened
<1> QED
  BY <1>2, <1>4, <1>7, <1>8

LEMMA EndOfStreamLemma ==
  ASSUME ListPart, WalkInv, EndOfStream
  PROVE  /\ walk' \in Walks /\ walk'.announced = walk.announced /\ walk'.announced <= Len(Order)
         /\ walk'.ended /\ walk'.id = NoObject /\ ~walk'.absent
         /\ walk'.missing = walk.missing + IF walk.absent THEN 1 ELSE 0
         /\ "list" \in died \/ (walk.told /\ walk.announced = Len(Order))
         /\ walk.announced \in Nat
         /\ Opened
<1>1. repo \in Paths /\ pc \in Streaming /\ pc = "walk"
  BY RepoLemma, StreamingLemma DEF EndOfStream, Streaming
<1>2. /\ walk \in Walks /\ ~walk.ended /\ walk.announced <= Len(Order)
      /\ walk.id = IF walk.announced = 0 THEN NoObject ELSE Order[walk.announced]
  BY <1>1 DEF WalkInv
<1> DEFINE next == [walk EXCEPT !.id = NoObject, !.absent = FALSE, !.ended = TRUE]
<1>3. flush(next) /\ ("list" \in died \/ (walk.told /\ walk.announced = Len(Order)))
  BY DEF EndOfStream
<1>4. walk.announced \in Nat /\ (walk.announced > 0 => Order[walk.announced] # NoObject)
  BY <1>1, <1>2, OrderLemma DEF Walks
<1>5. walk' = [next EXCEPT !.missing = walk.missing + IF walk.absent THEN 1 ELSE 0]
      /\ next.ended
  BY <1>2, <1>3 DEF flush, Walks
<1>6. /\ walk' \in Walks /\ walk'.announced = walk.announced /\ walk'.id = NoObject
      /\ walk'.ended /\ ~walk'.absent /\ next.ended
      /\ walk'.missing = walk.missing + IF walk.absent THEN 1 ELSE 0
  <2> DEFINE m == walk.missing + IF walk.absent THEN 1 ELSE 0
  <2>1. m \in Nat
    BY <1>2 DEF Walks
  <2>2. walk' = [walk EXCEPT !.id = NoObject, !.absent = FALSE, !.ended = TRUE, !.missing = m]
    BY <1>5
  <2> HIDE DEF m
  <2>3. /\ walk' \in Walks /\ walk'.announced = walk.announced /\ walk'.id = NoObject
        /\ walk'.absent = FALSE /\ walk'.missing = m /\ walk'.ended = TRUE
    BY <1>2, <2>1, <2>2 DEF Walks
  <2> QED
    BY <2>3, <1>5 DEF m
<1>7. Opened
  <2> HIDE DEF next
  <2>1. IF walk.id = NoObject \/ walk.absent
          THEN pc' = IF walk'.ended THEN "wait" ELSE "walk"
          ELSE pc' = "check" /\ current' = [id |-> walk.id, path |-> walk.path]
    BY <1>3, <1>6 DEF flush
  <2>2. walk.absent => walk'.missing > 0
    BY <1>2, <1>6 DEF Walks
  <2> QED
    BY <1>2, <1>4, <2>1, <2>2 DEF Opened
<1> QED
  BY <1>2, <1>3, <1>4, <1>6, <1>7

(* A record is completed: one more object has its whole record.               *)
LEMMA FlushLemma ==
  ASSUME ListPart, WalkInv, ReadID \/ EndOfStream
  PROVE  /\ pc \in Streaming /\ pc \notin Holding /\ repo \in Paths
         /\ walk \in Walks /\ walk.announced \in 0..Len(Order) /\ ~walk.ended
         /\ walk.id = IF walk.announced = 0 THEN NoObject ELSE Order[walk.announced]
         /\ Flushed' = walk.announced
         /\ Flushed = IF walk.announced = 0 THEN 0 ELSE walk.announced - 1
         /\ Opened
         /\ Handled = Flushed
         /\ Handled' = IF pc' = "check" THEN walk.announced - 1 ELSE walk.announced
         /\ walk.absent => Order[walk.announced] \in lost
         /\ UNCHANGED <<repo, lost, version, asked, pipe, died, examined, result, gitHistory, trouble>>
<1>1. pc = "walk" /\ UNCHANGED <<repo, lost, version, asked, pipe, died, examined, result, gitHistory, trouble>>
  BY DEF ReadID, EndOfStream, processes, fixed
<1>2. pc \in Streaming /\ pc \notin Holding /\ repo \in Paths
  BY <1>1, RepoLemma, StreamingLemma DEF Streaming, Holding
<1>3. /\ walk \in Walks /\ ~walk.ended /\ walk.announced \in Nat /\ walk.announced <= Len(Order)
      /\ walk.id = IF walk.announced = 0 THEN NoObject ELSE Order[walk.announced]
      /\ walk.absent => walk.id \in lost
  BY <1>1, <1>2 DEF WalkInv, Walks
<1>4. Opened
  BY ReadIDLemma, EndOfStreamLemma
<1>5. NoObject \notin lost
  BY ObjectsAssumption DEF ListPart, KindInv
<1>6. walk.announced > 0 => Order[walk.announced] # NoObject
  BY <1>2, <1>3, OrderLemma
<1>7. Flushed' = walk.announced
  <2>1. ASSUME ReadID PROVE Flushed' = walk.announced
    <3>1. walk'.announced = walk.announced + 1 /\ walk'.id # NoObject
      BY <2>1, ReadIDLemma
    <3> QED
      BY <3>1, <1>3 DEF Flushed
  <2>2. ASSUME EndOfStream PROVE Flushed' = walk.announced
    <3>1. walk'.announced = walk.announced /\ walk'.id = NoObject
      BY <2>2, EndOfStreamLemma
    <3> QED
      BY <3>1 DEF Flushed
  <2> QED
    BY <2>1, <2>2
<1>8. Flushed = IF walk.announced = 0 THEN 0 ELSE walk.announced - 1
  BY <1>3, <1>6 DEF Flushed
<1>9. Handled = Flushed /\ Handled' = IF pc' = "check" THEN walk.announced - 1 ELSE walk.announced
  BY <1>2, <1>4, <1>7 DEF Handled, Holding, Opened
<1>10. Len(Order) \in Nat
  BY <1>2, OrderLemma
<1> QED
  BY <1>1, <1>2, <1>3, <1>4, <1>5, <1>7, <1>8, <1>9, <1>10

(* What the steps are to the walk: they end it, begin it, read on in the      *)
(* stream, turn to the next object, go on with the one in hand, or do neither.*)
SameWalk == UNCHANGED <<walk, current, lost, repo, version>>
Finish == pc \in Holding /\ NextObject /\ SameWalk
GoOn == pc \in Holding /\ pc' \in Reading /\ SameWalk
        /\ current.id \in Blobs \ (Published \cup Large \cup lost)
Rest == pc' = pc /\ SameWalk

LEMMA WalkSteps ==
  ASSUME ListPart, WalkInv, [Next]_vars
  PROVE  \/ pc' \notin Streaming \/ StartProcesses \/ ReadID \/ EndOfStream \/ ReadToken
         \/ Finish \/ GoOn \/ Rest
<1> USE DEF Streaming, Holding, Reading, stream, fixed, scanner, processes
<1>1. ASSUME ListSteps PROVE pc' \notin Streaming
  BY <1>1 DEF ListSteps, LookPath, recordGitVersion, NextRepository, ReportCoverage,
     DiscoveryFails, SkipSeen, CountRepository, ShallowFails, Conclude, Leave
<1>2. ASSUME StartFails \/ MetadataFails \/ BatchFails \/ WaitList \/ CloseContents
             \/ CloseMetadata \/ ShallowAnswers
      PROVE  pc' \notin Streaming
  BY <1>2 DEF StartFails, MetadataFails, BatchFails, WaitList, CloseContents, CloseMetadata,
     ShallowAnswers, Fail
<1>3. ASSUME PassOver \/ Identify \/ ReadBody PROVE Finish
  BY <1>3 DEF PassOver, Identify, ReadBody, Described, Finish, SameWalk
<1>4. ASSUME Oversized PROVE Finish \/ pc' \notin Streaming
  <2>1. pc \in Holding /\ SameWalk
    BY <1>4 DEF Oversized, Described, SameWalk
  <2>2. NextObject \/ pc' = "conclude"
    BY <1>4 DEF Oversized, Fail
  <2> QED
    BY <2>1, <2>2 DEF Finish
<1>5. ASSUME WantBody PROVE GoOn
  BY <1>5 DEF WantBody, Described, GoOn, SameWalk
<1>6. ASSUME RequestBody \/ ReadHeader PROVE GoOn \/ pc' \notin Streaming
  <2>1. pc \in Reading /\ SameWalk /\ (pc' \in Reading \/ pc' \notin Streaming)
    BY <1>6 DEF RequestBody, ReadHeader, SameWalk, Fail
  <2> QED
    BY <2>1 DEF WalkInv, GoOn
<1>7. ASSUME BatchAnswers \/ ProcessDies \/ Expire \/ UNCHANGED vars PROVE Rest
  BY <1>7 DEF BatchAnswers, ProcessDies, Expire, vars, Rest, SameWalk
<1> QED
  BY <1>1, <1>2, <1>3, <1>4, <1>5, <1>6, <1>7, StepLemma DEF InsideSteps

LEMMA StartLemma ==
  ASSUME StartProcesses
  PROVE  /\ pc' = "walk" /\ walk' = NoWalk /\ NoWalk \in Walks /\ Flushed' = 0 /\ Handled' = 0
         /\ pipe' = <<>> /\ asked' = NoObject /\ pc = "start"
         /\ UNCHANGED <<repo, lost, version, examined, died, gitHistory, result, trouble>>
<1>1. pc' = "walk" /\ walk' = NoWalk /\ NoWalk \in Walks
  BY DEF StartProcesses, NoWalk, Walks
<1>2. walk'.id = NoObject /\ walk'.announced = 0
  BY <1>1 DEF NoWalk
<1> QED
  BY <1>1, <1>2 DEF StartProcesses, Flushed, Handled, Holding, processes, fixed

LEMMA TokenLemma ==
  ASSUME ListPart, WalkInv, ReadToken
  PROVE  /\ walk' \in Walks /\ walk'.announced = walk.announced /\ walk'.id = walk.id
         /\ walk'.missing = walk.missing /\ walk'.ended = walk.ended /\ walk'.told
         /\ walk'.path = (walk.id \notin lost) /\ walk'.absent = (walk.id \in lost)
         /\ pc' = pc /\ pc = "walk" /\ Flushed' = Flushed /\ Handled' = Handled
         /\ UNCHANGED <<repo, lost, version, current, examined, died, gitHistory, result,
                        pipe, asked, trouble>>
<1>1. pc = "walk" /\ pc' = pc /\ UNCHANGED <<repo, lost, version, current, examined, died, gitHistory,
                                            result, pipe, asked, trouble>>
  BY DEF ReadToken, scanner, processes, fixed
<1>2. walk \in Walks
  BY <1>1 DEF WalkInv, Streaming
<1> DEFINE p == walk.id \notin lost
           b == walk.id \in lost
<1>3. walk' = [walk EXCEPT !.told = TRUE, !.path = p, !.absent = b] /\ p \in BOOLEAN /\ b \in BOOLEAN
  BY DEF ReadToken
<1> HIDE DEF p, b
<1>4. /\ walk' \in Walks /\ walk'.announced = walk.announced /\ walk'.id = walk.id
      /\ walk'.missing = walk.missing /\ walk'.ended = walk.ended /\ walk'.told
      /\ walk'.path = p /\ walk'.absent = b
  BY <1>2, <1>3 DEF Walks
<1> QED
  BY <1>1, <1>4 DEF p, b, Flushed, Handled

LEMMA WalkKept == ASSUME ListPart, ListPart', WalkInv, [Next]_vars PROVE WalkInv'
<1>1. ASSUME pc' \notin Streaming PROVE WalkInv'
  BY <1>1 DEF WalkInv
<1>2. ASSUME StartProcesses PROVE WalkInv'
  <2>1. walk' = NoWalk /\ walk' \in Walks /\ pc' = "walk" /\ repo' \in Paths
    BY <1>2, StartLemma, RepoLemma, ListPart' DEF ListPart, VisitInv, Visiting, Scanning
  <2>2. Len(Order') \in Nat
    BY <2>1, <1>2, StartLemma, OrderLemma DEF Order
  <2> QED
    BY <2>1, <2>2 DEF WalkInv, NoWalk, Holding, Reading
<1>3. ASSUME ReadID \/ EndOfStream PROVE WalkInv'
  <2>1. /\ pc \in Streaming /\ Order' = Order /\ lost' = lost
        /\ pc' \in {"walk", "wait", "check"}
    BY <1>3, FlushLemma DEF Order, Opened
  <2>2. /\ walk' \in Walks /\ walk'.announced <= Len(Order)
        /\ walk'.id = IF walk'.ended \/ walk'.announced = 0 THEN NoObject ELSE Order[walk'.announced]
        /\ walk'.absent => walk'.id \in lost
        /\ pc' = "wait" => walk'.ended
        /\ pc' = "walk" => ~walk'.ended
    <3>1. ASSUME ReadID
          PROVE  /\ walk' \in Walks /\ walk'.announced <= Len(Order)
                 /\ walk'.id = IF walk'.ended \/ walk'.announced = 0 THEN NoObject ELSE Order[walk'.announced]
                 /\ walk'.absent => walk'.id \in lost
                 /\ pc' = "wait" => walk'.ended
                 /\ pc' = "walk" => ~walk'.ended
      <4>1. /\ walk' \in Walks /\ walk'.announced <= Len(Order) /\ ~walk'.ended
            /\ walk'.id = Order[walk'.announced]
            /\ walk'.absent => walk'.id \in lost
        BY <3>1, ReadIDLemma
      <4>2. walk'.announced # 0
        <5>1. walk'.announced = walk.announced + 1 /\ walk.announced \in Nat
          BY <3>1, ReadIDLemma
        <5> QED
          BY <5>1
      <4>3. pc' # "wait"
        BY <3>1, <4>1, ReadIDLemma DEF Opened
      <4> QED
        BY <4>1, <4>2, <4>3
    <3>2. ASSUME EndOfStream
          PROVE  /\ walk' \in Walks /\ walk'.announced <= Len(Order)
                 /\ walk'.id = IF walk'.ended \/ walk'.announced = 0 THEN NoObject ELSE Order[walk'.announced]
                 /\ walk'.absent => walk'.id \in lost
                 /\ pc' = "wait" => walk'.ended
                 /\ pc' = "walk" => ~walk'.ended
      BY <3>2, EndOfStreamLemma DEF Opened
    <3> QED
      BY <1>3, <3>1, <3>2
  <2>3. walk'.missing > 0 => \E k \in DOMAIN Order : Order[k] \in lost
    <3>1. walk'.missing = walk.missing + IF walk.absent THEN 1 ELSE 0
      BY <1>3, ReadIDLemma, EndOfStreamLemma
    <3>2. walk \in Walks
      BY <1>3, FlushLemma
    <3>3. CASE walk.absent
      <4>1. walk.announced \in 1..Len(Order) /\ Order[walk.announced] \in lost /\ repo \in Paths
        <5>1. walk.id \in lost /\ walk.id = IF walk.announced = 0 THEN NoObject ELSE Order[walk.announced]
          BY <1>3, <2>1, <3>3, FlushLemma DEF WalkInv
        <5>2. NoObject \notin lost
          BY ObjectsAssumption DEF ListPart, KindInv
        <5> QED
          BY <1>3, <5>1, <5>2, FlushLemma
      <4> QED
        BY <4>1, OrderLemma
    <3>4. CASE ~walk.absent
      BY <3>1, <3>2, <3>4, <2>1 DEF WalkInv, Walks
    <3> QED
      BY <3>3, <3>4
  <2>4. pc' \in Holding => Flushed' > 0 /\ current'.id = Order[Flushed']
    BY <1>3, <2>1, FlushLemma DEF Holding, Opened
  <2> QED
    BY <2>1, <2>2, <2>3, <2>4 DEF WalkInv, Reading
<1>4. ASSUME ReadToken PROVE WalkInv'
  <2>1. Order' = Order
    BY <1>4, TokenLemma DEF Order
  <2> QED
    BY <1>4, <2>1, TokenLemma DEF WalkInv, Streaming, Holding, Reading
<1>5. ASSUME Finish PROVE WalkInv'
  <2>1. pc \in Streaming /\ Order' = Order /\ pc' \in {"walk", "wait"}
        /\ (pc' = "wait" <=> walk.ended) /\ UNCHANGED <<walk, current, lost>>
    BY <1>5 DEF Finish, NextObject, SameWalk, Order, Streaming, Holding
  <2> QED
    BY <2>1 DEF WalkInv, Holding, Reading
<1>6. ASSUME GoOn PROVE WalkInv'
  <2>1. /\ pc \in Streaming /\ Order' = Order /\ pc' \in Reading
        /\ pc \in Holding /\ UNCHANGED <<walk, current, lost>> /\ Flushed' = Flushed
        /\ pc' # "walk" /\ pc' # "wait"
        /\ current.id \in Blobs \ (Published \cup Large \cup lost)
    BY <1>6 DEF GoOn, SameWalk, Order, Streaming, Holding, Reading, Flushed
  <2> QED
    BY <2>1 DEF WalkInv
<1>7. ASSUME Rest PROVE WalkInv'
  <2>1. pc' = pc /\ Order' = Order /\ UNCHANGED <<walk, current, lost>> /\ Flushed' = Flushed
    BY <1>7 DEF Rest, SameWalk, Order, Flushed
  <2> QED
    BY <2>1 DEF WalkInv
<1> QED
  BY <1>1, <1>2, <1>3, <1>4, <1>5, <1>6, <1>7, WalkSteps

-----------------------------------------------------------------------------
(* The pipes of cat-file, and the bodies that come through them.              *)
LEMMA PipeStart == ASSUME PipeInv, StartProcesses PROVE PipeInv'
  BY DEF PipeInv, StartProcesses

(* Steps that do not touch the pipes.                                         *)
SamePipe == UNCHANGED <<asked, pipe, trouble, examined>>

LEMMA PipeKept == ASSUME ListPart, WalkInv, PipeInv, [Next]_vars PROVE PipeInv'
<1> USE DEF Streaming, fixed, scanner, processes, stream
<1>0. pc \in Streaming \ {"header", "body"} => pipe = <<>> /\ asked = NoObject
  BY DEF PipeInv
<1>1. ASSUME ListSteps PROVE PipeInv'
  <2>1. pc' \notin Streaming /\ examined' = examined
    BY <1>1 DEF ListSteps, LookPath, recordGitVersion, NextRepository, ReportCoverage,
       DiscoveryFails, SkipSeen, CountRepository, ShallowFails, Conclude, Leave
  <2> QED
    BY <2>1 DEF PipeInv
<1>2. ASSUME StartFails \/ MetadataFails \/ BatchFails \/ WaitList \/ CloseContents
             \/ CloseMetadata \/ ShallowAnswers
      PROVE  PipeInv'
  <2>1. pc' \notin Streaming /\ examined' = examined
    BY <1>2 DEF StartFails, MetadataFails, BatchFails, WaitList, CloseContents, CloseMetadata,
       ShallowAnswers, Fail
  <2> QED
    BY <2>1 DEF PipeInv
<1>3. ASSUME StartProcesses PROVE PipeInv'
  BY <1>3, PipeStart
<1>4. ASSUME ReadID \/ EndOfStream \/ ReadToken PROVE PipeInv'
  <2>1. pc = "walk" /\ pc' \in Streaming \ {"header", "body"} /\ SamePipe
    BY <1>4, FlushLemma, TokenLemma DEF ReadID, EndOfStream, ReadToken, SamePipe, Opened
  <2> QED
    BY <1>0, <2>1 DEF PipeInv, SamePipe
<1>5. ASSUME PassOver \/ WantBody PROVE PipeInv'
  <2>1. pc = "check" /\ pc' \in Streaming \ {"header", "body"} /\ SamePipe
    BY <1>5 DEF PassOver, WantBody, Described, NextObject, SamePipe
  <2> QED
    BY <1>0, <2>1 DEF PipeInv, SamePipe
<1>6. ASSUME Oversized PROVE PipeInv'
  <2>1. pc = "check" /\ pc' \notin {"header", "body"} /\ SamePipe
    BY <1>6 DEF Oversized, Described, NextObject, SamePipe, Fail
  <2> QED
    BY <1>0, <2>1 DEF PipeInv, SamePipe
<1>7. ASSUME Identify PROVE PipeInv'
  <2>1. /\ pc = "check" /\ pc' \notin {"header", "body"} /\ UNCHANGED <<pipe, asked>>
        /\ examined' = examined \cup {Look("identity", current.id)}
    BY <1>7 DEF Identify, Described, NextObject
  <2>2. \A e \in examined' : e.body = e.id
    BY <2>1 DEF PipeInv, Look
  <2> QED
    BY <1>0, <2>1, <2>2 DEF PipeInv
<1>8. ASSUME RequestBody PROVE PipeInv'
  <2>1. pc = "request" /\ pc' = "header" /\ asked' = current.id
        /\ UNCHANGED <<current, pipe, examined, trouble>>
    BY <1>8 DEF RequestBody
  <2> QED
    BY <1>0, <2>1 DEF PipeInv
<1>9. ASSUME ReadHeader PROVE PipeInv'
  <2>1. /\ pc = "header" /\ pipe # <<>> /\ pipe' = Tail(pipe)
        /\ IF Head(pipe) = header(current.id) THEN pc' = "body" ELSE pc' = "conclude"
        /\ UNCHANGED <<current, asked, examined, trouble>>
    BY <1>9 DEF ReadHeader, Fail
  <2>2. \A e \in examined' : e.body = e.id
    BY <2>1 DEF PipeInv
  <2>3. ASSUME Head(pipe) = header(current.id)
        PROVE  asked = NoObject /\ Tail(pipe) = <<body(current.id)>>
    <3>1. pipe # <<unavailable(current.id)>>
      BY <2>3 DEF header, unavailable
    <3>2. asked = NoObject /\ pipe = <<header(current.id), body(current.id)>>
      BY <2>1, <3>1 DEF PipeInv
    <3> DEFINE h == header(current.id)
               b == body(current.id)
    <3>3. pipe = <<h, b>>
      BY <3>2
    <3> HIDE DEF h, b
    <3>4. Tail(pipe) = <<b>>
      BY <3>3
    <3> QED
      BY <3>2, <3>4 DEF b
  <2> QED
    BY <2>1, <2>2, <2>3 DEF PipeInv
<1>10. ASSUME ReadBody PROVE PipeInv'
  <2>1. pc = "body" /\ pipe' = Tail(pipe) /\ asked' = asked /\ current' = current
        /\ pc' \in {"walk", "wait"}
    BY <1>10 DEF ReadBody, NextObject
  <2>2. asked = NoObject /\ pipe = <<body(current.id)>> /\ \A e \in examined : e.body = e.id
    BY <2>1 DEF PipeInv
  <2> DEFINE b == body(current.id)
  <2>3. pipe = <<b>> /\ b.id = current.id
    BY <2>2 DEF body
  <2> HIDE DEF b
  <2>4. Tail(pipe) = <<>> /\ Head(pipe).id = current.id
    BY <2>3
  <2>5. \A e \in examined' : e.body = e.id
    <3>1. examined' = examined \cup (IF sized THEN {Look("hash", current.id)} ELSE {})
                               \cup (IF named THEN {Look("name", current.id)} ELSE {})
      BY <1>10, <2>4 DEF ReadBody
    <3>2. Look("hash", current.id).body = Look("hash", current.id).id
          /\ Look("name", current.id).body = Look("name", current.id).id
      BY DEF Look
    <3> HIDE DEF Look
    <3> QED
      BY <2>2, <3>1, <3>2
  <2> QED
    BY <2>1, <2>2, <2>4, <2>5 DEF PipeInv
<1>11. ASSUME ProcessDies \/ Expire PROVE PipeInv'
  <2>1. UNCHANGED <<pc, current, asked, pipe, examined>> /\ trouble'
    BY <1>11 DEF ProcessDies, Expire
  <2> QED
    BY <2>1 DEF PipeInv
<1>12. ASSUME BatchAnswers PROVE PipeInv'
  <2>1. /\ asked # NoObject /\ asked' = NoObject /\ UNCHANGED <<pc, current, examined>>
        /\ \/ pipe' = pipe \o <<header(asked), body(asked)>>
           \/ pipe' = Append(pipe, unavailable(asked)) /\ trouble'
    BY <1>12 DEF BatchAnswers
  <2>2. pc \notin Streaming \ {"header"}
    BY <2>1 DEF PipeInv
  <2>3. ASSUME pc = "header"
        PROVE  \/ pipe' = <<header(current.id), body(current.id)>>
               \/ pipe' = <<unavailable(current.id)>> /\ trouble'
    <3>1. asked = current.id /\ pipe = <<>>
      BY <2>1, <2>3 DEF PipeInv
    <3> DEFINE h == header(current.id)
               b == body(current.id)
               u == unavailable(current.id)
    <3>2. pipe' = <<>> \o <<h, b>> \/ (pipe' = Append(<<>>, u) /\ trouble')
      BY <2>1, <3>1
    <3> HIDE DEF h, b, u
    <3>3. <<>> \o <<h, b>> = <<h, b>> /\ Append(<<>>, u) = <<u>>
      OBVIOUS
    <3> QED
      BY <3>2, <3>3 DEF h, b, u
  <2> QED
    BY <2>1, <2>2, <2>3 DEF PipeInv
<1>13. ASSUME UNCHANGED vars PROVE PipeInv'
  BY <1>13 DEF PipeInv, vars
<1> QED
  BY <1>1, <1>2, <1>3, <1>4, <1>5, <1>6, <1>7, <1>8, <1>9, <1>10, <1>11, <1>12, <1>13,
     StepLemma DEF InsideSteps

-----------------------------------------------------------------------------
(* A repository is given up for a reason.                                     *)
Excused == trouble \/ \E k \in DOMAIN Order : Order[k] \in lost \cup ((Sized \cap Large) \ Published)

LEMMA AlarmKept ==
  ASSUME ListPart, WalkInv, PipeInv, AlarmInv, [Next]_vars PROVE AlarmInv'
<1> USE DEF fixed, scanner, processes, stream
<1>0. AlarmInv = ((died # {} => trouble) /\ (result = "error" => Excused))
  BY DEF AlarmInv, NoFalseAlarm, Excused
<1>a. AlarmInv' = ((died' # {} => trouble') /\ (result' = "error" => Excused'))
  BY DEF AlarmInv, NoFalseAlarm, Excused
<1>b. UNCHANGED <<repo, lost>> => (Excused' <=> trouble' \/ \E k \in DOMAIN Order :
                                     Order[k] \in lost \cup ((Sized \cap Large) \ Published))
  BY DEF Excused, Order
<1>1. ASSUME NextRepository PROVE AlarmInv'
  BY <1>1, <1>a DEF NextRepository
<1>2. ASSUME UNCHANGED <<repo, lost, died, trouble>>, result' = result \/ Excused PROVE AlarmInv'
  <2>1. Excused' = Excused
    BY <1>2 DEF Excused, Order
  <2> QED
    BY <1>0, <1>a, <1>2, <2>1
<1>3. ASSUME trouble' PROVE AlarmInv'
  BY <1>3, <1>a DEF Excused
<1>4. ASSUME LookPath \/ recordGitVersion \/ ReportCoverage \/ DiscoveryFails \/ SkipSeen
             \/ CountRepository \/ ShallowFails \/ Conclude
      PROVE  AlarmInv'
  <2>1. UNCHANGED <<repo, lost, died, trouble, result>>
    BY <1>4 DEF LookPath, recordGitVersion, ReportCoverage, DiscoveryFails, SkipSeen,
       CountRepository, ShallowFails, Conclude
  <2> QED
    BY <1>2, <2>1
<1>5. ASSUME StartFails \/ MetadataFails \/ ProcessDies \/ Expire PROVE AlarmInv'
  <2>1. trouble'
    BY <1>5 DEF StartFails, MetadataFails, ProcessDies, Expire
  <2> QED
    BY <1>3, <2>1
<1>6. ASSUME StartProcesses \/ RequestBody \/ ShallowAnswers \/ ReadToken \/ PassOver
             \/ Identify \/ WantBody \/ ReadBody \/ EndOfStream \/ ReadID \/ UNCHANGED vars
      PROVE  AlarmInv'
  <2>1. UNCHANGED <<repo, lost, died, trouble, result>>
    BY <1>6 DEF StartProcesses, RequestBody, ShallowAnswers, ReadToken, PassOver, Identify,
       WantBody, ReadBody, EndOfStream, ReadID, vars
  <2> QED
    BY <1>2, <2>1
<1>7. ASSUME BatchAnswers PROVE AlarmInv'
  <2>1. UNCHANGED <<repo, lost, died, result>> /\ (trouble' = trouble \/ trouble')
    BY <1>7 DEF BatchAnswers
  <2> QED
    BY <1>2, <1>3, <2>1
<1>8. ASSUME Oversized PROVE AlarmInv'
  <2>1. UNCHANGED <<repo, lost, died, trouble>> /\ pc = "check" /\ current.id \in Large \ Published
        /\ (result' = result \/ sized)
    BY <1>8 DEF Oversized, Described
  <2>2. ASSUME sized PROVE Excused
    <3>1. /\ current.id = Order[Flushed] /\ Flushed > 0 /\ walk \in Walks
          /\ walk.announced <= Len(Order)
      BY <2>1 DEF WalkInv, Streaming, Holding
    <3>2. repo \in Paths
      BY <2>1, RepoLemma DEF Scanning
    <3>3. Flushed \in 1..Len(Order)
      BY <3>1, <3>2, OrderLemma DEF Flushed, Walks
    <3>4. Flushed \in DOMAIN Order /\ Order[Flushed] \in (Sized \cap Large) \ Published
      BY <2>1, <2>2, <3>1, <3>2, <3>3, OrderLemma DEF sized
    <3> QED
      BY <3>4 DEF Excused
  <2> QED
    BY <1>2, <2>1, <2>2
<1>9. ASSUME ReadHeader PROVE AlarmInv'
  <2>1. /\ UNCHANGED <<repo, lost, died, trouble>> /\ pc = "header" /\ pipe # <<>>
        /\ result' = result \/ Head(pipe) # header(current.id)
    BY <1>9 DEF ReadHeader
  <2>2. ASSUME Head(pipe) # header(current.id) PROVE trouble
    <3> DEFINE h == header(current.id)
               b == body(current.id)
    <3> HIDE DEF h, b
    <3>1. pipe # <<h, b>>
      BY <2>2 DEF h
    <3> QED
      BY <2>1, <3>1 DEF PipeInv, h, b
  <2> QED
    BY <1>2, <2>1, <2>2 DEF Excused
<1>10. ASSUME BatchFails \/ CloseContents \/ CloseMetadata PROVE AlarmInv'
  <2>1. UNCHANGED <<repo, lost, died, trouble>> /\ (result' = result \/ died # {})
    BY <1>10 DEF BatchFails, CloseContents, CloseMetadata
  <2> QED
    BY <1>0, <1>2, <2>1 DEF Excused
<1>11. ASSUME WaitList PROVE AlarmInv'
  <2>1. /\ UNCHANGED <<repo, lost, died, trouble>> /\ pc = "wait"
        /\ result' = result \/ died # {} \/ walk.missing > 0
    BY <1>11 DEF WaitList
  <2>2. walk.missing > 0 => Excused
    BY <2>1 DEF WalkInv, Streaming, Excused
  <2> QED
    BY <1>0, <1>2, <2>1, <2>2 DEF Excused
<1> QED
  BY <1>1, <1>4, <1>5, <1>6, <1>7, <1>8, <1>9, <1>10, <1>11, StepLemma DEF InsideSteps, ListSteps

-----------------------------------------------------------------------------
(* What a completed repository was looked at for.                             *)
LEMMA GrowLemma ==
  ASSUME [Next]_vars
  PROVE  /\ examined \subseteq examined' /\ lost' = lost
         /\ version' = version \/ recordGitVersion
         /\ died \subseteq died' \/ NextRepository
<1> USE DEF fixed, scanner, processes, stream
<1>1. ASSUME ListSteps
      PROVE  /\ examined' = examined /\ lost' = lost
             /\ version' = version \/ recordGitVersion
             /\ died' = died \/ NextRepository
  BY <1>1 DEF ListSteps, LookPath, recordGitVersion, NextRepository, ReportCoverage,
     DiscoveryFails, SkipSeen, CountRepository, ShallowFails, Conclude
<1>2. ASSUME InsideSteps
      PROVE  examined \subseteq examined' /\ lost' = lost /\ version' = version /\ died \subseteq died'
  <2>1. ASSUME StartProcesses \/ ReadHeader \/ RequestBody \/ BatchFails
               \/ WaitList \/ CloseContents \/ CloseMetadata \/ EndOfStream
               \/ ShallowAnswers \/ StartFails \/ ReadID \/ ReadToken
               \/ MetadataFails \/ PassOver \/ WantBody \/ BatchAnswers \/ UNCHANGED vars
        PROVE  UNCHANGED <<examined, lost, version, died>>
    BY <2>1 DEF StartProcesses, ReadHeader, RequestBody, BatchFails, WaitList, CloseContents,
       CloseMetadata, EndOfStream, ShallowAnswers, StartFails, ReadID, ReadToken, MetadataFails,
       PassOver, WantBody, BatchAnswers, vars
  <2>2. ASSUME ReadBody \/ Identify \/ Oversized
        PROVE  examined \subseteq examined' /\ UNCHANGED <<lost, version, died>>
    BY <2>2 DEF ReadBody, Identify, Oversized
  <2>3. ASSUME ProcessDies \/ Expire
        PROVE  died \subseteq died' /\ UNCHANGED <<examined, lost, version>>
    BY <2>3 DEF ProcessDies, Expire
  <2> QED
    BY <1>2, <2>1, <2>2, <2>3 DEF InsideSteps
<1> QED
  BY <1>1, <1>2, StepLemma

LEMMA WholeKept ==
  ASSUME examined \subseteq examined', UNCHANGED <<lost, version>>, NEW p, NEW id, Whole(p, id)
  PROVE  Whole(p, id)'
  BY DEF Whole, Did

LEMMA ScannedLemma ==
  ScannedIsComplete <=>
    \A p \in Paths : outcome[p] = "scanned" =>
      \A k \in DOMAIN History[Common[p]] : Whole(p, History[Common[p]][k])
  BY DEF ScannedIsComplete, Whole, Did

LEMMA ScannedKept ==
  ASSUME ListPart, ProgressInv, [Next]_vars PROVE ScannedIsComplete'
<1> DEFINE H(p) == History[Common[p]]
<1>1. \A p \in Paths : outcome[p] = "scanned" => \A k \in DOMAIN H(p) : Whole(p, H(p)[k])
  BY ScannedLemma DEF ProgressInv
<1>2. ScannedIsComplete' <=>
        \A p \in Paths : outcome'[p] = "scanned" => \A k \in DOMAIN H(p) : Whole(p, H(p)[k])'
  BY DEF ScannedIsComplete, Whole, Did
<1>3. ASSUME recordGitVersion PROVE ScannedIsComplete'
  <2>1. \A p \in Paths : outcome'[p] # "scanned"
    BY <1>3 DEF recordGitVersion, ListPart, VisitInv
  <2> QED
    BY <1>2, <2>1
<1>4. ASSUME ~recordGitVersion PROVE ScannedIsComplete'
  <2>1. \A p, id : Whole(p, id) => Whole(p, id)'
    BY <1>4, GrowLemma, WholeKept
  <2>2. ASSUME NEW p \in Paths, outcome'[p] = "scanned"
        PROVE  \A k \in DOMAIN H(p) : Whole(p, H(p)[k])
    <3>1. ASSUME outcome'[p] = outcome[p] PROVE \A k \in DOMAIN H(p) : Whole(p, H(p)[k])
      BY <1>1, <2>2, <3>1
    <3>2. ASSUME outcome'[p] # outcome[p] PROVE p = repo /\ pc = "conclude" /\ result = "ok"
      <4>1. ASSUME InsideSteps PROVE outcome' = outcome
        BY <4>1, InsideLemma DEF ListPart, Inside
      <4>2. ASSUME LookPath \/ NextRepository \/ ReportCoverage \/ CountRepository PROVE outcome' = outcome
        BY <4>2 DEF LookPath, NextRepository, ReportCoverage, CountRepository
      <4>4. ASSUME NEW h, Settle(h), h # "scanned" PROVE outcome'[p] # "scanned" \/ outcome'[p] = outcome[p]
        <5>1. outcome' = [outcome EXCEPT ![repo] = h] /\ outcome \in [Paths -> Outcomes]
          BY <4>4 DEF Settle, ListPart, KindInv
        <5> QED
          BY <5>1, <4>4
      <4>5. ~(DiscoveryFails \/ ShallowFails \/ SkipSeen)
        BY <2>2, <3>2, <4>4, SettleLemma
      <4>6. Conclude
        BY <1>4, <3>2, <4>1, <4>2, <4>5, StepLemma DEF ListSteps
      <4>7. result = "ok"
        <5>1. result # "ok" => Settle("failed")
          BY <4>6, SettleLemma
        <5> QED
          BY <2>2, <3>2, <4>4, <5>1
      <4>8. p = repo
        <5>1. outcome' = [outcome EXCEPT ![repo] = "scanned"] /\ outcome \in [Paths -> Outcomes]
          BY <4>6, <4>7 DEF Conclude, Leave, ListPart, KindInv
        <5> QED
          BY <3>2, <5>1
      <4> QED
        BY <4>6, <4>7, <4>8 DEF Conclude
    <3> QED
      BY <3>1, <3>2 DEF ProgressInv, Order
  <2> QED
    BY <1>2, <2>1, <2>2
<1> QED
  BY <1>3, <1>4

(* The body that is read is the one that was asked for.                       *)
LEMMA BodyLemma ==
  ASSUME PipeInv, ReadBody
  PROVE  /\ examined' = examined \cup (IF sized THEN {Look("hash", current.id)} ELSE {})
                                 \cup (IF named THEN {Look("name", current.id)} ELSE {})
         /\ gitHistory' = IF named THEN recordGitHistoryHit(Carries[current.id]) ELSE gitHistory
         /\ findings' = findings \/ findings' = findings \cup {PayloadFinding(current.id)}
<1>1. pipe = <<body(current.id)>>
  BY DEF PipeInv, ReadBody
<1> DEFINE b == body(current.id)
<1>2. pipe = <<b>> /\ b.id = current.id
  BY <1>1 DEF body
<1> HIDE DEF b
<1>3. Head(pipe).id = current.id
  BY <1>2
<1> QED
  BY <1>3 DEF ReadBody

(* Once the scanner turns to the next object, this one has been dealt with.   *)
LEMMA DealtLemma ==
  ASSUME ListPart, WalkInv, PipeInv, Finish, [Next]_vars,
         current.id \in Blobs \ lost /\ gitPathsSupported(version) => current.path
  PROVE  Whole(repo, current.id)'
<1> USE ObjectsAssumption
<1>0. UNCHANGED <<repo, lost, version, current>> /\ pc' \in {"walk", "wait"}
      /\ pc \in Holding /\ pc # pc' /\ pc \notin {"walk", "wait"}
  BY DEF Finish, SameWalk, NextObject, Holding
<1>1. ASSUME PassOver PROVE Whole(repo, current.id)'
  <2>1. current.id \notin lost \cup Published /\ (current.id \in Blobs => ~sized /\ ~named)
    BY <1>1 DEF PassOver, Described
  <2> QED
    BY <1>0, <2>1 DEF Whole, sized, named
<1>2. ASSUME Identify PROVE Whole(repo, current.id)'
  <2>1. current.id \in Published \ lost /\ examined' = examined \cup {Look("identity", current.id)}
    BY <1>2 DEF Identify, Described
  <2>2. Did(repo, current.id, "identity")'
    BY <1>0, <2>1 DEF Did, Look
  <2> QED
    BY <1>0, <2>1, <2>2 DEF Whole
<1>3. ASSUME Oversized PROVE Whole(repo, current.id)'
  <2>1. current.id \in Large \ Published /\ current.id \notin lost
        /\ (~sized \/ pc' = "conclude")
    BY <1>3 DEF Oversized, Described, Fail
  <2> QED
    BY <1>0, <2>1 DEF Whole, sized
<1>4. ASSUME ReadBody PROVE Whole(repo, current.id)'
  <2>1. current.id \in Blobs \ (Published \cup Large \cup lost)
    BY <1>4 DEF ReadBody, WalkInv, Streaming, Reading
  <2>2. examined' = examined \cup (IF sized THEN {Look("hash", current.id)} ELSE {})
                             \cup (IF named THEN {Look("name", current.id)} ELSE {})
    BY <1>4, BodyLemma
  <2>3. sized => Did(repo, current.id, "hash")'
    BY <1>0, <2>2 DEF Did, Look
  <2>4. named => Did(repo, current.id, "name")'
    BY <1>0, <2>2 DEF Did, Look
  <2> QED
    BY <1>0, <2>1, <2>3, <2>4 DEF Whole, sized, named
<1>5. PassOver \/ Identify \/ Oversized \/ ReadBody
  <2> USE DEF fixed, scanner, processes, stream
  <2>1. ASSUME ListSteps PROVE pc' \notin {"walk", "wait"}
    BY <2>1 DEF ListSteps, LookPath, recordGitVersion, NextRepository, ReportCoverage,
       DiscoveryFails, SkipSeen, CountRepository, ShallowFails, Conclude, Leave
  <2>2. ASSUME StartFails \/ MetadataFails \/ BatchFails \/ WaitList \/ CloseContents
               \/ CloseMetadata \/ ShallowAnswers \/ WantBody \/ RequestBody \/ ReadHeader
        PROVE  pc' \notin {"walk", "wait"}
    BY <2>2 DEF StartFails, MetadataFails, BatchFails, WaitList, CloseContents, CloseMetadata,
       ShallowAnswers, WantBody, RequestBody, ReadHeader, Fail
  <2>3. ASSUME StartProcesses \/ ReadID \/ ReadToken \/ EndOfStream PROVE pc \notin Holding
    BY <2>3 DEF StartProcesses, ReadID, ReadToken, EndOfStream, Holding
  <2>4. ASSUME BatchAnswers \/ ProcessDies \/ Expire \/ UNCHANGED vars PROVE pc' = pc
    BY <2>4 DEF BatchAnswers, ProcessDies, Expire, vars
  <2> QED
    BY <1>0, <2>1, <2>2, <2>3, <2>4, StepLemma DEF InsideSteps
<1> QED
  BY <1>1, <1>2, <1>3, <1>4, <1>5

(* The first part of ProgressInv, named.                                      *)
Following ==
  /\ walk.told /\ walk.id \in lost => walk.absent
  /\ walk.told /\ walk.id \in Blobs \ lost /\ gitPathsSupported(version) => walk.path
  /\ pc \in Holding /\ current.id \in Blobs \ lost /\ gitPathsSupported(version) => current.path
  /\ walk.ended => walk.announced = Len(Order)
  /\ \A k \in 1..Handled : Whole(repo, Order[k]) \/ walk.missing > 0

LEMMA HandledLemma ==
  ASSUME ListPart, WalkInv, pc \in Streaming
  PROVE  /\ Handled \in Nat /\ Handled <= Len(Order) /\ repo \in Paths
         /\ pc \in Holding => Handled = Flushed - 1 /\ Flushed \in 1..Len(Order)
         /\ pc \notin Holding => Handled = Flushed /\ Handled \in Nat
<1>1. repo \in Paths
  BY RepoLemma, StreamingLemma
<1>2. /\ walk \in Walks /\ walk.announced \in Nat /\ walk.announced <= Len(Order)
      /\ walk.id = IF walk.ended \/ walk.announced = 0 THEN NoObject ELSE Order[walk.announced]
      /\ pc \in Holding => Flushed > 0
  BY DEF WalkInv, Walks
<1>3. Len(Order) \in Nat
  BY <1>1, OrderLemma
<1>4. Flushed \in Nat /\ Flushed <= Len(Order)
  BY <1>2, <1>3 DEF Flushed
<1> QED
  BY <1>1, <1>2, <1>3, <1>4 DEF Handled

LEMMA FollowingKept ==
  ASSUME ListPart, ListPart', WalkInv, WalkInv', PipeInv, ProgressInv, [Next]_vars,
         pc' \in Streaming, "list" \notin died'
  PROVE  Following'
<1>1. ASSUME StartProcesses PROVE Following'
  <2>1. walk' = NoWalk /\ Handled' = 0 /\ pc' = "walk"
    BY <1>1, StartLemma
  <2>2. ~walk'.ended /\ walk'.id = NoObject /\ NoObject \notin lost' /\ NoObject \notin Blobs
    BY <1>1, <2>1, StartLemma, ObjectsAssumption DEF NoWalk, ListPart, KindInv
  <2>3. 1..Handled' = {}
    BY <2>1
  <2> QED
    BY <2>1, <2>2, <2>3 DEF Following, Holding
<1>2. ASSUME ~StartProcesses
      PROVE  /\ pc \in Streaming /\ "list" \notin died /\ Following
             /\ \A k : Whole(repo, Order[k]) => Whole(repo, Order[k])'
             /\ Order' = Order /\ UNCHANGED <<lost, version, repo>>
  <2>1. ReadID \/ EndOfStream \/ ReadToken \/ Finish \/ GoOn \/ Rest
    BY <1>2, WalkSteps
  <2>2. pc \in Streaming /\ UNCHANGED <<lost, version, repo>>
    BY <2>1, FlushLemma, TokenLemma DEF ReadToken, Finish, GoOn, Rest, SameWalk, Streaming, Holding
  <2>3. ~recordGitVersion /\ ~NextRepository
    BY <2>2 DEF recordGitVersion, NextRepository, Streaming
  <2>4. "list" \notin died
    BY <2>3, GrowLemma
  <2>5. \A p, id : Whole(p, id) => Whole(p, id)'
    BY <2>3, GrowLemma, WholeKept
  <2>6. Following
    BY <2>2, <2>4 DEF ProgressInv, Following
  <2>7. Order' = Order
    BY <2>2 DEF Order
  <2>8. ASSUME NEW k, Whole(repo, Order[k]) PROVE Whole(repo, Order[k])'
    <3>1. \A id : Whole(repo, id) => Whole(repo, id)'
      BY <2>2, <2>5 DEF Whole, Did
    <3> QED
      BY <2>7, <2>8, <3>1 DEF Whole, Did
  <2> QED
    BY <2>2, <2>4, <2>6, <2>7, <2>8
<1>3. ASSUME ReadID \/ EndOfStream PROVE Following'
  <2>1. /\ pc \in Streaming /\ "list" \notin died /\ Following /\ ~StartProcesses
        /\ \A k : Whole(repo, Order[k]) => Whole(repo, Order[k])'
        /\ Order' = Order /\ UNCHANGED <<lost, version, repo>>
    <3>1. ~StartProcesses
      BY <1>3 DEF ReadID, EndOfStream, StartProcesses
    <3> QED
      BY <1>2, <3>1
  <2>2. /\ walk.announced \in 0..Len(Order) /\ walk \in Walks /\ Opened
        /\ walk.id = IF walk.announced = 0 THEN NoObject ELSE Order[walk.announced]
        /\ Handled = IF walk.announced = 0 THEN 0 ELSE walk.announced - 1
        /\ Handled' = IF pc' = "check" THEN walk.announced - 1 ELSE walk.announced
        /\ walk'.missing = walk.missing + IF walk.absent THEN 1 ELSE 0
        /\ pc' \in Holding <=> pc' = "check"
    <3>1. Opened /\ walk'.missing = walk.missing + IF walk.absent THEN 1 ELSE 0
      BY <1>3, ReadIDLemma, EndOfStreamLemma
    <3>2. pc' \in Holding <=> pc' = "check"
      BY <3>1 DEF Opened, Holding
    <3> QED
      BY <1>3, <3>1, <3>2, FlushLemma
  <2>3. walk.told
    BY <1>3, <2>1, ReadIDLemma, EndOfStreamLemma
  <2>4. pc' \in Holding /\ current'.id \in Blobs \ lost /\ gitPathsSupported(version) => current'.path
    BY <2>1, <2>2, <2>3 DEF Following, Opened
  <2>5. \A k \in 1..Handled' : Whole(repo, Order[k])' \/ walk'.missing > 0
    <3>1. walk.missing > 0 => walk'.missing > 0
      BY <2>2 DEF Walks
    <3>2. walk.absent => walk'.missing > 0
      BY <2>2 DEF Walks
    <3>3. ~walk.absent => Handled' = Handled
      BY <2>2 DEF Opened
    <3> QED
      BY <2>1, <3>1, <3>2, <3>3 DEF Following
  <2>6. /\ walk'.told /\ walk'.id \in lost => walk'.absent
        /\ walk'.told /\ walk'.id \in Blobs \ lost /\ gitPathsSupported(version) => walk'.path
        /\ walk'.ended => walk'.announced = Len(Order)
    <3>1. ASSUME ReadID
          PROVE  /\ walk'.told /\ walk'.id \in lost => walk'.absent
                 /\ walk'.told /\ walk'.id \in Blobs \ lost /\ gitPathsSupported(version) => walk'.path
                 /\ walk'.ended => walk'.announced = Len(Order)
      <4>1. /\ walk'.told = ~HasToken(walk'.id) /\ ~walk'.ended
            /\ walk'.absent = (~gitPathsSupported(version) /\ walk'.id \in lost)
        BY <3>1, ReadIDLemma
      <4> QED
        BY <4>1 DEF HasToken
    <3>2. ASSUME EndOfStream
          PROVE  /\ walk'.told /\ walk'.id \in lost => walk'.absent
                 /\ walk'.told /\ walk'.id \in Blobs \ lost /\ gitPathsSupported(version) => walk'.path
                 /\ walk'.ended => walk'.announced = Len(Order)
      <4>1. walk'.id = NoObject /\ walk'.announced = walk.announced /\ walk.announced = Len(Order)
        BY <2>1, <3>2, EndOfStreamLemma
      <4>2. NoObject \notin lost /\ NoObject \notin Blobs
        BY ObjectsAssumption DEF ListPart, KindInv
      <4> QED
        BY <4>1, <4>2
    <3> QED
      BY <1>3, <3>1, <3>2
  <2>7. Following' = (
          /\ walk'.told /\ walk'.id \in lost' => walk'.absent
          /\ walk'.told /\ walk'.id \in Blobs \ lost' /\ gitPathsSupported(version') => walk'.path
          /\ pc' \in Holding /\ current'.id \in Blobs \ lost' /\ gitPathsSupported(version') => current'.path
          /\ walk'.ended => walk'.announced = Len(Order')
          /\ \A k \in 1..Handled' : Whole(repo, Order[k])' \/ walk'.missing > 0)
    BY DEF Following
  <2> QED
    BY <2>1, <2>4, <2>5, <2>6, <2>7
<1>4. ASSUME ReadToken PROVE Following'
  <2>1. /\ pc \in Streaming /\ Following
        /\ \A k : Whole(repo, Order[k]) => Whole(repo, Order[k])'
        /\ Order' = Order /\ UNCHANGED <<lost, version, repo>>
    <3>1. ~StartProcesses
      BY <1>4 DEF ReadToken, StartProcesses
    <3> QED
      BY <1>2, <3>1
  <2>2. /\ walk'.path = (walk.id \notin lost) /\ walk'.absent = (walk.id \in lost)
        /\ walk'.id = walk.id /\ walk'.missing = walk.missing /\ Handled' = Handled
        /\ walk'.ended = walk.ended /\ walk'.announced = walk.announced /\ pc' \notin Holding
    BY <1>4, TokenLemma DEF Holding
  <2>3. \A k \in 1..Handled' : Whole(repo, Order[k])' \/ walk'.missing > 0
    BY <2>1, <2>2 DEF Following
  <2>4. Following' = (
          /\ walk'.told /\ walk'.id \in lost' => walk'.absent
          /\ walk'.told /\ walk'.id \in Blobs \ lost' /\ gitPathsSupported(version') => walk'.path
          /\ pc' \in Holding /\ current'.id \in Blobs \ lost' /\ gitPathsSupported(version') => current'.path
          /\ walk'.ended => walk'.announced = Len(Order')
          /\ \A k \in 1..Handled' : Whole(repo, Order[k])' \/ walk'.missing > 0)
    BY DEF Following
  <2> QED
    BY <2>1, <2>2, <2>3, <2>4 DEF Following
<1>5. ASSUME Finish \/ GoOn \/ Rest PROVE Following'
  <2>1. /\ pc \in Streaming /\ Following
        /\ \A k : Whole(repo, Order[k]) => Whole(repo, Order[k])'
        /\ Order' = Order /\ UNCHANGED <<lost, version, repo, walk, current>>
    <3>1. ~StartProcesses
      BY <1>5 DEF Finish, GoOn, Rest, SameWalk, StartProcesses, Holding
    <3> QED
      BY <1>2, <1>5, <3>1 DEF Finish, GoOn, Rest, SameWalk
  <2>2. pc' \in Holding => pc \in Holding
    BY <1>5, <2>1 DEF Finish, GoOn, Rest
  <2>3. \A k \in 1..Handled' : Whole(repo, Order[k])' \/ walk'.missing > 0
    <3>1. ASSUME GoOn \/ Rest PROVE Handled' = Handled
      BY <3>1, <2>1 DEF GoOn, Rest, Handled, Flushed, Reading, Holding
    <3>2. ASSUME Finish
          PROVE  /\ Handled' = Flushed /\ Handled = Flushed - 1 /\ Flushed \in Nat
                 /\ Flushed' = Flushed
                 /\ Whole(repo, Order[Flushed])'
      <4>1. Whole(repo, current.id)'
        BY <2>1, <3>2, DealtLemma DEF Following, Finish
      <4>2. pc \in Holding /\ pc' \notin Holding /\ current.id = Order[Flushed]
        BY <2>1, <3>2 DEF Finish, NextObject, Holding, WalkInv
      <4>3. Handled' = Flushed /\ Handled = Flushed - 1 /\ Flushed \in Nat
        BY <2>1, <4>2, HandledLemma DEF Handled, Flushed
      <4>4. Whole(repo, Order[Flushed])'
        <5>1. current' = current /\ current'.id = (Order[Flushed])'
          BY <2>1, <4>2 DEF Flushed
        <5> QED
          BY <4>1, <5>1 DEF Whole, Did
      <4>5. Flushed' = Flushed
        BY <2>1 DEF Flushed
      <4> QED
        BY <4>3, <4>4, <4>5 DEF Whole, Did
    <3>3. ASSUME NEW k \in 1..Handled' PROVE Whole(repo, Order[k])' \/ walk'.missing > 0
      <4>1. CASE k \in 1..Handled
        BY <4>1, <2>1 DEF Following
      <4>2. CASE k \notin 1..Handled
        <5>1. Finish
          BY <1>5, <3>1, <3>3, <4>2
        <5>2. k = Flushed /\ Flushed' = k
          BY <3>2, <3>3, <4>2, <5>1
        <5>3. Whole(repo, Order[Flushed])'
          BY <3>2, <5>1
        <5> QED
          BY <5>2, <5>3 DEF Whole, Did
      <4> QED
        BY <4>1, <4>2
    <3> QED
      BY <3>3
  <2>4. Following' = (
          /\ walk'.told /\ walk'.id \in lost' => walk'.absent
          /\ walk'.told /\ walk'.id \in Blobs \ lost' /\ gitPathsSupported(version') => walk'.path
          /\ pc' \in Holding /\ current'.id \in Blobs \ lost' /\ gitPathsSupported(version') => current'.path
          /\ walk'.ended => walk'.announced = Len(Order')
          /\ \A k \in 1..Handled' : Whole(repo, Order[k])' \/ walk'.missing > 0)
    BY DEF Following
  <2> QED
    BY <2>1, <2>2, <2>3, <2>4 DEF Following
<1> QED
  BY <1>1, <1>3, <1>4, <1>5, WalkSteps

LEMMA ProgressKept ==
  ASSUME ListPart, ListPart', WalkInv, WalkInv', PipeInv, ProgressInv, [Next]_vars
  PROVE  ProgressInv'
<1> DEFINE closing == pc \in {"closeContents", "closeMetadata"} \/ (pc = "conclude" /\ result = "ok")
<1>1. ASSUME closing' PROVE (\A k \in DOMAIN Order : Whole(repo, Order[k]))'
  <2> USE DEF fixed, scanner, processes, stream
  <2>1. ~ListSteps
    BY <1>1 DEF ListSteps, LookPath, recordGitVersion, NextRepository, ReportCoverage,
       DiscoveryFails, SkipSeen, CountRepository, ShallowFails, Conclude, Leave
  <2>2. ASSUME StartFails \/ MetadataFails \/ BatchFails \/ ShallowAnswers \/ StartProcesses
               \/ ReadHeader \/ RequestBody \/ ReadToken \/ PassOver \/ Identify \/ Oversized
               \/ WantBody \/ ReadBody
        PROVE  FALSE
    BY <1>1, <2>2 DEF StartFails, MetadataFails, BatchFails, ShallowAnswers, StartProcesses,
       ReadHeader, RequestBody, ReadToken, PassOver, Identify, Oversized, WantBody, ReadBody,
       Fail, NextObject
  <2>3. ASSUME ReadID \/ EndOfStream PROVE FALSE
    BY <1>1, <2>3, FlushLemma DEF Opened
  <2>4. /\ WaitList \/ CloseContents \/ CloseMetadata \/ BatchAnswers \/ ProcessDies
           \/ Expire \/ UNCHANGED vars
        /\ UNCHANGED <<repo, lost, version>> /\ examined \subseteq examined'
    <3>1. WaitList \/ CloseContents \/ CloseMetadata \/ BatchAnswers \/ ProcessDies
           \/ Expire \/ UNCHANGED vars
      BY <2>1, <2>2, <2>3, StepLemma DEF InsideSteps
    <3> QED
      BY <3>1, GrowLemma DEF WaitList, CloseContents, CloseMetadata, BatchAnswers, ProcessDies,
         Expire, vars
  <2>5. \A k \in DOMAIN Order : Whole(repo, Order[k])
    <3>1. ASSUME WaitList PROVE \A k \in DOMAIN Order : Whole(repo, Order[k])
      <4>1. pc = "wait" /\ "list" \notin died /\ ~(walk.missing > 0)
        BY <1>1, <3>1 DEF WaitList, Fail
      <4>2. walk.ended /\ walk.announced = Len(Order) /\ walk.id = NoObject
            /\ \A k \in 1..Handled : Whole(repo, Order[k])
        BY <4>1 DEF ProgressInv, WalkInv, Streaming
      <4>3. Handled = Len(Order) /\ DOMAIN Order = 1..Len(Order)
        <5>1. Handled = Len(Order)
          BY <4>1, <4>2 DEF Handled, Flushed, Holding
        <5> QED
          BY <4>1, <5>1, RepoLemma, OrderLemma DEF Scanning
      <4> QED
        BY <4>2, <4>3
    <3>2. ASSUME CloseContents \/ CloseMetadata PROVE closing
      BY <3>2 DEF CloseContents, CloseMetadata
    <3>3. ASSUME BatchAnswers \/ ProcessDies \/ Expire \/ UNCHANGED vars PROVE closing
      BY <1>1, <3>3 DEF BatchAnswers, ProcessDies, Expire, vars
    <3> QED
      BY <2>4, <3>1, <3>2, <3>3 DEF ProgressInv
  <2>6. \A k : Whole(repo, Order[k]) => Whole(repo, Order[k])'
    BY <2>4 DEF Whole, Did, Order
  <2>7. Order' = Order
    BY <2>4 DEF Order
  <2> QED
    BY <2>5, <2>6, <2>7
<1>2. pc' \in Streaming /\ "list" \notin died' => Following'
  BY FollowingKept
<1>3. ScannedIsComplete'
  BY ScannedKept
<1> QED
  BY <1>1, <1>2, <1>3 DEF ProgressInv, Following

-----------------------------------------------------------------------------
(* What was looked at, and what was told of it.                               *)
Looked(how) ==
  /\ outcome' = [outcome EXCEPT ![repo] = how] /\ pc' = "next" /\ repo' = repo
  /\ how \in Outcomes \ {"unvisited"} /\ repo \in Paths

Moving ==
  /\ outcome' = outcome
  /\ pc \in Scanning \ Idle => repo' = repo /\ pc' \in Scanning \ Idle

LEMMA MoveLemma ==
  ASSUME ListPart, [Next]_vars
  PROVE  Moving \/ ((\E how : Looked(how)) /\ (Conclude \/ pc \notin Scanning \ Idle))
<1>1. ASSUME NEW how, Settle(how), how \in Outcomes \ {"unvisited"} PROVE Looked(how)
  BY <1>1 DEF Looked, Settle, ListPart, VisitInv
<1>2. ASSUME DiscoveryFails \/ ShallowFails \/ SkipSeen
      PROVE  (\E how : Looked(how)) /\ pc \notin Scanning \ Idle
  <2>1. pc \notin Scanning \ Idle
    BY <1>2 DEF DiscoveryFails, ShallowFails, SkipSeen, Scanning, Idle
  <2> QED
    BY <1>1, <1>2, <2>1, SettleLemma DEF Outcomes
<1>3. ASSUME Conclude PROVE \E how : Looked(how)
  <2> DEFINE h == IF result = "ok" THEN "scanned" ELSE "failed"
  <2>1. h \in Outcomes \ {"unvisited"} /\ Settle(h)
    BY <1>3, SettleLemma DEF Outcomes
  <2> HIDE DEF h
  <2> QED
    BY <1>1, <2>1
<1>4. ASSUME LookPath \/ recordGitVersion \/ NextRepository \/ ReportCoverage \/ CountRepository
      PROVE  Moving
  BY <1>4 DEF LookPath, recordGitVersion, NextRepository, ReportCoverage, CountRepository,
     Moving, Scanning
<1>5. ASSUME InsideSteps PROVE Moving
  <2>1. Inside
    BY <1>5, InsideLemma DEF ListPart
  <2>2. ASSUME pc \in Scanning \ Idle PROVE pc' \notin Idle
    <3> USE DEF Idle, fixed, scanner, processes, stream
    <3>1. ASSUME StartProcesses \/ ShallowAnswers \/ StartFails PROVE pc' \notin Idle
      BY <2>2, <3>1 DEF StartProcesses, ShallowAnswers, StartFails
    <3>2. ASSUME ReadHeader \/ ReadBody \/ RequestBody \/ BatchFails
                 \/ WaitList \/ CloseContents \/ CloseMetadata
                 \/ MetadataFails \/ PassOver \/ Identify \/ Oversized \/ WantBody
          PROVE  pc' \notin Idle
      BY <3>2 DEF ReadHeader, ReadBody, RequestBody, BatchFails, WaitList, CloseContents,
         CloseMetadata, MetadataFails, PassOver, Identify, Oversized, WantBody, Fail, NextObject
    <3>3. ASSUME ReadToken \/ BatchAnswers \/ ProcessDies \/ Expire \/ UNCHANGED vars
          PROVE  pc' = pc
      BY <3>3 DEF ReadToken, BatchAnswers, ProcessDies, Expire, vars
    <3>4. ASSUME EndOfStream \/ ReadID PROVE pc' \notin Idle
      BY <3>4 DEF EndOfStream, ReadID, flush
    <3> QED
      BY <1>5, <2>2, <3>1, <3>2, <3>3, <3>4 DEF InsideSteps
  <2> QED
    BY <2>1, <2>2 DEF Moving, Inside
<1> QED
  BY <1>2, <1>3, <1>4, <1>5, StepLemma DEF ListSteps

(* Only an object that has been dealt with is recorded as looked at, and only *)
(* the end of a repository tells of its history.                              *)
LEMMA LooksLemma ==
  ASSUME ListPart, PipeInv, [Next]_vars
  PROVE  \/ examined' = examined
         \/ /\ Identify \/ ReadBody
            /\ Finish
            /\ \A e \in examined' \ examined : e.path = repo /\ e.id = current.id
<1> USE DEF fixed, scanner, processes, stream
<1>1. ASSUME ListSteps PROVE examined' = examined
  BY <1>1 DEF ListSteps, LookPath, recordGitVersion, NextRepository, ReportCoverage,
     DiscoveryFails, SkipSeen, CountRepository, ShallowFails, Conclude
<1>2. ASSUME StartProcesses \/ ReadHeader \/ RequestBody \/ BatchFails
             \/ WaitList \/ CloseContents \/ CloseMetadata \/ EndOfStream
             \/ ShallowAnswers \/ StartFails \/ ReadID \/ ReadToken
             \/ MetadataFails \/ PassOver \/ WantBody \/ BatchAnswers \/ UNCHANGED vars
      PROVE  examined' = examined
  BY <1>2 DEF StartProcesses, ReadHeader, RequestBody, BatchFails, WaitList, CloseContents,
     CloseMetadata, EndOfStream, ShallowAnswers, StartFails, ReadID, ReadToken, MetadataFails,
     PassOver, WantBody, BatchAnswers, vars
<1>3. ASSUME Oversized \/ ProcessDies \/ Expire PROVE examined' = examined
  BY <1>3 DEF Oversized, ProcessDies, Expire
<1>4. ASSUME Identify \/ ReadBody PROVE Finish
  BY <1>4 DEF Identify, ReadBody, Finish, Described, SameWalk, Holding
<1>5. \A how : Look(how, current.id).path = repo /\ Look(how, current.id).id = current.id
  BY DEF Look
<1>6. ASSUME Identify PROVE \A e \in examined' \ examined : e.path = repo /\ e.id = current.id
  <2>1. examined' = examined \cup {Look("identity", current.id)}
    BY <1>6 DEF Identify
  <2> HIDE DEF Look
  <2> QED
    BY <1>5, <2>1
<1>7. ASSUME ReadBody PROVE \A e \in examined' \ examined : e.path = repo /\ e.id = current.id
  <2>1. examined' = examined \cup (IF sized THEN {Look("hash", current.id)} ELSE {})
                             \cup (IF named THEN {Look("name", current.id)} ELSE {})
    BY <1>7, BodyLemma
  <2> HIDE DEF Look
  <2> QED
    BY <1>5, <2>1
<1> QED
  BY <1>1, <1>2, <1>3, <1>4, <1>6, <1>7, StepLemma DEF InsideSteps

LEMMA HistoryLemma ==
  ASSUME ListPart, [Next]_vars
  PROVE  /\ findings \subseteq findings'
         /\ \A f \in findings' \ findings : f.check = "git-history" => Conclude /\ f \in flushed
<1>1. ASSUME InsideSteps
      PROVE  /\ findings \subseteq findings'
             /\ \A f \in findings' \ findings : f.check # "git-history"
  BY <1>1, InsideLemma DEF ListPart, Inside
<1>2. \A p : gitScanError(p).check # "git-history"
  BY DEF gitScanError, Finding
<1>3. ASSUME LookPath \/ recordGitVersion \/ DiscoveryFails \/ ShallowFails
      PROVE  /\ findings \subseteq findings'
             /\ \A f \in findings' \ findings : f.check # "git-history"
  <2>1. findings' = findings \/ \E p : findings' = findings \cup {gitScanError(p)}
    BY <1>3 DEF LookPath, recordGitVersion, DiscoveryFails, ShallowFails
  <2> QED
    BY <1>2, <2>1
<1>4. ASSUME NextRepository \/ SkipSeen \/ CountRepository PROVE findings' = findings
  BY <1>4 DEF NextRepository, SkipSeen, CountRepository
<1>5. ASSUME Conclude
      PROVE  /\ findings \subseteq findings'
             /\ \A f \in findings' \ findings : f.check = "git-history" => f \in flushed
  <2>1. findings' = findings \cup flushed \/ findings' = findings \cup {gitScanError(repo)} \cup flushed
    BY <1>5 DEF Conclude
  <2> QED
    BY <1>2, <2>1
<1>6. ASSUME ReportCoverage
      PROVE  /\ findings \subseteq findings'
             /\ \A f \in findings' \ findings : f.check # "git-history"
  <2> DEFINE V == reportGitCoverage(version, found, scanned)
             F(v) == Finding(v.check, v.severity, v.path)
  <2>1. findings' = findings \cup {F(v) : v \in V}
    BY <1>6 DEF ReportCoverage
  <2>2. \A v : F(v).check = v.check
    BY DEF Finding
  <2>3. \A v \in V : v.check # "git-history"
    BY DEF reportGitCoverage, reportGitVersion, versionVerdict, verdict, ListPart, KindInv, Versions
  <2> HIDE DEF V, F
  <2> QED
    BY <2>1, <2>2, <2>3
<1> QED
  BY <1>1, <1>3, <1>4, <1>5, <1>6, StepLemma DEF ListSteps

LEMMA HandledGrows ==
  ASSUME ListPart, WalkInv, [Next]_vars, pc' \in Streaming, ~StartProcesses
  PROVE  /\ pc \in Streaming /\ repo' = repo /\ Handled \in Nat /\ Handled' \in Nat /\ Handled <= Handled'
         /\ Finish => Handled' = Flushed /\ Flushed > Handled /\ current.id = Order[Flushed]
<1>1. ASSUME ReadID \/ EndOfStream
      PROVE  pc \in Streaming /\ repo' = repo /\ Handled \in Nat /\ Handled' \in Nat /\ Handled <= Handled'
  <2>1. /\ walk.announced \in 0..Len(Order) /\ Opened
        /\ Handled = IF walk.announced = 0 THEN 0 ELSE walk.announced - 1
        /\ Handled' = IF pc' = "check" THEN walk.announced - 1 ELSE walk.announced
        /\ pc \in Streaming /\ repo' = repo
    BY <1>1, FlushLemma
  <2>2. pc' = "check" => walk.announced > 0
    BY <2>1 DEF Opened
  <2> QED
    BY <2>1, <2>2
<1>2. ASSUME ReadToken PROVE pc \in Streaming /\ repo' = repo /\ Handled \in Nat /\ Handled' = Handled
  BY <1>2, TokenLemma, HandledLemma DEF Streaming
<1>3. ASSUME GoOn \/ Rest PROVE pc \in Streaming /\ repo' = repo /\ Handled \in Nat /\ Handled' = Handled
  <2>1. pc \in Streaming /\ repo' = repo /\ walk' = walk /\ (pc' \in Holding <=> pc \in Holding)
    BY <1>3 DEF GoOn, Rest, SameWalk, Streaming, Holding, Reading
  <2> QED
    BY <2>1, HandledLemma DEF Handled, Flushed
<1>4. ASSUME Finish
      PROVE  /\ pc \in Streaming /\ repo' = repo /\ Handled \in Nat /\ Handled' = Flushed
             /\ Flushed \in Nat /\ Flushed > Handled /\ current.id = Order[Flushed]
  <2>1. pc \in Streaming /\ repo' = repo /\ walk' = walk /\ pc' \notin Holding /\ pc \in Holding
    BY <1>4 DEF Finish, SameWalk, Streaming, Holding, NextObject
  <2>2. Handled = Flushed - 1 /\ Flushed \in 1..Len(Order) /\ Handled \in Nat
    BY <2>1, HandledLemma
  <2>3. Handled' = Flushed /\ current.id = Order[Flushed]
    BY <2>1 DEF Handled, Flushed, WalkInv
  <2>4. Len(Order) \in Nat
    BY <2>1, HandledLemma, OrderLemma
  <2> QED
    BY <2>1, <2>2, <2>3, <2>4
<1> QED
  BY <1>1, <1>2, <1>3, <1>4, WalkSteps

LEMMA LookKept ==
  ASSUME ListPart, ListPart', WalkInv, PipeInv, LookInv, HeldInv, [Next]_vars
  PROVE  LookInv'
<1>0. outcome \in [Paths -> Outcomes]
  BY DEF ListPart, KindInv
<1>1. \A q \in Paths : outcome[q] # "unvisited" => outcome'[q] # "unvisited"
  <2>1. ASSUME NEW how, Looked(how), NEW q \in Paths, outcome[q] # "unvisited"
        PROVE  outcome'[q] # "unvisited"
    BY <1>0, <2>1 DEF Looked
  <2> QED
    BY <2>1, MoveLemma DEF Moving
<1>2. ASSUME NEW e \in examined'
      PROVE  /\ e.path \in Paths /\ e.id \in Objects
             /\ outcome'[e.path] # "unvisited" \/ (e.path = repo' /\ pc' \in Scanning \ Idle)
  <2>1. /\ e.path \in Paths /\ e.id \in Objects
        /\ outcome[e.path] # "unvisited" \/ (e.path = repo /\ pc \in Scanning \ Idle)
    <3>1. ASSUME e \notin examined
          PROVE  e.path \in Paths /\ e.id \in Objects /\ e.path = repo /\ pc \in Scanning \ Idle
      <4>1. pc \in Holding /\ e.path = repo /\ e.id = current.id
        BY <3>1, LooksLemma DEF Finish
      <4>2. pc \in Scanning \ Idle /\ pc \in Streaming
        BY <4>1 DEF Holding, Scanning, Idle, Streaming
      <4>3. repo \in Paths /\ Flushed \in 1..Len(Order) /\ current.id = Order[Flushed]
        BY <4>1, <4>2, HandledLemma DEF WalkInv
      <4>4. current.id \in Objects
        BY <4>3, OrderLemma
      <4> QED
        BY <4>1, <4>2, <4>3, <4>4
    <3> QED
      BY <3>1 DEF LookInv
  <2>2. ASSUME NEW how, Looked(how) PROVE outcome'[repo] # "unvisited"
    BY <1>0, <2>2 DEF Looked
  <2> QED
    BY <1>1, <2>1, <2>2, MoveLemma DEF Moving
<1>3. ASSUME pc' \in Streaming, NEW e \in examined', e.path = repo'
      PROVE  \E k \in 1..Handled' : e.id = Order'[k]
  <2>1. CASE StartProcesses
    <3>1. e \in examined /\ e.path = repo /\ pc \in Idle /\ pc \in Visiting
      BY <1>3, <2>1, StartLemma DEF Idle, Visiting, Scanning
    <3> QED
      BY <3>1 DEF LookInv, ListPart, VisitInv
  <2>2. CASE ~StartProcesses
    <3>1. /\ pc \in Streaming /\ repo' = repo /\ Handled \in Nat /\ Handled' \in Nat
          /\ Handled <= Handled'
          /\ Finish => Handled' = Flushed /\ Flushed > Handled /\ current.id = Order[Flushed]
      BY <1>3, <2>2, HandledGrows
    <3>2. Order' = Order
      BY <3>1 DEF Order
    <3>3. ASSUME e \in examined PROVE \E k \in 1..Handled' : e.id = Order[k]
      <4>1. PICK k \in 1..Handled : e.id = Order[k]
        BY <1>3, <3>1, <3>3 DEF LookInv
      <4>2. k \in 1..Handled'
        BY <3>1
      <4> QED
        BY <4>1, <4>2
    <3>4. ASSUME e \notin examined PROVE \E k \in 1..Handled' : e.id = Order[k]
      <4>1. Finish /\ e.id = current.id
        BY <1>3, <3>4, LooksLemma
      <4>2. Flushed \in 1..Handled' /\ e.id = Order[Flushed]
        BY <3>1, <4>1
      <4> QED
        BY <4>2
    <3> QED
      BY <3>2, <3>3, <3>4
  <2> QED
    BY <2>1, <2>2
<1>4. ASSUME NEW f \in findings', f.check = "git-history"
      PROVE  f.path \in Paths /\ outcome'[f.path] # "unvisited"
  <2>1. CASE f \in findings
    BY <1>1, <1>4, <2>1 DEF LookInv
  <2>2. CASE f \notin findings
    <3>1. Conclude /\ f \in flushed
      BY <1>4, <2>2, HistoryLemma
    <3>2. f.path = repo
      BY <3>1 DEF flushed
    <3> DEFINE h == IF result = "ok" THEN "scanned" ELSE "failed"
    <3>3. repo \in Paths /\ outcome' = [outcome EXCEPT ![repo] = h] /\ h # "unvisited"
      BY <3>1, SettleLemma DEF Settle, ListPart, VisitInv
    <3> HIDE DEF h
    <3> QED
      BY <1>0, <3>2, <3>3
  <2> QED
    BY <2>1, <2>2
<1> QED
  BY <1>2, <1>3, <1>4 DEF LookInv

-----------------------------------------------------------------------------
(* Bodies are opened by name one at a time, each for the first time.          *)
LEMMA PositionLemma ==
  ASSUME repo \in Paths, NEW k \in 1..Len(Order)
  PROVE  position(repo, Order[k]) = k
  BY OrderLemma DEF position, Order

(* What one body does to the set of those opened for an indicator.            *)
LEMMA OpenLemma ==
  ASSUME ListPart, WalkInv, PipeInv, LookInv, ReadBody
  PROVE  /\ repo \in Paths /\ repo' = repo /\ current.id \in Objects
         /\ \A p, i : With(p, i)' =
              IF p = repo /\ named /\ i \in Carries[current.id]
                THEN With(p, i) \cup {Look("name", current.id)} ELSE With(p, i)
         /\ \A i : Look("name", current.id) \notin With(repo, i)
         /\ \A i : \A e \in With(repo, i) : position(repo, e.id) <= position(repo, current.id)
         /\ position(repo, current.id) \in Nat
<1>1. pc = "body" /\ pc \in Streaming /\ pc \in Holding /\ repo' = repo
  BY DEF ReadBody, Streaming, Holding
<1>2. /\ repo \in Paths /\ Handled = Flushed - 1 /\ Flushed \in 1..Len(Order)
      /\ current.id = Order[Flushed] /\ Handled \in Nat
  BY <1>1, HandledLemma DEF WalkInv
<1>3. /\ Look("name", current.id).path = repo /\ Look("name", current.id).id = current.id
      /\ Look("name", current.id).how = "name" /\ Look("hash", current.id).how = "hash"
  BY DEF Look
<1>4. examined' = examined \cup (IF sized THEN {Look("hash", current.id)} ELSE {})
                           \cup (IF named THEN {Look("name", current.id)} ELSE {})
  BY BodyLemma
<1>5. ASSUME NEW i, NEW e \in With(repo, i) PROVE \E k \in 1..Handled : e.id = Order[k]
  BY <1>1, <1>5 DEF With, LookInv
<1>6. ASSUME NEW i, NEW e \in With(repo, i)
      PROVE  e.id # current.id /\ position(repo, e.id) <= position(repo, current.id)
  <2>1. PICK k \in 1..Handled : e.id = Order[k]
    BY <1>5
  <2>2. k \in 1..Len(Order) /\ k < Flushed /\ Len(Order) \in Nat
    BY <1>2, OrderLemma
  <2>3. position(repo, e.id) = k /\ position(repo, current.id) = Flushed
    BY <1>2, <2>1, <2>2, PositionLemma
  <2>4. Order[k] # Order[Flushed]
    BY <1>2, <2>2, OrderLemma
  <2> QED
    BY <1>2, <2>1, <2>2, <2>3, <2>4
<1>7. ASSUME NEW p, NEW i
      PROVE  With(p, i)' = IF p = repo /\ named /\ i \in Carries[current.id]
                             THEN With(p, i) \cup {Look("name", current.id)} ELSE With(p, i)
  <2> HIDE DEF Look, named, sized
  <2>1. With(p, i)' = {e \in examined' : e.path = p /\ e.how = "name" /\ i \in Carries[e.id]}
    BY DEF With
  <2>2. CASE named
    BY <1>3, <1>4, <2>1, <2>2 DEF With
  <2>3. CASE ~named
    BY <1>3, <1>4, <2>1, <2>3 DEF With
  <2> QED
    BY <2>2, <2>3
<1>8. \A i : Look("name", current.id) \notin With(repo, i)
  <2> HIDE DEF Look
  <2> QED
    BY <1>3, <1>6
<1>9. current.id \in Objects /\ position(repo, current.id) \in Nat
  BY <1>2, OrderLemma, PositionLemma
<1> QED
  BY <1>1, <1>2, <1>6, <1>7, <1>8, <1>9

LEMMA QuietLemma ==
  ASSUME ListPart, PipeInv, [Next]_vars, ~ReadBody
  PROVE  /\ \A p, i : With(p, i)' = With(p, i)
         /\ gitHistory' = gitHistory \/ (Conclude /\ gitHistory' = NoHits)
<1> USE DEF fixed, scanner, processes, stream
<1>1. ASSUME Identify PROVE \A p, i : With(p, i)' = With(p, i)
  <2>1. examined' = examined \cup {Look("identity", current.id)}
    BY <1>1 DEF Identify
  <2>2. Look("identity", current.id).how # "name"
    BY DEF Look
  <2> HIDE DEF Look
  <2> QED
    BY <2>1, <2>2 DEF With
<1>2. \A p, i : With(p, i)' = With(p, i)
  BY <1>1, LooksLemma DEF With
<1>3. ASSUME ListSteps PROVE gitHistory' = gitHistory \/ (Conclude /\ gitHistory' = NoHits)
  BY <1>3 DEF ListSteps, LookPath, recordGitVersion, NextRepository, ReportCoverage,
     DiscoveryFails, SkipSeen, CountRepository, ShallowFails, Conclude
<1>4. ASSUME InsideSteps PROVE gitHistory' = gitHistory
  <2>1. ASSUME StartProcesses \/ ReadHeader \/ RequestBody \/ BatchFails
               \/ WaitList \/ CloseContents \/ CloseMetadata \/ EndOfStream
               \/ ShallowAnswers \/ StartFails \/ ReadID \/ ReadToken
               \/ MetadataFails \/ PassOver \/ WantBody \/ BatchAnswers \/ UNCHANGED vars
        PROVE  gitHistory' = gitHistory
    BY <2>1 DEF StartProcesses, ReadHeader, RequestBody, BatchFails, WaitList, CloseContents,
       CloseMetadata, EndOfStream, ShallowAnswers, StartFails, ReadID, ReadToken, MetadataFails,
       PassOver, WantBody, BatchAnswers, vars
  <2>2. ASSUME Identify \/ Oversized \/ ProcessDies \/ Expire PROVE gitHistory' = gitHistory
    BY <2>2 DEF Identify, Oversized, ProcessDies, Expire
  <2> QED
    BY <1>4, <2>1, <2>2 DEF InsideSteps
<1> QED
  BY <1>2, <1>3, <1>4, StepLemma

(* The entry of one indicator after a body that was opened by name.           *)
LEMMA EntryLemma ==
  ASSUME PipeInv, ReadBody, HeldInv, NEW i
  PROVE  LET hit == named /\ i \in Carries[current.id] IN
         /\ i \in DOMAIN gitHistory' <=> i \in DOMAIN gitHistory \/ hit
         /\ i \in DOMAIN gitHistory' /\ i \notin DOMAIN gitHistory =>
              gitHistory'[i] = [id |-> current.id, revisions |-> 1]
         /\ i \in DOMAIN gitHistory =>
              gitHistory'[i] = [id |-> gitHistory[i].id,
                                revisions |-> gitHistory[i].revisions + IF hit THEN 1 ELSE 0]
<1>1. gitHistory' = IF named THEN recordGitHistoryHit(Carries[current.id]) ELSE gitHistory
  BY BodyLemma
<1>2. i \in DOMAIN gitHistory => gitHistory[i] \in [id : Objects, revisions : Nat]
  BY DEF HeldInv
<1> DEFINE C == Carries[current.id]
<1>3. CASE named
  <2>1. gitHistory' = [j \in DOMAIN gitHistory \cup C |->
          IF j \notin DOMAIN gitHistory THEN [id |-> current.id, revisions |-> 1]
          ELSE [gitHistory[j] EXCEPT !.revisions = @ + IF j \in C THEN 1 ELSE 0]]
    BY <1>1, <1>3 DEF recordGitHistoryHit
  <2> HIDE DEF C
  <2>2. DOMAIN gitHistory' = DOMAIN gitHistory \cup C
    BY <2>1
  <2>3. i \in C \ DOMAIN gitHistory => gitHistory'[i] = [id |-> current.id, revisions |-> 1]
    BY <2>1
  <2>4. i \in DOMAIN gitHistory =>
          gitHistory'[i] = [gitHistory[i] EXCEPT !.revisions = @ + IF i \in C THEN 1 ELSE 0]
    BY <2>1
  <2>5. i \in DOMAIN gitHistory =>
          gitHistory'[i] = [id |-> gitHistory[i].id,
                            revisions |-> gitHistory[i].revisions + IF i \in C THEN 1 ELSE 0]
    BY <1>2, <2>4
  <2> QED
    BY <1>3, <2>2, <2>3, <2>5 DEF C
<1>4. CASE ~named
  BY <1>1, <1>2, <1>4
<1> QED
  BY <1>3, <1>4

LEMMA HeldKept ==
  ASSUME ListPart, ListPart', WalkInv, PipeInv, LookInv, HeldInv, HitInv, [Next]_vars
  PROVE  HeldInv'
<1>1. ASSUME Conclude PROVE HeldInv'
  <2>1. gitHistory' = <<>>
    BY <1>1 DEF Conclude, NoHits
  <2>2. DOMAIN gitHistory' = {}
    BY <2>1
  <2> QED
    BY <2>1, <2>2 DEF HeldInv, NoHits
<1>2. ASSUME ~Conclude, ~ReadBody PROVE HeldInv'
  <2>1. gitHistory' = gitHistory /\ \A p, i : With(p, i)' = With(p, i)
    BY <1>2, QuietLemma
  <2>2. CASE pc \in Scanning \ Idle
    <3>1. repo' = repo /\ pc' \in Scanning \ Idle
      BY <1>2, <2>2, MoveLemma DEF Moving
    <3>2. \A p, i : {e \in examined' : e.path = p /\ e.how = "name" /\ i \in Carries[e.id]} = With(p, i)
      BY <2>1 DEF With
    <3>3. \A i : With(repo, i)' = With(repo, i)
      <4>1. \A i : With(repo, i)' = {e \in examined' : e.path = repo' /\ e.how = "name" /\ i \in Carries[e.id]}
        BY DEF With
      <4> QED
        BY <3>1, <3>2, <4>1
    <3> QED
      BY <2>1, <3>1, <3>3 DEF HeldInv
  <2>3. CASE pc \notin Scanning \ Idle
    <3>1. gitHistory = <<>>
      BY <2>3 DEF HeldInv, NoHits
    <3>2. DOMAIN gitHistory' = {} /\ gitHistory' = <<>>
      BY <2>1, <3>1
    <3> QED
      BY <3>2 DEF HeldInv, NoHits
  <2> QED
    BY <2>2, <2>3
<1>3. ASSUME ReadBody PROVE HeldInv'
  <2>1. pc = "body" /\ pc' \in Scanning \ Idle /\ current' = current
    BY <1>3 DEF ReadBody, NextObject, Scanning, Idle
  <2> DEFINE hit(i) == named /\ i \in Carries[current.id]
             new == Look("name", current.id)
  <2>2. /\ repo \in Paths /\ repo' = repo /\ current.id \in Objects
        /\ \A i : With(repo, i)' = IF hit(i) THEN With(repo, i) \cup {new} ELSE With(repo, i)
        /\ \A i : \A e \in With(repo, i) : position(repo, e.id) <= position(repo, current.id)
        /\ position(repo, current.id) \in Nat
    BY <1>3, OpenLemma
  <2>3. new.id = current.id
    BY DEF Look
  <2>4. DOMAIN gitHistory' \subseteq Indicators
    <3>1. Carries[current.id] \subseteq Indicators
      BY <2>2, ObjectsAssumption
    <3> QED
      BY <1>3, <3>1, EntryLemma DEF HeldInv
  <2>5. ASSUME NEW i \in DOMAIN gitHistory'
        PROVE  /\ gitHistory'[i] \in [id : Objects, revisions : Nat]
               /\ \E e \in With(repo, i)' : e.id = gitHistory'[i].id
               /\ \A e \in With(repo, i)' : position(repo, gitHistory'[i].id) <= position(repo, e.id)
    <3>1. /\ i \in DOMAIN gitHistory \/ hit(i)
          /\ i \notin DOMAIN gitHistory => gitHistory'[i] = [id |-> current.id, revisions |-> 1]
      BY <1>3, <2>5, EntryLemma
    <3>2. CASE i \notin DOMAIN gitHistory
      <4>1. i \in Indicators /\ pc \in Scanning
        BY <2>1, <2>4 DEF Scanning
      <4>2. With(repo, i) = {}
        BY <2>2, <3>2, <4>1 DEF HitInv, HitsAreReported, With
      <4>3. With(repo, i)' = {new} /\ gitHistory'[i].id = current.id
            /\ gitHistory'[i] \in [id : Objects, revisions : Nat]
        BY <2>2, <3>1, <3>2, <4>2
      <4> HIDE DEF new
      <4> QED
        BY <2>2, <2>3, <4>3
    <3>3. CASE i \in DOMAIN gitHistory
      <4>1. /\ gitHistory[i] \in [id : Objects, revisions : Nat]
            /\ \E e \in With(repo, i) : e.id = gitHistory[i].id
            /\ \A e \in With(repo, i) : position(repo, gitHistory[i].id) <= position(repo, e.id)
        BY <3>3 DEF HeldInv
      <4>2. /\ gitHistory'[i].id = gitHistory[i].id
            /\ gitHistory'[i] \in [id : Objects, revisions : Nat]
        <5>1. gitHistory'[i] = [id |-> gitHistory[i].id,
                                revisions |-> gitHistory[i].revisions + IF hit(i) THEN 1 ELSE 0]
          BY <1>3, <3>3, EntryLemma
        <5>2. gitHistory[i].revisions + (IF hit(i) THEN 1 ELSE 0) \in Nat
          BY <4>1
        <5> QED
          BY <4>1, <5>1, <5>2
      <4>3. PICK e0 \in With(repo, i) : e0.id = gitHistory[i].id
        BY <4>1
      <4>4. position(repo, gitHistory[i].id) <= position(repo, new.id)
        BY <2>2, <2>3, <4>3
      <4> HIDE DEF new, hit
      <4>5. With(repo, i) \subseteq With(repo, i)' /\ With(repo, i)' \subseteq With(repo, i) \cup {new}
        BY <2>2
      <4> QED
        BY <4>1, <4>2, <4>3, <4>4, <4>5
    <3> QED
      BY <3>2, <3>3
  <2> QED
    BY <2>1, <2>2, <2>4, <2>5 DEF HeldInv
<1> QED
  BY <1>1, <1>2, <1>3

(* What is said of one indicator in one repository.                           *)
HitOf(p, i) ==
  IF p = repo /\ pc \in Scanning
    THEN /\ Told(p, i) = {}
         /\ i \in DOMAIN gitHistory <=> With(p, i) # {}
         /\ With(p, i) # {} => gitHistory[i].revisions = Cardinality(With(p, i))
    ELSE /\ Cardinality(Told(p, i)) = IF With(p, i) = {} THEN 0 ELSE 1
         /\ \A f \in Told(p, i) :
              /\ f.revisions = Cardinality(With(p, i))
              /\ \E e \in With(p, i) : e.id = f.id
              /\ \A e \in With(p, i) : position(p, f.id) <= position(p, e.id)

LEMMA HitLemma == HitsAreReported <=> \A p \in Paths, i \in Indicators : HitOf(p, i)
  BY DEF HitsAreReported, HitOf, With, Told

(* Of a repository that was not looked into nothing is told.                  *)
LEMMA UntoldLemma ==
  ASSUME LookInv, NEW p, outcome[p] = "unvisited", ~(p = repo /\ pc \in Scanning \ Idle), NEW i
  PROVE  With(p, i) = {} /\ Told(p, i) = {}
  BY DEF LookInv, With, Told

LEMMA NothingHit ==
  ASSUME NEW p, NEW i, With(p, i)' = {}, Told(p, i)' = {}, gitHistory' = NoHits
  PROVE  HitOf(p, i)'
<1>1. DOMAIN gitHistory' = {}
  BY DEF NoHits
<1>2. Cardinality({}) = 0
  BY FS_EmptySet
<1> QED
  BY <1>1, <1>2 DEF HitOf

(* The end of a repository tells what was held of it.                         *)
LEMMA ConcludeHit ==
  ASSUME ListPart, LookInv, HeldInv, HitInv, Conclude,
         NEW p \in Paths, NEW i \in Indicators, With(p, i)' = With(p, i)
  PROVE  HitOf(p, i)'
<1>1. /\ repo' = repo /\ pc' = "next" /\ pc' \notin Scanning /\ pc \in Scanning /\ pc \notin Idle
      /\ \/ findings' = findings \cup flushed
         \/ findings' = findings \cup {gitScanError(repo)} \cup flushed
  BY DEF Conclude, Leave, Scanning, Idle
<1>2. gitScanError(repo).check # "git-history"
  BY DEF gitScanError, Finding
<1> DEFINE report == [check |-> "git-history", severity |-> "CRITICAL", path |-> repo, indicator |-> i,
                      id |-> gitHistory[i].id, revisions |-> gitHistory[i].revisions]
<1>3. \A f \in flushed : f.check = "git-history" /\ f.path = repo
  BY DEF flushed
<1>4. /\ i \notin DOMAIN gitHistory => \A f \in flushed : f.indicator # i
      /\ i \in DOMAIN gitHistory => report \in flushed /\ \A f \in flushed : f.indicator = i => f = report
  BY DEF flushed
<1>5. report.check = "git-history" /\ report.path = repo /\ report.indicator = i
      /\ report.id = gitHistory[i].id /\ report.revisions = gitHistory[i].revisions
  OBVIOUS
<1>6. HitOf(p, i)
  BY HitLemma DEF HitInv
<1> HIDE DEF report
<1>7. CASE p # repo
  <2>1. Told(p, i)' = Told(p, i)
    BY <1>1, <1>2, <1>3, <1>7 DEF Told
  <2> QED
    BY <1>1, <1>6, <1>7, <2>1 DEF HitOf
<1>8. CASE p = repo
  <2>1. /\ Told(p, i) = {}
        /\ i \in DOMAIN gitHistory <=> With(p, i) # {}
        /\ With(p, i) # {} => gitHistory[i].revisions = Cardinality(With(p, i))
    BY <1>1, <1>6, <1>8 DEF HitOf
  <2>2. Told(p, i)' = IF i \in DOMAIN gitHistory THEN {report} ELSE {}
    <3>1. Told(p, i)' = {f \in findings' : f.check = "git-history" /\ f.path = p /\ f.indicator = i}
      BY DEF Told
    <3>2. \A f \in findings : ~(f.check = "git-history" /\ f.path = p /\ f.indicator = i)
      BY <2>1 DEF Told
    <3> QED
      BY <1>1, <1>2, <1>3, <1>4, <1>5, <1>8, <3>1, <3>2
  <2>3. CASE i \notin DOMAIN gitHistory
    BY <1>1, <1>8, <2>1, <2>2, <2>3, FS_EmptySet DEF HitOf
  <2>4. CASE i \in DOMAIN gitHistory
    <3>1. Cardinality({report}) = 1
      BY FS_Singleton
    <3>2. /\ \E e \in With(p, i) : e.id = gitHistory[i].id
          /\ \A e \in With(p, i) : position(p, gitHistory[i].id) <= position(p, e.id)
      BY <1>8, <2>4 DEF HeldInv
    <3> QED
      BY <1>1, <1>5, <1>8, <2>1, <2>2, <2>4, <3>1, <3>2 DEF HitOf
  <2> QED
    BY <2>3, <2>4
<1> QED
  BY <1>7, <1>8

(* A body is one more blob for each indicator it carries.                     *)
LEMMA ReadHit ==
  ASSUME ListPart, WalkInv, PipeInv, LookInv, HeldInv, HitInv, ReadBody, [Next]_vars,
         NEW p \in Paths, NEW i \in Indicators
  PROVE  HitOf(p, i)' /\ IsFiniteSet(With(p, i)')
<1>1. pc \in Scanning /\ pc' \in Scanning /\ repo' = repo
  BY DEF ReadBody, NextObject, Scanning
<1> DEFINE hit == named /\ i \in Carries[current.id]
           new == Look("name", current.id)
<1>2. /\ With(p, i)' = IF p = repo /\ hit THEN With(p, i) \cup {new} ELSE With(p, i)
      /\ new \notin With(repo, i)
  BY OpenLemma
<1>3. Told(p, i)' = Told(p, i)
  <2>1. ~Conclude
    BY DEF ReadBody, Conclude
  <2> QED
    BY <2>1, HistoryLemma DEF Told
<1>4. HitOf(p, i) /\ IsFiniteSet(With(p, i))
  BY HitLemma DEF HitInv
<1>5. /\ i \in DOMAIN gitHistory' <=> i \in DOMAIN gitHistory \/ hit
      /\ i \in DOMAIN gitHistory' /\ i \notin DOMAIN gitHistory => gitHistory'[i].revisions = 1
      /\ i \in DOMAIN gitHistory =>
           gitHistory'[i].revisions = gitHistory[i].revisions + IF hit THEN 1 ELSE 0
  <2>1. /\ i \in DOMAIN gitHistory' <=> i \in DOMAIN gitHistory \/ hit
        /\ i \in DOMAIN gitHistory' /\ i \notin DOMAIN gitHistory =>
             gitHistory'[i] = [id |-> current.id, revisions |-> 1]
        /\ i \in DOMAIN gitHistory =>
             gitHistory'[i] = [id |-> gitHistory[i].id,
                               revisions |-> gitHistory[i].revisions + IF hit THEN 1 ELSE 0]
    BY EntryLemma
  <2> HIDE DEF hit
  <2> QED
    BY <2>1
<1> HIDE DEF hit, new
<1>6. CASE p # repo
  BY <1>1, <1>2, <1>3, <1>4, <1>6 DEF HitOf
<1>7. CASE p = repo
  <2>1. /\ Told(p, i) = {}
        /\ i \in DOMAIN gitHistory <=> With(p, i) # {}
        /\ With(p, i) # {} => gitHistory[i].revisions = Cardinality(With(p, i))
    BY <1>1, <1>4, <1>7 DEF HitOf
  <2>2. CASE ~hit
    <3>1. /\ With(p, i)' = With(p, i)
          /\ i \in DOMAIN gitHistory' <=> i \in DOMAIN gitHistory
      BY <1>2, <1>5, <2>2
    <3>2. i \in DOMAIN gitHistory => gitHistory'[i].revisions = gitHistory[i].revisions
      <4>1. i \in DOMAIN gitHistory => gitHistory[i].revisions \in Nat
        BY DEF HeldInv
      <4> QED
        BY <1>5, <2>2, <4>1
    <3> QED
      BY <1>1, <1>3, <1>4, <1>7, <2>1, <3>1, <3>2 DEF HitOf
  <2>3. CASE hit
    <3>1. With(p, i)' = With(p, i) \cup {new} /\ new \notin With(p, i)
      BY <1>2, <1>7, <2>3
    <3>2. IsFiniteSet(With(p, i)') /\ Cardinality(With(p, i)') = Cardinality(With(p, i)) + 1
      BY <1>4, <3>1, FS_AddElement
    <3>3. With(p, i)' # {} /\ i \in DOMAIN gitHistory'
      BY <1>5, <2>3, <3>1
    <3>4. gitHistory'[i].revisions = Cardinality(With(p, i)) + 1
      <4>1. CASE i \in DOMAIN gitHistory
        BY <1>5, <2>1, <2>3, <4>1
      <4>2. CASE i \notin DOMAIN gitHistory
        <5>1. Cardinality(With(p, i)) = 0
          BY <2>1, <4>2, FS_EmptySet
        <5> QED
          BY <1>5, <3>3, <4>2, <5>1
      <4> QED
        BY <4>1, <4>2
    <3> QED
      BY <1>1, <1>3, <1>7, <2>1, <3>2, <3>3, <3>4 DEF HitOf
  <2> QED
    BY <2>2, <2>3
<1> QED
  BY <1>6, <1>7

LEMMA HitKept ==
  ASSUME ListPart, ListPart', WalkInv, PipeInv, LookInv, LookInv', HeldInv, HeldInv', HitInv,
         [Next]_vars
  PROVE  HitInv'
<1>1. ASSUME NEW p \in Paths, NEW i \in Indicators PROVE HitOf(p, i)' /\ IsFiniteSet(With(p, i)')
  <2>1. CASE ReadBody
    BY <2>1, ReadHit
  <2>2. CASE Conclude
    <3>1. ~ReadBody
      BY <2>2 DEF ReadBody, Conclude
    <3>2. With(p, i)' = With(p, i)
      BY <3>1, QuietLemma
    <3> QED
      BY <2>2, <3>2, ConcludeHit DEF HitInv
  <2>3. CASE ~ReadBody /\ ~Conclude
    <3>1. With(p, i)' = With(p, i) /\ gitHistory' = gitHistory
      BY <2>3, QuietLemma
    <3>2. Told(p, i)' = Told(p, i)
      BY <2>3, HistoryLemma DEF Told
    <3>3. HitOf(p, i) /\ IsFiniteSet(With(p, i))
      BY HitLemma DEF HitInv
    <3>4. CASE (p = repo /\ pc \in Scanning) <=> (p = repo' /\ pc' \in Scanning)
      BY <3>1, <3>2, <3>3, <3>4 DEF HitOf
    <3>5. CASE p = repo /\ pc \in Scanning /\ ~(p = repo' /\ pc' \in Scanning)
      <4>1. pc \notin Scanning \ Idle
        BY <2>3, <3>5, MoveLemma DEF Moving
      <4>2. With(p, i) = {} /\ Told(p, i) = {} /\ gitHistory = NoHits
        BY <3>5, <4>1, UntoldLemma DEF HeldInv, ListPart, VisitInv, Visiting
      <4> QED
        BY <3>1, <3>2, <3>3, <4>2, NothingHit
    <3>6. CASE ~(p = repo /\ pc \in Scanning) /\ p = repo' /\ pc' \in Scanning
      <4>1. CountRepository
        <5>1. ASSUME InsideSteps PROVE FALSE
          BY <3>6, <5>1, InsideLemma DEF ListPart, Inside
        <5>2. ASSUME ListSteps, ~CountRepository PROVE pc' \notin Scanning
          BY <5>2 DEF ListSteps, LookPath, recordGitVersion, NextRepository, ReportCoverage,
             DiscoveryFails, SkipSeen, ShallowFails, Conclude, Leave, Scanning
        <5> QED
          BY <3>6, <5>1, <5>2, StepLemma
      <4>2. pc = "discover" /\ p = repo /\ pc \notin Scanning \ Idle /\ pc \in Visiting
        BY <3>6, <4>1 DEF CountRepository, Scanning, Visiting
      <4>3. With(p, i) = {} /\ Told(p, i) = {} /\ gitHistory = NoHits
        BY <4>2, UntoldLemma DEF HeldInv, ListPart, VisitInv
      <4> QED
        BY <3>1, <3>2, <3>3, <4>3, NothingHit
    <3> QED
      BY <3>4, <3>5, <3>6
  <2> QED
    BY <2>1, <2>2, <2>3
<1>2. HitsAreReported' <=> \A p \in Paths, i \in Indicators : HitOf(p, i)'
  BY DEF HitsAreReported, HitOf, With, Told
<1> QED
  BY <1>1, <1>2 DEF HitInv

-----------------------------------------------------------------------------
(* Before Git has been looked for nothing is counted, said or held.           *)
LEMMA InitLemma == ASSUME Init PROVE GitInv
<1> USE DEF Init
<1>1. /\ pc = "lookup" /\ pc \notin Scanning /\ pc \notin Visiting /\ pc \notin Streaming
      /\ findings = {} /\ examined = {} /\ found = 0 /\ scanned = 0 /\ seen = {}
      /\ \A p \in Paths : outcome[p] = "unvisited"
      /\ gitHistory = <<>> /\ died = {} /\ result = "ok"
  BY DEF Scanning, Visiting, Streaming, NoHits
<1>2. discovered \in Seq(Paths) /\ left = discovered
      /\ \A j, k \in DOMAIN discovered : discovered[j] = discovered[k] => j = k
  BY RepositoriesAssumption
<1>3. KindInv
  <2>1. lost \subseteq Objects /\ outcome \in [Paths -> Outcomes]
    BY ObjectsAssumption DEF Outcomes
  <2> QED
    BY <1>1, <1>2, <2>1 DEF KindInv, Versions
<1>4. VisitInv
  BY <1>1, <1>2 DEF VisitInv, Pending
<1>5. SeenInv
  BY <1>1 DEF SeenInv
<1>6. ListInv
  <2>1. Listed = {} /\ {f \in Incomplete : f.path \in Paths} = {}
    BY <1>1 DEF Listed, Incomplete
  <2>2. IsFiniteSet(Listed) /\ Cardinality({f \in Incomplete : f.path \in Paths}) = 0
    BY <2>1, FS_EmptySet
  <2> QED
    BY <1>1, <2>1, <2>2 DEF ListInv, FailuresAreListed
<1>7. CoverInv
  BY <1>1, <1>2 DEF CoverInv, CleanMeansWhole
<1>8. WalkInv /\ PipeInv /\ AlarmInv
  BY <1>1 DEF WalkInv, PipeInv, AlarmInv, NoFalseAlarm, Streaming
<1>9. ProgressInv
  BY <1>1 DEF ProgressInv, ScannedIsComplete
<1>10. LookInv
  BY <1>1 DEF LookInv
<1>11. HeldInv
  <2>1. DOMAIN gitHistory = {}
    BY <1>1
  <2> QED
    BY <1>1, <2>1 DEF HeldInv, NoHits
<1>12. HitInv
  <2>1. \A p, i : With(p, i) = {} /\ Told(p, i) = {}
    BY <1>1 DEF With, Told
  <2>2. \A p, i : HitOf(p, i)
    BY <1>1, <2>1, FS_EmptySet DEF HitOf
  <2> QED
    BY <2>1, <2>2, HitLemma, FS_EmptySet DEF HitInv
<1> QED
  BY <1>3, <1>4, <1>5, <1>6, <1>7, <1>8, <1>9, <1>10, <1>11, <1>12 DEF GitInv

(* The parts of the invariant are kept in the order in which they need each   *)
(* other: the list, the walk, the pipes, and then what is made of them.       *)
LEMMA StepKeeps == ASSUME GitInv, [Next]_vars PROVE GitInv'
<1> USE DEF GitInv
<1>1. ListPart
  BY DEF ListPart
<1>2. ListPart'
  BY <1>1, StepLemma, InsideLemma, InsideKeepsList, ListStepKeepsList DEF ListPart
<1>3. WalkInv'
  BY <1>1, <1>2, WalkKept
<1>4. PipeInv' /\ AlarmInv'
  BY <1>1, PipeKept, AlarmKept
<1>5. ProgressInv'
  BY <1>1, <1>2, <1>3, ProgressKept
<1>6. LookInv'
  BY <1>1, <1>2, LookKept
<1>7. HeldInv'
  BY <1>1, <1>2, HeldKept
<1>8. HitInv'
  BY <1>1, <1>2, <1>6, <1>7, HitKept
<1> QED
  BY <1>2, <1>3, <1>4, <1>5, <1>6, <1>7, <1>8 DEF ListPart

(* In every state the scan's list, its walk, its pipes, its counters and its  *)
(* findings agree with each other, as GitInv says part by part.               *)
THEOREM Invariance == Spec => []GitInv
<1>1. Init => GitInv
  BY InitLemma
<1>2. GitInv /\ [Next]_vars => GitInv'
  BY StepKeeps
<1> QED
  BY <1>1, <1>2, PTL DEF Spec

(* reportGitCoverage's "the failures are listed individually above" is true:  *)
(* each repository that was found and not completed has its own warning.      *)
THEOREM FailuresAreAlwaysListed == Spec => []FailuresAreListed
<1>1. GitInv => FailuresAreListed
  BY DEF GitInv, ListInv
<1> QED
  BY <1>1, Invariance, PTL

(* Whatever ends a walk, flushGitHistory reports what recordGitHistoryHit     *)
(* has gathered: once, under its repository, with its first blob and count.   *)
THEOREM HitsAreAlwaysReported == Spec => []HitsAreReported
<1>1. GitInv => HitsAreReported
  BY DEF GitInv, HitInv
<1> QED
  BY <1>1, Invariance, PTL

(* scanGitRepositories ends without a warning only if each repository it was  *)
(* given was completed, through one of its worktrees, by a Git that tells     *)
(* the names.                                                                 *)
THEOREM CleanIsAlwaysWhole == Spec => []CleanMeansWhole
<1>1. GitInv => CleanMeansWhole
  BY DEF GitInv, CoverInv
<1> QED
  BY <1>1, Invariance, PTL

(* A repository that GitRepositoriesScanned counts had every object of its    *)
(* history described, and every body its id, length and name call for read.   *)
THEOREM ScannedIsAlwaysComplete == Spec => []ScannedIsComplete
<1>1. GitInv => ScannedIsComplete
  BY DEF GitInv, ProgressInv
<1> QED
  BY <1>1, Invariance, PTL

(* readGitBlob never takes one object's content for another's, and leaves     *)
(* the pipes of cat-file empty when checkGitObject turns to the next.         *)
THEOREM BodiesAreAlwaysTheirs == Spec => []BodiesAreTheirs
<1>1. GitInv => BodiesAreTheirs
  BY DEF GitInv, PipeInv, BodiesAreTheirs, Streaming
<1> QED
  BY <1>1, Invariance, PTL

(* scanGitObjects fails only if Git did, an object is missing, or a blob of a *)
(* payload's length is over the limit.                                        *)
THEOREM NoAlarmIsFalse == Spec => []NoFalseAlarm
<1>1. GitInv => NoFalseAlarm
  BY DEF GitInv, AlarmInv
<1> QED
  BY <1>1, Invariance, PTL
=============================================================================
