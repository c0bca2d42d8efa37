------------------------------ MODULE GitHistory ------------------------------
(* The Git half of a scan (internal/scan/git.go and git_content.go).          *)
(*                                                                            *)
(* scanGitRepositories visits the discovered repositories one after another,  *)
(* each under a deadline of its own.  In a repository three Git processes     *)
(* run beside the scanner: rev-list names the objects, one cat-file describes *)
(* them and a second one sends bodies.  The scanner drives the two cat-files  *)
(* in lockstep through their pipes.  Each process may answer late or never,   *)
(* die at any moment, or find that an object has gone since it was listed.    *)
(*                                                                            *)
(* A blob is published (its object id is a known payload), sized (its length  *)
(* is that of a known payload), named (its path is one the file half of the   *)
(* scan would open), large (over the inspection limit), in any combination.   *)
EXTENDS GitVerdict, Sequences, FiniteSets

CONSTANTS Paths,       \* where a repository or a worktree may be discovered
          Discoveries, \* what may be discovered, each in its order
          Commons,     \* the common directories behind them
          Common,      \* Common[path]: what rev-parse --git-common-dir says
          Objects, Blobs, Published, Sized, Named, Large, Payload,
          Indicators,  \* what the content checks can say of a named blob
          Carries,     \* Carries[id]: the indicators of its content
          History,     \* History[common]: the objects rev-list names, in order
          Losable,     \* the sets of objects a partial clone may lack
          NoObject, NoRepo

(* Each place is discovered once, and is a place: the findings that are not    *)
(* about one repository bear other words.                                     *)
ASSUME RepositoriesAssumption ==
  /\ \A d \in Discoveries : /\ d \in Seq(Paths)
                             /\ \A j, k \in DOMAIN d : d[j] = d[k] => j = k
  /\ Common \in [Paths -> Commons]
  /\ Paths \cap {NoRepo, "git", "GitPath"} = {}
(* rev-list --objects names each object of a history once.                    *)
ASSUME ObjectsAssumption ==
  /\ Blobs \subseteq Objects
  /\ \A S \in {Published, Sized, Named, Large, Payload} : S \subseteq Blobs
  /\ Payload \subseteq Sized
  /\ Carries \in [Objects -> SUBSET Indicators]
  /\ History \in [Commons -> Seq(Objects)]
  /\ \A c \in Commons : \A j, k \in DOMAIN History[c] : History[c][j] = History[c][k] => j = k
  /\ Losable \subseteq SUBSET Objects
  /\ NoObject \notin Objects

VARIABLES
  pc,         \* where scanGitRepositories is
  installed,  \* the Git on PATH: "none", "old", "legacy" or "paths"
  discovered, \* s.discovery.git
  version,    \* s.stats.GitVersion, as far as it is compared
  left,       \* the discovered paths still to visit
  repo,       \* checkGitRepository's repo
  seen,       \* the common directories already visited
  found, scanned,      \* s.stats.GitRepositoriesFound, GitRepositoriesScanned
  findings,   \* the part of s.Findings that is about Git
  lost,       \* the objects that are not in the local store
  walk,       \* walkNULRecords: the stream and the record being put together
  current,    \* the object checkGitObject was called with
  asked,      \* the id written to cat-file --batch and not yet answered
  pipe,       \* what cat-file --batch wrote and the scanner has not read
  died,       \* the Git processes of this repository that are dead
  expired,    \* the repository's context is past its deadline
  result,     \* scanGitObjects' error, "ok" while there is none
  gitHistory, \* s.gitHistory: indicator -> first blob and number of revisions
  examined,   \* what was looked at so far, with the body that was looked at
  outcome,    \* what became of each path
  trouble     \* Git misbehaved since this repository was begun

scanner == <<pc, version, left, repo, seen, found, scanned, findings>>
stream == <<walk, current, asked, pipe>>
processes == <<died, expired, trouble>>
fixed == <<installed, discovered, lost>>
vars == <<scanner, stream, processes, fixed, result, gitHistory, examined, outcome>>

Processes == {"list", "check", "batch"}
Scanning == {"shallow", "start", "walk", "check", "request", "header", "body",
             "wait", "closeContents", "closeMetadata", "conclude"}
Severities == {"INFO", "WARN", "CRITICAL"}

Finding(check, severity, path) ==
  [check |-> check, severity |-> severity, path |-> path,
   id |-> NoObject, indicator |-> "", revisions |-> 0]
PayloadFinding(id) ==
  [Finding("git-payload-hash", "CRITICAL", repo) EXCEPT !.id = id]
gitScanError(path) == Finding("scan-incomplete", "WARN", path)

NoWalk == [announced |-> 0, told |-> TRUE, id |-> NoObject, path |-> FALSE,
           absent |-> FALSE, missing |-> 0, ended |-> FALSE]
NoHits == <<>>
NoCurrent == [id |-> NoObject, path |-> FALSE]

-----------------------------------------------------------------------------
Init ==
  /\ pc = "lookup"
  /\ installed \in {"none", "old", "legacy", "paths"}
  /\ version = "none"
  /\ discovered \in Discoveries /\ left = discovered
  /\ repo = NoRepo
  /\ seen = {}
  /\ found = 0 /\ scanned = 0
  /\ findings = {}
  /\ lost \in Losable
  /\ walk = NoWalk /\ current = NoCurrent
  /\ asked = NoObject /\ pipe = <<>>
  /\ died = {} /\ expired = FALSE /\ trouble = FALSE
  /\ result = "ok"
  /\ gitHistory = NoHits
  /\ examined = {}
  /\ outcome = [p \in Paths |-> "unvisited"]

(* exec.LookPath: without Git the whole half is one warning.                  *)
LookPath ==
  /\ pc = "lookup"
  /\ IF installed = "none"
       THEN pc' = "done" /\ findings' = findings \cup {gitScanError("git")}
       ELSE pc' = "version" /\ UNCHANGED findings
  /\ UNCHANGED <<version, left, repo, seen, found, scanned, stream, processes,
                 fixed, result, gitHistory, examined, outcome>>

(* git --version answers, answers what cannot be read, or fails.              *)
recordGitVersion ==
  /\ pc = "version"
  /\ pc' = "next"
  /\ \/ version' \in {installed, "garbled"} /\ UNCHANGED findings
     \/ version' = "none" /\ findings' = findings \cup {gitScanError("GitPath")}
  /\ UNCHANGED <<left, repo, seen, found, scanned, stream, processes, fixed,
                 result, gitHistory, examined, outcome>>

-----------------------------------------------------------------------------
(* checkGitRepository.  The context is new for each path; rev-parse may fail  *)
(* for a reason of its own and always fails under a Git that does not know    *)
(* the options.  The common directory is what identifies a repository.        *)
NextRepository ==
  /\ pc = "next" /\ left # <<>>
  /\ repo' = Head(left) /\ left' = Tail(left)
  /\ pc' = "discover"
  /\ died' = {} /\ expired' = FALSE /\ trouble' = FALSE
  /\ result' = "ok"
  /\ UNCHANGED <<version, seen, found, scanned, findings, stream, fixed,
                 gitHistory, examined, outcome>>

Leave(how) == pc' = "next" /\ outcome' = [outcome EXCEPT ![repo] = how]

DiscoveryFails ==
  /\ pc = "discover"
  /\ found' = found + 1
  /\ findings' = findings \cup {gitScanError(repo)}
  /\ Leave("failed")
  /\ UNCHANGED <<version, left, repo, seen, scanned, stream, processes, fixed,
                 result, gitHistory, examined>>

(* Mutant: the repository is counted before it is known to be another one.    *)
SkipSeen_Counts ==
  /\ pc = "discover" /\ installed # "old" /\ ~expired
  /\ Common[repo] \in seen
  /\ found' = found + 1
  /\ Leave("skipped")
  /\ UNCHANGED <<version, left, repo, seen, scanned, findings, stream,
                 processes, fixed, result, gitHistory, examined>>

(* A worktree of a repository already visited is not another repository.      *)
SkipSeen ==
  /\ pc = "discover" /\ installed # "old" /\ ~expired
  /\ Common[repo] \in seen
  /\ Leave("skipped")
  /\ UNCHANGED <<version, left, repo, seen, found, scanned, findings, stream,
                 processes, fixed, result, gitHistory, examined>>

CountRepository ==
  /\ pc = "discover" /\ installed # "old" /\ ~expired
  /\ Common[repo] \notin seen
  /\ seen' = seen \cup {Common[repo]}
  /\ found' = found + 1
  /\ pc' = "shallow"
  /\ UNCHANGED <<version, left, repo, scanned, findings, stream, processes,
                 fixed, result, gitHistory, examined, outcome>>

(* rev-parse --is-shallow-repository.  The INFO line of a shallow repository  *)
(* is left out: History is the history that is there.                         *)
ShallowFails ==
  /\ pc = "shallow"
  /\ findings' = findings \cup {gitScanError(repo)}
  /\ Leave("failed")
  /\ UNCHANGED <<version, left, repo, seen, found, scanned, stream, processes,
                 fixed, result, gitHistory, examined>>

ShallowAnswers ==
  /\ pc = "shallow" /\ ~expired
  /\ pc' = "start"
  /\ UNCHANGED <<version, left, repo, seen, found, scanned, findings, stream,
                 processes, fixed, result, gitHistory, examined, outcome>>

(* scanGitObjects: the two cat-files and rev-list are started.                *)
Fail == result' = "error" /\ pc' = "conclude"

StartProcesses ==
  /\ pc = "start" /\ ~expired
  /\ pc' = "walk"
  /\ walk' = NoWalk /\ current' = NoCurrent /\ asked' = NoObject /\ pipe' = <<>>
  /\ UNCHANGED <<version, left, repo, seen, found, scanned, findings, processes,
                 fixed, result, gitHistory, examined, outcome>>

StartFails ==
  /\ pc = "start"
  /\ Fail
  /\ trouble' = TRUE
  /\ UNCHANGED <<version, left, repo, seen, found, scanned, findings, stream,
                 died, expired, fixed, gitHistory, examined, outcome>>

-----------------------------------------------------------------------------
(* walkNULRecords.  rev-list writes an object's id and then what belongs to   *)
(* it (its path, or that it is missing), so an object is complete only when   *)
(* the next id or the end of the stream follows it.  A rev-list that dies     *)
(* ends the stream after any record.  The legacy stream (walkLegacyRecords)   *)
(* has one record for an object, with its absence and without its path.       *)
Order == History[Common[repo]]
HasToken(id) == gitPathsSupported(version) /\ (id \in lost \/ id \in Blobs)

(* flush: the record put together so far is acted on.                         *)
flush(next) ==
  /\ walk' = [next EXCEPT !.missing = walk.missing + IF walk.absent THEN 1 ELSE 0]
  /\ IF walk.id = NoObject \/ walk.absent
       THEN /\ pc' = IF next.ended THEN "wait" ELSE "walk"
            /\ current' = NoCurrent
       ELSE /\ pc' = "check"
            /\ current' = [id |-> walk.id, path |-> walk.path]

ReadID ==
  /\ pc = "walk" /\ walk.told /\ walk.announced < Len(Order)
  /\ LET id == Order[walk.announced + 1] IN
       flush([walk EXCEPT !.announced = @ + 1, !.id = id, !.path = FALSE,
                          !.told = ~HasToken(id),
                          !.absent = ~gitPathsSupported(version) /\ id \in lost])
  /\ UNCHANGED <<version, left, repo, seen, found, scanned, findings, asked,
                 pipe, processes, fixed, result, gitHistory, examined, outcome>>

ReadToken ==
  /\ pc = "walk" /\ ~walk.told
  /\ walk' = [walk EXCEPT !.told = TRUE, !.path = walk.id \notin lost,
                          !.absent = walk.id \in lost]
  /\ UNCHANGED <<scanner, current, asked, pipe, processes, fixed, result,
                 gitHistory, examined, outcome>>

EndOfStream ==
  /\ pc = "walk"
  /\ "list" \in died \/ (walk.told /\ walk.announced = Len(Order))
  /\ flush([walk EXCEPT !.id = NoObject, !.absent = FALSE, !.ended = TRUE])
  /\ UNCHANGED <<version, left, repo, seen, found, scanned, findings, asked,
                 pipe, processes, fixed, result, gitHistory, examined, outcome>>

-----------------------------------------------------------------------------
(* checkGitObject.                                                            *)
named == current.path /\ current.id \in Named
sized == current.id \in Sized
NextObject == pc' = IF walk.ended THEN "wait" ELSE "walk"

Look(how, data) == [path |-> repo, id |-> current.id, how |-> how, body |-> data]

(* metadata.request: the object is unknown to cat-file, or it is dead.        *)
MetadataFails ==
  /\ pc = "check"
  /\ Fail
  /\ trouble' = TRUE
  /\ UNCHANGED <<version, left, repo, seen, found, scanned, findings, stream,
                 died, expired, fixed, gitHistory, examined, outcome>>

Described == pc = "check" /\ "check" \notin died /\ current.id \notin lost

(* A tree or a commit, or a blob nobody asks for.                             *)
PassOver ==
  /\ Described
  /\ current.id \notin Published
  /\ current.id \in Blobs => ~sized /\ ~named
  /\ NextObject
  /\ UNCHANGED <<version, left, repo, seen, found, scanned, findings, stream,
                 processes, fixed, result, gitHistory, examined, outcome>>

(* A published object id is a match without a body.                           *)
Identify ==
  /\ Described
  /\ current.id \in Published
  /\ findings' = findings \cup {PayloadFinding(current.id)}
  /\ examined' = examined \cup {Look("identity", current.id)}
  /\ NextObject
  /\ UNCHANGED <<version, left, repo, seen, found, scanned, stream, processes,
                 fixed, result, gitHistory, outcome>>

(* Mutant: any blob over the limit fails its repository.                      *)
Oversized_AlwaysFails ==
  /\ Described
  /\ current.id \in Large \ Published
  /\ sized \/ named
  /\ Fail
  /\ UNCHANGED <<version, left, repo, seen, found, scanned, findings, stream,
                 processes, fixed, gitHistory, examined, outcome>>

(* Mutant: the limit is applied to the header of the body, left unread.       *)
Oversized_AfterRequest ==
  /\ Described
  /\ current.id \in Large \ Published
  /\ asked' = current.id
  /\ \/ sized /\ Fail /\ UNCHANGED findings
     \/ /\ named /\ ~sized /\ NextObject /\ UNCHANGED result
        /\ findings' = findings \cup {Finding("scan-limited", "INFO", repo)}
  /\ UNCHANGED <<version, left, repo, seen, found, scanned, walk, current, pipe,
                 processes, fixed, gitHistory, examined, outcome>>

(* reportOversizedGitBlob: a failure if the length matched, else a limit.     *)
Oversized ==
  /\ Described
  /\ current.id \in Large \ Published
  /\ \/ sized /\ Fail /\ UNCHANGED findings
     \/ /\ named /\ ~sized /\ NextObject /\ UNCHANGED result
        /\ findings' = findings \cup {Finding("scan-limited", "INFO", repo)}
  /\ UNCHANGED <<version, left, repo, seen, found, scanned, stream, processes,
                 fixed, gitHistory, examined, outcome>>

WantBody ==
  /\ Described
  /\ current.id \in Blobs \ (Published \cup Large)
  /\ sized \/ named
  /\ pc' = "request"
  /\ UNCHANGED <<version, left, repo, seen, found, scanned, findings, stream,
                 processes, fixed, result, gitHistory, examined, outcome>>

(* readGitBlob: contents.request writes the id and reads a header ...         *)
RequestBody ==
  /\ pc = "request"
  /\ asked' = current.id
  /\ pc' = "header"
  /\ UNCHANGED <<version, left, repo, seen, found, scanned, findings, walk,
                 current, pipe, processes, fixed, result, gitHistory, examined,
                 outcome>>

header(id) == [kind |-> "header", id |-> id]
body(id) == [kind |-> "body", id |-> id]
unavailable(id) == [kind |-> "unavailable", id |-> id]

ReadHeader ==
  /\ pc = "header" /\ pipe # <<>>
  /\ pipe' = Tail(pipe)
  /\ IF Head(pipe) = header(current.id)
       THEN pc' = "body" /\ UNCHANGED result
       ELSE Fail
  /\ UNCHANGED <<version, left, repo, seen, found, scanned, findings, walk,
                 current, asked, processes, fixed, gitHistory, examined, outcome>>

(* recordGitHistoryHit: one entry for an indicator, naming its first blob.    *)
recordGitHistoryHit(hits) ==
  [i \in DOMAIN gitHistory \cup hits |->
     IF i \notin DOMAIN gitHistory THEN [id |-> current.id, revisions |-> 1]
     ELSE [gitHistory[i] EXCEPT !.revisions = @ + IF i \in hits THEN 1 ELSE 0]]

(* ... then exactly one body, hashed if the length matched (matchGitPayload-  *)
(* Hash) and inspected if the name did (inspectGitBlob).                      *)
ReadBody ==
  /\ pc = "body" /\ pipe # <<>>
  /\ LET data == Head(pipe).id IN
       /\ examined' = examined \cup
            (IF sized THEN {Look("hash", data)} ELSE {}) \cup
            (IF named THEN {Look("name", data)} ELSE {})
       /\ findings' = IF sized /\ data \in Payload
                        THEN findings \cup {PayloadFinding(current.id)} ELSE findings
       /\ gitHistory' = IF named THEN recordGitHistoryHit(Carries[data]) ELSE gitHistory
  /\ pipe' = Tail(pipe)
  /\ NextObject
  /\ UNCHANGED <<version, left, repo, seen, found, scanned, walk, current, asked,
                 processes, fixed, result, outcome>>

BatchFails ==
  /\ pc \in {"request", "header", "body"} /\ "batch" \in died /\ pipe = <<>>
  /\ Fail
  /\ UNCHANGED <<version, left, repo, seen, found, scanned, findings, stream,
                 processes, fixed, gitHistory, examined, outcome>>

-----------------------------------------------------------------------------
(* Mutant: rev-list's exit status is not looked at.                           *)
WaitList_IgnoresStatus ==
  /\ pc = "wait"
  /\ IF walk.missing > 0 THEN Fail
       ELSE pc' = "closeContents" /\ UNCHANGED result
  /\ UNCHANGED <<version, left, repo, seen, found, scanned, findings, stream,
                 processes, fixed, gitHistory, examined, outcome>>

(* The ends of the three processes, in the order the scanner waits for them:  *)
(* walkGitObjects waits for rev-list and then looks at what was missing; the  *)
(* deferred calls of scanGitObjects close contents and then metadata.  An     *)
(* error cancels the rest, whose own status is then of no interest.           *)
WaitList ==
  /\ pc = "wait"
  /\ IF "list" \in died \/ walk.missing > 0 THEN Fail
       ELSE pc' = "closeContents" /\ UNCHANGED result
  /\ UNCHANGED <<version, left, repo, seen, found, scanned, findings, stream,
                 processes, fixed, gitHistory, examined, outcome>>

CloseContents ==
  /\ pc = "closeContents"
  /\ IF "batch" \in died THEN Fail
       ELSE pc' = "closeMetadata" /\ UNCHANGED result
  /\ UNCHANGED <<version, left, repo, seen, found, scanned, findings, stream,
                 processes, fixed, gitHistory, examined, outcome>>

CloseMetadata ==
  /\ pc = "closeMetadata"
  /\ IF "check" \in died THEN Fail ELSE pc' = "conclude" /\ UNCHANGED result
  /\ UNCHANGED <<version, left, repo, seen, found, scanned, findings, stream,
                 processes, fixed, gitHistory, examined, outcome>>

(* flushGitHistory, deferred: what was found is reported under the repository *)
(* just left, whether its scan was completed or not, and s.gitHistory is nil. *)
flushed ==
  {[check |-> "git-history", severity |-> "CRITICAL", path |-> repo, indicator |-> i,
    id |-> gitHistory[i].id, revisions |-> gitHistory[i].revisions] : i \in DOMAIN gitHistory}

(* Mutant: what was found is reported only by a completed scan.               *)
Conclude_FlushOnSuccess ==
  /\ pc = "conclude"
  /\ IF result = "ok"
       THEN scanned' = scanned + 1 /\ findings' = findings \cup flushed
       ELSE scanned' = scanned /\ findings' = findings \cup {gitScanError(repo)}
  /\ gitHistory' = NoHits
  /\ Leave(IF result = "ok" THEN "scanned" ELSE "failed")
  /\ UNCHANGED <<version, left, repo, seen, found, stream, processes, fixed,
                 result, examined>>

Conclude ==
  /\ pc = "conclude"
  /\ IF result = "ok"
       THEN scanned' = scanned + 1 /\ findings' = findings \cup flushed
       ELSE scanned' = scanned /\ findings' = findings \cup {gitScanError(repo)} \cup flushed
  /\ gitHistory' = NoHits
  /\ Leave(IF result = "ok" THEN "scanned" ELSE "failed")
  /\ UNCHANGED <<version, left, repo, seen, found, stream, processes, fixed,
                 result, examined>>

-----------------------------------------------------------------------------
(* reportGitCoverage, the last call of scanGitRepositories.                   *)
ReportCoverage ==
  /\ pc = "next" /\ left = <<>>
  /\ findings' = findings \cup {Finding(v.check, v.severity, v.path) :
                                v \in reportGitCoverage(version, found, scanned)}
  /\ pc' = "done"
  /\ UNCHANGED <<version, left, repo, seen, found, scanned, stream, processes,
                 fixed, result, gitHistory, examined, outcome>>

-----------------------------------------------------------------------------
(* What Git does.  cat-file --batch answers what it was asked: the object, or *)
(* that it has gone (pruned since it was listed).                             *)
BatchAnswers ==
  /\ asked # NoObject /\ "batch" \notin died
  /\ asked' = NoObject
  /\ \/ pipe' = pipe \o <<header(asked), body(asked)>> /\ UNCHANGED trouble
     \/ pipe' = Append(pipe, unavailable(asked)) /\ trouble' = TRUE
  /\ UNCHANGED <<scanner, walk, current, died, expired, fixed, result, gitHistory,
                 examined, outcome>>

ProcessDies ==
  /\ pc \in Scanning \ {"shallow", "start", "conclude"}
  /\ \E p \in Processes \ died : died' = died \cup {p}
  /\ trouble' = TRUE
  /\ UNCHANGED <<scanner, stream, expired, fixed, result, gitHistory, examined, outcome>>

(* Mutant: cat-file --batch is started without the context.                   *)
killed_NotBatch == Processes \ {"batch"}

(* The deadline of the context: CommandContext kills what still runs.         *)
killed == Processes

Expire ==
  /\ pc \in Scanning \cup {"discover"} /\ ~expired
  /\ expired' = TRUE /\ trouble' = TRUE
  /\ died' = died \cup killed
  /\ UNCHANGED <<scanner, stream, fixed, result, gitHistory, examined, outcome>>

-----------------------------------------------------------------------------
(* The scanner's own steps, none of which waits for a Git that still runs.    *)
Own ==
  \/ LookPath \/ recordGitVersion \/ NextRepository \/ ReportCoverage
  \/ StartProcesses \/ ReadHeader \/ ReadBody \/ RequestBody \/ BatchFails
  \/ WaitList \/ CloseContents \/ CloseMetadata \/ Conclude \/ EndOfStream

(* A command that is past its deadline has failed.                            *)
Overdue == expired /\ (DiscoveryFails \/ ShallowFails \/ StartFails \/ MetadataFails)

(* The steps that a Git must take part in for the scanner to go on.           *)
Git ==
  \/ DiscoveryFails \/ SkipSeen \/ CountRepository
  \/ ShallowFails \/ ShallowAnswers \/ StartFails
  \/ ReadID \/ ReadToken
  \/ MetadataFails \/ PassOver \/ Identify \/ Oversized \/ WantBody
  \/ BatchAnswers \/ ProcessDies

Next == Own \/ Git \/ Expire

Spec == Init /\ [][Next]_vars

(* The kernel's timer fires and the scanner runs; nothing is assumed of Git.  *)
FairSpec == Spec /\ WF_vars(Own) /\ WF_vars(Expire) /\ WF_vars(Overdue)

-----------------------------------------------------------------------------
Items == {header(id) : id \in Objects} \cup {body(id) : id \in Objects}
           \cup {unavailable(id) : id \in Objects}

(* Every variable holds a value of its kind; no more repositories are counted *)
(* than were discovered.                                                      *)
TypeOK ==
  /\ pc \in {"lookup", "version", "next", "discover", "done"} \cup Scanning
  /\ installed \in Versions \ {"garbled"} /\ version \in Versions
  /\ repo \in Paths \cup {NoRepo} /\ seen \subseteq Commons
  /\ found \in 0..Len(discovered) /\ scanned \in 0..found
  /\ \A f \in findings : f.severity \in Severities
  /\ lost \subseteq Objects
  /\ walk.announced \in Nat /\ walk.missing \in Nat
  /\ walk.id \in Objects \cup {NoObject} /\ current.id \in Objects \cup {NoObject}
  /\ asked \in Objects \cup {NoObject} /\ pipe \in Seq(Items)
  /\ died \subseteq Processes /\ {expired, trouble} \subseteq BOOLEAN
  /\ result \in {"ok", "error"}
  /\ DOMAIN gitHistory \subseteq Indicators
  /\ outcome \in [Paths -> {"unvisited", "skipped", "failed", "scanned"}]

Incomplete == {f \in findings : f.check = "scan-incomplete" /\ f.severity = "WARN"}

(* "The failures are listed individually above" (reportGitCoverage): between  *)
(* two repositories, each that was found and not completed has exactly one    *)
(* warning under its own path, and one that was completed has none.           *)
FailuresAreListed ==
  LET listed == {f \in Incomplete : f.path \in Paths}
      inside == IF pc \in Scanning THEN 1 ELSE 0 IN
    /\ found = scanned + inside + Cardinality(listed)
    /\ {f.path : f \in listed} = {p \in Paths : outcome[p] = "failed"}

(* A repository that counts as completed was: none of its objects was absent, *)
(* and every blob was identified, hashed or opened as its id, its length and  *)
(* (where Git tells it) its name call for.                                    *)
ScannedIsComplete ==
  \A p \in Paths : outcome[p] = "scanned" =>
    \A k \in DOMAIN History[Common[p]] :
      LET id == History[Common[p]][k]
          Did(how) == [path |-> p, id |-> id, how |-> how, body |-> id] \in examined IN
        /\ id \notin lost
        /\ id \in Published => Did("identity")
        /\ id \in Sized \ Published => Did("hash")
        /\ id \in Named \ (Published \cup Large) => ~gitPathsSupported(version) \/ Did("name")

position(p, id) ==
  CHOOSE k \in DOMAIN History[Common[p]] : History[Common[p]][k] = id

(* However the walk ended, nothing that was found is lost or strays: the      *)
(* indicators of the blobs opened by name are reported once, under their own  *)
(* repository, with their first blob and the number of blobs, or on their way *)
HitsAreReported ==
  \A p \in Paths, i \in Indicators :
    LET with == {e \in examined : e.path = p /\ e.how = "name" /\ i \in Carries[e.id]}
        told == {f \in findings : f.check = "git-history" /\ f.path = p /\ f.indicator = i} IN
      IF p = repo /\ pc \in Scanning
        THEN /\ told = {}
             /\ i \in DOMAIN gitHistory <=> with # {}
             /\ with # {} => gitHistory[i].revisions = Cardinality(with)
        ELSE /\ Cardinality(told) = IF with = {} THEN 0 ELSE 1
             /\ \A f \in told : /\ f.revisions = Cardinality(with)
                                /\ \E e \in with : e.id = f.id
                                /\ \A e \in with : position(p, f.id) <= position(p, e.id)

(* What is hashed or inspected as an object is the content of that object:    *)
(* the two cat-file streams never get out of step.                            *)
BodiesAreTheirs ==
  /\ \A e \in examined : e.body = e.id
  /\ pc \in {"walk", "check"} => pipe = <<>> /\ asked = NoObject

(* A repository is not given up for nothing: unless Git failed, an object is  *)
(* missing, or a blob of a payload's length is over the limit, it completes.  *)
NoFalseAlarm ==
  result = "error" =>
    \/ trouble
    \/ \E k \in DOMAIN Order : Order[k] \in lost \cup ((Sized \cap Large) \ Published)

(* A Git half without a warning is a whole one: each discovered repository    *)
(* was completed through one of its worktrees, and by name as well.           *)
CleanMeansWhole ==
  pc = "done" /\ {f \in findings : f.severity # "INFO" /\ f.path \notin Paths} = {}
              /\ Incomplete = {} =>
    /\ discovered # <<>> /\ gitPathsSupported(version)
    /\ \A j \in DOMAIN discovered : \E q \in Paths :
         Common[q] = Common[discovered[j]] /\ outcome[q] = "scanned"

(* The Git half ends although Git may hang at every question: only the        *)
(* deadline and the scanner itself are relied on.                             *)
ScanEnds == <>(pc = "done")

=============================================================================
