# A formal model of surplies

surplies scans one machine for traces of supply-chain attacks: it reads files, walks
directories, asks Git about history, takes one look at processes and connections, and prints
a report. It changes nothing, and nothing depends on it, except a reader: the one failure
that matters is **a report that reads as clean although something was not looked at**. The
second is a scan that does not end. Nearly every property below is one of these two.

The source is under `src/`; paths here are relative to it.

## 1. The system

| Part | Source | State | Operations | Talks to |
|---|---|---|---|---|
| Command line | `main.go`, `pause*.go` | flags | parse, resolve scope, run, exit status 0/1/2 | scanner, schedule |
| Orchestration | `internal/scan/scanner.go`, `modes.go` | `Scanner`: findings, counters, stall budget, sets of checked paths | `Run`: artifacts, persistence, walk, Python, processes, network, Git, `finalizeStalls` | every part below |
| File reads | `content.go` | per read: goroutine, timer, `cancel`, `done`, open file; per scanner: time lost, abandoned, skipped | `processFilePolicy`, `finishFileResult`, `recordTimeout`, nested reads | cache, the file system, checks (callbacks) |
| Content cache | `content_cache.go` | LRU list, map, byte count, one lock | `get`, `put`, `remove`, `readCachedContent` | shared by the workers of all reads |
| Walk and discovery | `roots.go`, `discovery.go`, `temp.go` | roots walked; per consumer what it skips | `walkScanRoots`, `scanSharedDiscovery`, temp staging | project checks, Python, temp, Git discovery (callbacks) |
| Git history | `git.go`, `git_content.go` | repositories seen, counters, hits held back for grouping | `scanGitRepositories`, `scanGitObjects`, batch requests, verdicts | three Git processes over pipes |
| Network | `network.go` | pending sources, results channel | `inspectNetwork`, `matchNetworkEndpoints` | `netstat`, name servers |
| Processes | `process*.go` | a snapshot, two counts | `listProcesses`, `inspectProcess` | the operating system, file reads |
| Targeted checks | `persistence.go`, `startup.go`, `toolchains.go`, `python.go`, `composer.go`, `tasks.go`, `dependency_content.go`, `heuristics.go` | sets of checked paths (`persistenceChecked`, `scriptChecked`, `packageChecked`) | one check per file kind | file reads |
| Content scope | `content_scope.go` | what each directory is (`contentDirs`, `dependencyDirs`) | `classifyContentDir`, `routineContentFile` | the walk, targeted checks |
| Data | `assets.go`, `ioc.go` | none | tables and header magic | everything |
| Report | `report.go`, `report_print.go`, `debug*.go` | none | group, print, save | findings and counters |
| Schedule | `internal/schedule/schedule.go` | files and the service manager's own state | `install`, `disable`, `remove` | systemd or launchd |
| Notification | `scripts/notify/*.sh` | none | scan, map the exit status to a notification | the binary |

Where it is hard:

* **File reads** run in goroutines that may hang for ever. The reader gives up on them, they
  go on, and an inspection may itself read files under timers of its own. A read that ended
  in the same instant as its timer must not be lost, one left behind must not speak, and a
  scan over dead storage must stop reading and say what it did not read.
* **The cache** is shared by workers, including those left behind, while other programs write
  and rename the files.
* **Git** is three processes driven through pipes, each of which may die, stall or disagree
  with the others, and whose output looks complete when it is not.
* **The walk** is shared by consumers that prune differently, over roots that overlap, are
  links, or are missing.
* **The targeted checks** come to the same files along different ways (by a fixed path, below a
  system root, in the walk, as what a manifest names) and leave marks so that none is read
  twice, on files that appear, change and vanish meanwhile. A mark left by a check that looked
  for less than the next one would have loses evidence; so does a directory taken for something
  it is not because its listing failed.
* **The network check** races collectors against a deadline.
* **The schedule** commands are sequences of persistent changes, any of which may be the last
  one; what is left must be neither armed without its files nor promised and not running.

What makes each part correct is stated at its properties, section 4. The hazards are in
`PROJECT.json`, each at its line with the properties that watch over it.

## 2. Modules

| Module | Models | Kind |
|---|---|---|
| `ScanReport` | what the report of a scan promises | abstract |
| `FileReads` | the file-read pipeline | detailed, implements `ScanReport` |
| `FileReadsInv` | its inductive invariants | |
| `FileReads_proofs` | proofs about it | TLAPS |
| `ContentCache` | the cache and its readers, with its inductive invariant | detailed |
| `ContentCache_proofs` | proofs about it | TLAPS |
| `SharedDiscovery` | the shared walk | detailed |
| `SharedDiscovery_proofs` | proofs about it, with its inductive invariants | TLAPS |
| `GitHistory` | the Git half | detailed |
| `GitHistoryInv` | its inductive invariant | |
| `GitHistory_proofs` | proofs about it | TLAPS |
| `GitVerdict` | what the Git half amounts to: verdicts and banners from its counters | operators |
| `NetworkSnapshot` | the network check | detailed |
| `NetworkSnapshot_proofs` | proofs about it, with its inductive invariant | TLAPS |
| `ContentChecks` | what the content checks say of the bytes of one file | operators |
| `ScanFiles` | files in use by others, and what a check leaves: findings, marks, gaps | shared part |
| `ContentScope` | what the walk takes a directory for, and which files it reads by that | shared part |
| `TargetedChecks` | the checks before the network phase, one task after the other | detailed |
| `ProcessSnapshot` | the process check | detailed |
| `LocalChecks` | both, in the order of `Run` | composition |
| `LocalChecksInv` | its inductive invariant | |
| `LocalChecks_proofs` | proofs about it | TLAPS |
| `DailySchedule` | what the schedule commands promise | abstract |
| `ScheduleCommand` | what a command is on any platform: steps that may fail or be the last | shared part |
| `SystemdSchedule`, `LaunchdSchedule` | the commands on Linux and on macOS | detailed |
| `Schedule` | one or the other, by `installer.goos` | composition, implements `DailySchedule` |
| `Schedule_proofs` | proofs about it, with the inductive invariant of each platform | TLAPS |
| `ScanRun` | a whole run: arguments, phases, summary, exit status, notification | composition of what the parts report |
| `ScanRun_proofs` | proofs about it, with its inductive invariants | TLAPS |
| `MC*` | small instances of the above for TLC | |

Operators named `X_Y`, each under a comment that begins "Mutant:", are `X` with one plausible
bug. No specification uses them; `PROJECT.json` pairs each with the property that catches it.

### FileReads

`pc[g]` is where a goroutine is: `Main`, which runs `Scanner.Run`, or the worker of a read.
Every goroutine has a scanner (`Run`'s own or the worker's private `local`), whose
`Findings`, budget and counters are functions of the goroutine. A worker goes through stat,
open, the cancel check, read, the second check, inspect, send. While it inspects it is a
reader like `Main` and may start reads of its own, to any depth `Reads` allows. A reader
waits for its result or its timer; after the timer it looks at the channel once more
(`TakeEdgeResult`), and only then books the timeout.

Correspondence: `BeginRead`/`SkipRead` are the head of `processFilePolicy`; `StartWorker` the
channels, timer and `go`; `TimerFires`, `TakeResult`, `TakeTimer`, `TakeEdgeResult`,
`BookTimeout` its two `select`s; `recordTimeout` is split where the code releases the lock;
`finishFileResult`, `mergeFileResult` and `optionalFileMissing` are operators of those names;
`FinishScan` is the end of `Run` with `finalizeStalls`.

Abstractions: time is not counted, a running timer may fire at any moment (more behaviours
than the code has, never fewer); a timeout costs one unit of the budget, of which the code has
12; closing the file under a hung read appears as that read failing; the racing write of the
`Findings` slice header by a late worker is one atomic addition.

### ContentCache

A file's content is a pair of halves, each at a version, since a read is not atomic. A reader
opens, stats, looks up, reads prefix and rest, stats again and stores; `get` and `put` are
atomic because they hold the lock. What the prefix decides is modelled for both policies
(`readScanContent`): native code is excluded from either, other binary content from a source
read, and an asset with the header its name promises is read, and cached, as its prefix alone.
What has the name of a published payload, or its size as far as the first stat told it, is
kept from being dropped (`candidate`). What a file is, and how long, is fixed: a write changes
its version, a rename may put a file of another class or length under the name. `Write` changes
a file in place, `Rename` puts another file under a path, whoever is reading. The FileInfo of a file is its identity and version:
that each write changes size or mtime is taken from the file system (two writes of the same
size within one mtime tick are outside the model). `order` is the list of recent use, from which
an element is taken out through the map (`without`); what is dropped from its back, or held in
all, is a set of bytes, each with the path that holds it, and the code's sums are its size
(`bytesOf`).

### SharedDiscovery

A path is the sequence of its names, a listing returns any part of a directory in any order.
The tree is in use: `ComeOrGo` removes an entry with all that is in it, or brings it back,
between any two steps (`Fleeting` names the entries, `MaxChanges` bounds how many do); a
directory that is gone when it is to be listed is an error, as in the code. A root may be
given as a link to a directory, with `-only` too (`os.Stat` follows it). Of the candidates for
the temp directory that lead to one directory the first is kept, under its own spelling
(`tempSpellings`). `NextRoot` is the
loop of `walkScanRoots`; `VisitEntry` is `rootVisitor` and then `discoveryVisitor.apply` of each consumer, `ReadDirectory` the listing
in `walkClassified`. Init covers `resolveScanScope`, with and without `-only`,
`-skip-tmproots` and deep reads. The names storage exclusions match are one set
(`Boundaries`). `prunes` says what each consumer returns `SkipDir` for: the project checks,
Python and Git go by the name of the entry itself, the temp consumer by the spelling it was
reached under, as storage exclusions do.

### GitHistory

The scanner is sequential and `pc` is its place; the three processes are what they still have
to say, whether they live, and whether they hang. A request to a batch process and its answer
are two steps with the process in between. The deadline may pass at any moment and kills what
runs in its context (`exec.CommandContext`). Blobs are told apart by the five things the code
asks of them: published, sized, named, large, carrying an indicator. `discovered` is what the
walk collected (`s.discovery.git`); without a shared walk the same calls are made from a walk of
its own, in its order. Left out: the wording
and category of an error, the INFO line of a shallow clone, ids that do not parse.

### NetworkSnapshot

One process per collector, one buffered channel, one deadline; after it the loop of
`remoteEndpoints` over the rows of netstat's output, one step for each row: one that is not TCP
or not established is passed over (`SkipRow`), one that is too short or whose endpoint does not
parse leaves `parseErr` and is passed over too (`PassUnreadable`), the others give a peer
(`TakePeer`). The syntax of a row is reduced to these kinds, and the three platforms'
formats to one.

### ContentChecks, ScanFiles, ContentScope, TargetedChecks

A file's content is a record of what the checks tell apart: is it there, what its head looks
like, whether it carries a signature, plainly or escaped or only in a comment, is a published
payload, hides one behind padding, or calls for review. `ContentChecks` translates each check
of bytes into the names of its findings; its operators carry the names of the Go functions.
What a path is called is constant (`Kind`, `Ext`, `DirKind`), what is in it is not: `Change`
puts other content at a path between any two checks.

`agenda` is what `Run` still has to do, a sequence of tasks `<<check, path>>`; each task is an
action that performs the whole call with every read it makes, and ends in `Conclude`, which
adds its findings and marks. A read is atomic here; what may happen inside one is `FileReads`.
`processFile` says what a check sees of it: data, a gap, or nothing for an optional file that
is missing. The data is what `readScanContent` returns: of an executable, of an asset with its
header and, as a source, of any binary file the head only (`fileBytes`, `sourceBytes`), unless
it may be a published payload. `checkPackageManifest` includes what the manifest leads to, the lifecycle targets
of its scripts and, deep, its entrypoints, read on a private scanner whose marks come with its
findings. A directory of packages puts the checks of its packages on the agenda.

A `list` task is `walkClassified` reading a directory: `entries` grows by what the listing
returned, all of it or, when it fails, a part, and `classifyContentDir` says by that part and
by the parent whether the directory belongs to a project or to a dependency. Fonts and files of
a published length are read or not by this. `visitProject` is what the walk does with a file;
without deep reads (a setting of the `Scanner`; the command line always reads deep) it ends at
the directories it has checks for, and `persistenceOrDescend` looks at the names below.

Abstractions: a file of a published length is one of the published bytes; `composer` and
`.git` are seen as entries of their directory and nothing more; the persistence walk of a
pruned directory is the same sequence of visits as the walk. The walk of a persistence root is
one task for each file it may come to, in scope if its root is: `VisitSystem` names the
listings on the way that failed, up to the one, if any, that lost the file. A package is one
task, with the listing of its scope and the link it may be (`scopeFails`, `linkErrors`): a
scope of several packages that cannot be listed is named with each of them.

### ProcessSnapshot, LocalChecks

`CollectProcesses` is the collector of any platform: it returns some of the processes, was not
allowed to read others, and others again had ended. `InspectProcess` looks at one command line
and reads its script by path as it is *now*. `LocalChecks` runs this after the targeted checks
and lets files change throughout; under `-only` it is left out, as in `Run`.

### DailySchedule, ScheduleCommand, SystemdSchedule, LaunchdSchedule, Schedule

A file is named after the installation that wrote it, so that "the timer of this installation
starts the helper of that one" can be told. Each step of a command succeeds, fails (the
command ends with an error), or is the last before it is killed or the machine reboots.
systemd and launchd are modelled as far as the commands rely on them: what is enabled, what is
loaded, what an override prevents, what a login loads. `XDG_CONFIG_HOME` is the same in every
command and for the manager.

### GitVerdict, ScanRun

`run` is what a run was asked for and what is wrong with that; `pc` names the next phase of
`Scanner.Run`, and each phase is one action that chooses what it reports: indicators of any
severity, a gap (with the warning that `FileReads`, `NetworkSnapshot` and `GitHistory` show
it leaves), or the timeout that exhausts the stall budget. `gaps` is history: what was not
looked at, whatever was said of it. After the phases come the summary, the status and, in a
run of the daily helper, the notification. The process may die anywhere between, with 137 if
it is killed and 2 if the Go runtime ends it. A Git version is one of five that the code's
comparisons tell apart; its verdict and its banners are `GitVerdict`, which `GitHistory` uses
too. Left out: what is printed during the scan, where the report is saved and whether that
works (neither changes the rest), `-json`, and the pause of a Windows console.

## 3. How the modules compose

`FileReads` is the composition of readers, workers and timers, and calls to the cache are
abstract in it: a read returns data or an error, whichever path it took; `ContentCache` shows
that it may (what the cache returns is something the read could have returned).
`SharedDiscovery` shows which entries the walk reaches, `LocalChecks` what is done with each
and in what order, `FileReads` how one of them is read. `LocalChecks` EXTENDS `TargetedChecks`
(and with it `ContentScope`) and `ProcessSnapshot` over the files of one `ScanFiles`.
`Schedule` holds an instance of each platform and `Promised == INSTANCE DailySchedule WITH ...`, `FileReads`
contains `Report == INSTANCE ScanReport WITH ...`; the mapped specifications are properties of
the runs. `ScanRun` composes the phases by what they report, and shares `GitVerdict` with
`GitHistory`.

## 4. What is checked

Every run is exhaustive. Deadlock is checked where the system runs for ever (cache,
schedules); the other specifications stop when the scan ends (`CHECK_DEADLOCK FALSE`). That
reads, Git and the network check stop nowhere else is what their liveness properties show;
the walk, the targeted checks and the phases of a run are sequential and wait for nothing but
these. The type invariants and the inductive invariants of section 6 are in no run. Each of the
latter held when TLC checked it on the instances below (`EvidenceInv` on one with fewer files),
before it was proved; the type
invariants of `FileReads` and `ContentCache` are part of them, the others document their module.

| Run | Instance | Shows |
|---|---|---|
| `reads` | 3 reads, 1 file, budget 2, 1 skip | `StallBudgetKept`; `FinishedReadIsTaken` (a read that ended with its timer is not booked as a timeout); `TimedOutWorkerIsSilent`; `ImplementsReport` |
| `reads_placeholders` | 2 reads, 2 files, budget 1, placeholders, fairness | `ReadIsAccounted` (each read ends in findings merged, an error, a timeout warning or the abandonment finding); `NeverLooksClean`; `MarkedIsCovered` (a target marked as checked was read or its gap is named); `CountMatchesCoverage`; `ScanEnds` |
| `reads_late` | 1 read, placeholders | **violated**, see section 5 |
| `cache` | 2 paths, one of any name and one of a font under which a payload was published; 2 readers; a font of 1 unit and a native payload of 2, capacity 2, 2 writes or renames | `CacheIsWhole`, `ReadsAreFresh`, `PolicyIsKept`, `AccountingIsExact` |
| `discovery` | home, roots around, inside and linked, a temp directory, every flag, every listing order and failure, one directory that comes or goes | `AtMostOnce`, `KeepsItsPruning`, `StagingIsMatched`, `NothingIsMissedSilently` |
| `discovery_nested` | temp directory inside home | **violated**, see section 5 |
| `git` | 2 worktrees of one repository with every kind of blob, a second repository, or none; every Git version; any one object missing; fairness | `FailuresAreListed`, `HitsAreReported`, `CleanMeansWhole`, `ScannedIsComplete`, `BodiesAreTheirs`, `NoFalseAlarm`, `ScanEnds` |
| `network` | netstat with up to 2 rows of any kind, 2 domains, 3 addresses (listed, public, private), fairness | `EverySourceIsAccounted`, `PeersAreCompared`, `CheckEnds` |
| `schedule` | either platform, 2 settings, any sequence of commands, failures, kills, reboots | `KeepsItsPromise` (implements `DailySchedule`), `ArmedIsRunnable`, `RemovedIsGone`, on macOS also `StoppingIsNeverRefused` |
| `scan_run` | run by hand or by the helper, every scope and refusal, 0 to 4 repositories, every Git version | `SilenceIsEarned` (0 and silence only after a whole, clean scan), `TwoIsDeserved` (the README's meaning of 2), `SummaryAgrees` (result, coverage, banners, status and findings tell one story) |
| `targeted` | one of everything: npm, an application, a toolchain, startup files, a project with sources, fonts and an editor's files, npm (in a scope), Composer and Python packages, two processes; any one file odd, any one listing failing, or both; one change | `EvidenceIsReported` (no mark and no misjudged directory hides a signature, a renamed payload or a fake font), `MarksAreEarned` (what is marked as checked was read, reported, or is a gap), `NothingIsReadTwice`, `OnlyReadsInside` (of `-only`), `QuietFilesStayQuiet` (nothing is said of clean or absent files), `ProcessesAreAccounted` |
| `targeted_names` | the same, a lifecycle script runs a file with an artifact's name | **violated**, see section 5 |

Why the bounds are enough. Three reads are a read, one nested in it, and one after or inside
that; a budget of two lets one timeout pass and the next one trip it; one skip shows the
count that is reported, two would only count further. One file is enough where paths matter
only as names in findings; marks need two. Two readers of two paths and two changes show every
overlap of a read with a write, a rename, both, and another read; every class of file comes
under every kind of name by a rename. The font is binary content of
any name, left out of source reads and kept by full ones, or an asset of which only the prefix
is kept, and fits beside another entry; the payload is native code, a candidate by one name or
by its size where the stat succeeds, and fills the cache and evicts. Evicting several entries
at once takes a third path, and content over the whole capacity, which `put` leaves alone, a
third file: neither is in the run, and both are in the proof, which is for any lengths. Two rows of netstat are one that can or cannot be read before or after one that can. The second repository of `git`
holds a blob that no scan can complete, so whether it is discovered decides between a whole
result and one with a gap. Two settings are an old and a new one. `MaxSkips` and `MaxChanges`
(of the cache, the tree and the files) are the only bounds on what would otherwise count for
ever; they are guards, as is `MaxRepositories` on what one scan finds. `MaxRows` bounds the
choice of netstat's output. The `schedule`
run has no bound on the number of commands. In `discovery` one of two directories comes or goes, one inside a temp directory and one a
repository's `.git`, each between any two steps of the walk; a second change would meet the
walk in a state the first had left. In `targeted` odd content is met together with each failing
listing that could hide it, but no two odd files meet, except that one of two files (an
application's entrypoint, which three checks come to, and a source, which is also a running
script) may turn odd, or back, at any moment beside one that is (`MaxOdd`). A failed listing
loses one entry or all (`MaxLost`). The two orders of the walk put the package before and
after the files it shares with other checks, and the project before and after home's.
Four repositories are the fewest of which exactly
a quarter can fail, where the threshold and its rounding differ.

Fairness. In `reads_placeholders` it is assumed of timers, of `Main`, and of a worker only
where it is not inside a file-system call: Go runs a runnable goroutine and fires a due timer,
and the point of the design is that nothing is assumed of storage. In `git` it is assumed of
the scanner and of the deadline (`exec.CommandContext` kills, `Wait` returns), of Git nothing.
In `network` of the loop and the deadline, not of collectors. There are no liveness properties
of the schedules: whether the user runs another command is up to the user.

## 5. What does not hold

1. **A timed-out worker can still report** (`reads_late`). `openForRead` runs on the parent
   scanner, before `local` exists. A `stat` that answers after the deadline and finds a
   placeholder calls `s.recordDataless` on the parent (`internal/scan/content.go:286`),
   although "a timed-out worker can never append findings after the parent has moved on"
   (`content.go:238-239`). It can do so while `Run` reads `Findings` for its return. The
   run without placeholders (Linux) keeps the property.
2. **A temp directory inside home is not searched** (`discovery_nested`). `visitTempArtifact`
   prunes every directory outside the temp roots, so it is never shown what is below home, and
   `tempWalkRoots` leaves out a temp directory that home contains as "covered by that walk"
   (`internal/scan/temp.go:105-107`). Where they are disjoint, `StagingIsMatched` holds.
3. **A file run by a manifest is not reported for its name** (`targeted_names`).
   `checkScriptTarget` marks what a lifecycle script runs as `scriptChecked` and reads it for
   its content; so does `inspectDependencyTarget` with a declared entrypoint. The walk then
   returns at `content.go:585`, before it looks at the name, although "name-based checks run
   first and short-circuit" (`content.go:569-571`). A package whose preinstall is
   `node router_init.js`, one of `KnownRepoArtifacts`, has that file reported only if its content
   gives it away.

Not in a run, but plain from the models:

* **What a consumer skips outlives the walk it skipped it in.** `discoveryVisitor.skip`
  (`internal/scan/discovery.go:15-28`) is cleared when the next entry lies elsewhere, and
  never between two roots. If what a consumer skipped last in one walk is spelled above the next
  root, which takes a root given as a link inside a directory it prunes (`-root ~/.git/link`
  when `.git` was the last entry shown), it sees nothing of that root, although "each consumer
  keeps its original pruning rules" (`discovery.go:10`). The temp consumer always ends the walk
  of home skipping home, so a temp directory that `-root` gives by a link inside home is not searched
  for staging names. The roots of `discovery` lie open; with a link in a pruned directory TLC
  finds `KeepsItsPruning` violated, and the proof has `RootsLieOpen` as its hypothesis.
* **A hung file inside an inspection is not named.** Both reads have the same timeout and the
  outer one began first, so the outer warning is the one that stays and the inner scanner is
  dropped with its own; "each timed-out file is its own warning -- it is named"
  (`content.go:126-127`) holds of the manifest, not of the target that hung.
  `ReadIsAccounted` is what does hold: the gap is named at the file whose inspection was lost.
* **Status 2 is not always a verdict.** `flag.CommandLine` exits with 2 for a flag it does not
  know, and the Go runtime does after a panic or when memory runs out. The helpers announce
  every 2 as "Surplies: Critical", but `README.md:207` lists what 2 means, and
  `scripts/README.md:68-70` says that "a failed run" must never be announced as an attack. For
  completed scans `TwoIsDeserved` holds.

Not violations, but seen on the way: with no Git on PATH the summary still prints "NO GIT
REPOSITORIES WERE SCANNED! add -root for any kept outside ..." (`report.go:123`), advice meant
for a scan that looked for repositories and found none. `systemctl disable` refuses a unit
whose file is gone, so a Linux `remove` interrupted after its first deletion cannot be finished
by running it again; an install followed by a remove can. The walk looks up a nested scoped
package by the last part of its name (`checkSourceFile` passes the base of its directory), so a
known bad version of it is met only below a top-level `node_modules`. `checkNpmCLI` matches
signatures as they stand, the only entrypoint check that does not read escapes first. A
discovered entrypoint that a manifest declares is read as its package's entrypoint and so never
for a reference to a sidecar, and what a lifecycle script runs is not compared with the
published payloads byte for byte. Nor is an asset with a valid header, of which, as of an
executable, the checks see the head only, so that neither is looked at for a reference to a
sidecar; and a font that a manifest names is read as a source, whatever its header. What a manifest names is in scope if the file
is, a file at a fixed path if its directory is: a link can make the two differ. A
package whose manifest lies below a directory that could not be listed is missed with all that
the manifest names, and the gap names the directory, not the files; nor are the packages of a
scope met that could not be listed. In `EvidenceIsReported` these are the exceptions that
`carriesSignature`, `headOnly`, `promised`, `metInWalk`, `metIn` and `asSource` spell out.

## 6. What is proved

TLAPS checks these for every value of the constants that meets the named assumptions. Each is
proved action by action from an inductive invariant, whose parts are named here because the
argument is in them.

`FileReads_proofs`, any number of reads, files and timeouts:

* `TypeCorrect`: `[]TypeOK`.
* `StallBudgetIsKept`: no scanner loses more than its budget and it has given up exactly when
  the budget is spent. `StallBudgetKept` is not inductive: a timeout may be booked only by a
  scanner that had budget left when the read began, and another read of the same scanner could
  have spent it since. `BudgetInv` adds that a goroutine is in at most one read (`OneReadEach`)
  and that who waits has not given up (`WaitsWithinBudget`).
* `GivingUpIsAlwaysReported`: a scanner that gave up says so, and the report says how many files
  went unread. `ReportInv` adds that a scanner which tripped is on its way to its finding or has
  it (`TripIsFollowedUp`), and that only `finalizeStalls` writes counts (`CountsComeLast`),
  without which merging a nested scanner's findings could bring in a count that is not the scan's.
* `ReadsAreAlwaysAccounted` (`ReadIsAccounted`), by `ReadInv`: a worker's delivery is its last
  step, a worker that has not loaded its bytes has asked for nothing, reads nest once, and a
  reader that announces the abandonment has named its read before. Two lemmas carry most steps:
  findings only grow (`Kept`), and a read that is accounted for stays so (`AccountedPersists`).
* `UnreadIsNeverClean` (`NeverLooksClean`), by `CleanInv`: what a nested scanner left unread shows
  in its result, and the result in whoever merges it.
* `MarkingNeverHides` (`MarkedIsCovered`), by `MarkInv`, which follows a mark from the private
  scanner that made it through its result to `Main`.
* `CountAlwaysMatches` (`CountMatchesCoverage`), by `CountInv`, which says where a count may be
  ahead of its finding: in `recordTimeout`, and between the two locked steps of a worker that met
  a placeholder.
* `FinishedReadIsAlwaysTaken`, an action property: a result that is ready when its reader
  decides is merged.
* `LateWorkersAreSilent` (`TimedOutWorkerIsSilent`) and `ReportIsImplemented` (the pipeline
  implements `ScanReport`, step by step), both where files have no placeholders (`~Placeholders`):
  with them the first is false, section 5, and so is the second, since the report of a finished
  scan could grow.

`ContentCache_proofs`:

* `Invariance`: `Spec => []CacheInv`: entries and calls in flight are never ahead of the disk,
  and a read whose two stats agree saw one version throughout.
* `CacheHoldsWholeFiles`, `ReuseIsFresh`, `ReuseKeepsPolicy` follow from it. For the last, an
  entry is what a read of its own path and policy would have made of its file, of that FileInfo
  (`EntryOK`): the policy alone would not do, since whether a file is dropped, or read whole,
  also hangs on its name and on the size in the first stat, which a hit shares with the entry.
* `AccountingIsAlwaysExact` (`AccountingIsExact`), for any lengths and capacity, by `OrderInv`: the
  list names what the map holds, each path once, and the counter is the bytes held, within the
  capacity. An insertion takes an old entry of the path out first, so the rest is a prefix of a
  list without repetitions, and what evicting to a prefix drops is the difference of two sets of
  bytes: cardinalities, not sums, carry the arithmetic. `EvictionAlwaysFindsRoom`: the loop stops
  before the list is empty, or at the empty list with room, since what is larger than the
  capacity is never stored; `Back()` is never nil.

`ScanRun_proofs`, any number of repositories:

* `SilenceIsAlwaysEarned`. That a silent run was whole cannot be read off its last state alone:
  `RunInv` carries through the phases that whatever was not looked at was reported above INFO
  (`GapInv`), that no phase in scope was passed over (`PhaseInv`), and that only `Finish` turns
  findings into a status a scan can have (`ExitInv`). `GitLemma` is the step where the verdicts on
  the Git half must be complete: for each version and share, either the gap was a warning already
  or the verdict is.
* `TwoIsAlwaysDeserved` and `SummaryAlwaysAgrees`, by `SayInv`: what has been said of the Git half
  is what its counters call for (`VerdictInv`, `GitInv`), and what the summary says is what the
  findings say at that moment, after which nothing is added (`SummaryInv`).

`Schedule_proofs`, any settings and any sequence of commands, failures, kills and reboots:

* `ArmedIsAlwaysRunnable`, `RemovedIsAlwaysGone`, and `PromiseIsKept`, that both platforms implement
  `DailySchedule`. `SystemdInv` and `LaunchdInv` say for each step of a command what those before
  it have achieved, and what still holds of the last command that succeeded. Steps of the manager
  (login, firing, reboot) map to steps of `DailySchedule` or to stutters.

`NetworkSnapshot_proofs`, any domains and addresses, any output of netstat within `MaxRows`:

* `EverySourceIsAlwaysAccounted`, `PeersAreAlwaysCompared`, and `NobodyEverWaits`: no collector
  blocks, also after the reader has left. A result is in one place, with its goroutine, in the
  channel or taken (`ChannelInv`); what is in the channel is still awaited, and what is awaited no
  more was sent, as long as anything is awaited at all (`PendingInv`); what is known of a source
  agrees with what was said of it (`KnownInv`). The loop over the rows has taken the peers of
  exactly those behind it, and has noted an error exactly if one of them cannot be read
  (`RowsInv`), so when it ends `PeersAreCompared`, which speaks of all rows, is about what it took.

`GitHistory_proofs`, any repositories, histories and failures of Git, by `GitInv`:

* `FailuresAreAlwaysListed`, `HitsAreAlwaysReported`, `CleanIsAlwaysWhole`,
  `ScannedIsAlwaysComplete`, `BodiesAreAlwaysTheirs`, `NoAlarmIsFalse`.
* Each path is still to be visited, being visited or settled (`VisitInv`); a common directory is
  marked for a path that was not itself skipped (`SeenInv`); the number of warnings about single
  repositories is the difference of the counters (`ListInv`). The stream names the history in
  order (`WalkInv`); `cat-file --batch` owes nothing between two objects and the answer to one
  request inside one (`PipeInv`): this is why a body cannot be taken for that of another object,
  and it must hold in every way out of a step. `ProgressInv`, that each object dealt with was
  whole or counted as missing, holds only while `rev-list` has not died, since a dead one ends its
  stream early, and `WaitList` is what tells the two ends apart. `HeldInv` and `HitInv` say that
  what is held back for grouping is the first blob and the right number.
* The steps over the list of repositories and those inside one disturb different parts, and are
  proved apart.

`LocalChecks_proofs`, any files, names, listings and changes meanwhile, by `LocalInv`:

* `MarksAreAlwaysEarned`, `NothingIsEverReadTwice`, `OnlyAlwaysReadsInside`,
  `QuietFilesAlwaysStayQuiet`, `ProcessesAreAlwaysAccounted`, and `EvidenceIsAlwaysReported` below.
* A check is a composition of outcomes (`together`), so the first three are proved of single
  outcomes (`Good`: `Earned`, `Once`, `Inside`), shown to be kept by composition, and then of each
  check; `Quiet` likewise. That no file is read twice rests on the order of the agenda
  (`Orderly`): npm's entrypoints, which are read however they are marked, come first and each
  once. That only what is inside is read rests on where tasks come from (`Fits`), and for the
  system roots on the scope of a root reaching all below it (`RootLemma`). `EntriesInv`
  connects what a listing returned with what is there later; `CleanContentLemma` says that no check
  of bytes finds anything in an ordinary file. For processes, each one in the snapshot is settled
  or still to be inspected (`ProcessInv`).
* `EvidenceIsAlwaysReported` (`EvidenceIsReported`), by `EvidenceInv`: every promise is on the agenda,
  comes with a task that is, or was kept. The agenda is the list of what is due, so the proof has
  two halves. Each task keeps its promise (`Keeps`: after it a fixed path is marked, a visited file
  is reported for what it is selected for, the packages of a directory are on the agenda), unless a
  mark stops it; and each mark, whichever of the checks sets it and whatever it reads a file
  as, comes with all that the mark keeps others from finding (`Tells`, proved of every outcome and
  kept by `together`; `EarnedInv`, `NamedInv` say it of the state). What a visit does depends on
  what the directory was taken for, so the listings come in: a directory was listed whole, and then
  what it belongs to is known (`listedWhole`), or a gap above it is named (`excused`), or its listing
  is still ahead of what lies in it (`OrderInv`, from `WalksAssumption`); no directory of the
  user's own sources is ever taken for a dependency (`DependencyInv`). Startup files are read in
  a weaker way than entrypoints and are all behind them on the agenda (`EarlyInv`).
  The attempt to prove it showed that the property, as first stated and passed by TLC, claimed
  more than the code does: the cases listed at the end of section 5 needed two oddities at
  once, or a link, to appear.
* `QuietFilesStayQuiet` excuses two findings that are not about the bytes of the file: a known bad
  version, which the package has by its name, and the notice that a script a manifest runs is not
  there.

`SharedDiscovery_proofs`, any tree, links, roots and order of listings, and whatever comes and
goes:

* `EachIsShownOnce` (`AtMostOnce`), by `DiscoveryInv`: entries still to be visited contain neither
  each other nor a root that was walked before (`StackInv`), the directory about to be listed is
  apart from them (`ReadingInv`), and only what the walk has passed was shown (`VisitedInv`).
* `EachKeepsItsPruning` (`KeepsItsPruning`): what the project checks, Python and Git are each shown
  is what they would come to alone. A consumer remembers one skipped path only, and `SkipInv` says
  why that is enough: whatever is to be visited lies below that path exactly if it lies below
  anything the consumer prunes. It needs the depth-first order (`ChainInv`: what contains an entry
  contains all that come before it), that no root is walked under two names (`GivenInv`), that
  nothing on the way is excluded or was left out of a listing (`OpenInv`, `HiddenInv`), and the
  lemmas on spellings: below one root, spellings contain each other exactly as the paths do. The
  hypothesis `RootsLieOpen` (no root is given as a link inside what one of these three prunes)
  excludes the case of section 5, in which the property is false.
* `EveryStagingNameIsReported` (`StagingIsMatched`), by `StagingInv`: while a temp directory is
  walked, what the temp consumer skips lies above nothing still to be visited (`TempSkipInv`), each
  root is one that was asked for or a temp directory by its own name (`KnownInv`), and a staging
  name that was passed in its innermost walk is reported (`MatchedInv`), or was before any walk at
  the top of a temp directory that is left out (`TopsInv`). Hypothesis `TempsLieApart`: no requested
  root contains a temp directory that is to be walked, which is violation 2, and no requested
  link leads into one.
* `NothingIsMissed` (`NothingIsMissedSilently`), by `SilenceInv` on top of `PruningInv`: each root is
  to come, an error, or walked (`RootsInv`); what the temp consumer skips beside what is still to
  be visited is what it prunes on the way there (`TempSkippedInv`); what stayed has all above it
  stay (`ThereInv`); and each path that was passed was shown, lies below a notice or in a listing
  that failed, or below what each consumer prunes (`ExplainedInv`). Hypotheses `RootsLieOpen`
  and `TempsLieOpen`, no root given as a link inside a temp directory: the other two faces
  of the skip that outlives its walk (section 5).

The assumptions on constants are the modules' `ASSUME`s, which TLC evaluates in every run: a
budget of at least one; `Main` not a read, `Content` not a file, names of sources, commands and
results distinct from each other; bounds natural numbers; `rev-list --objects` names each object
of a history once, published payloads are blobs of a published length (`ObjectsAssumption`); a
repository is discovered once (`RepositoriesAssumption`); a tree is finite and what contains a
path of it is a directory of it, and what may come or go contains no root and no link
(`TreeAssumption`); artifacts and staging names are of files that a clean machine does not have,
npm's entrypoints are distinct and not named like a payload, and a package lies where its
directory of packages, or its scope, says (`TargetsAssumption`); all orders of
the walk are of the same visits, with a directory listed before what is in it is visited
(`WalksAssumption`); what lies above a directory is a directory, what lies below one in scope is
in scope, and an editor's file is of a
carrier's extension and no font (`ScopeAssumption`); a file as on
a clean machine looks like what its extension says (`CleanAssumption`).

Only model-checked:

* Liveness (`ScanEnds` of `FileReads` and `GitHistory`, `CheckEnds`), and `StoppingIsNeverRefused` of
  `Schedule`, which is about `ENABLED`: out of TLAPS's reach.

Every other property of a passing run is a theorem, five of them under hypotheses on the roots
or the platform that are named above and in the theorem.

## 7. What is not modelled

How bytes are matched (hashes, regular expressions, parsers of manifests, tasks and plists) is
abstracted to what a match means for the report; the tables in `ioc.go`, report layout, debug
output and the pause on Windows are stateless, and better tested than modelled. How a name in a
manifest resolves to a path is the constant `Hooks` or `Entries`. The memo of trees already
walked for persistence (`persistenceWalked`) and the spelling of paths below it, browser caches,
`-npm-cache` and `-broad`, which widen or narrow what is read by name alone, are left out, and so
is an entry that turns from a directory into a file while the walk is at it. A read in
`LocalChecks` is atomic and never hangs: that is `FileReads`, which knows no checks. Torn reads
of `Findings` and other data races beyond the late finding above are not modelled.

## 8. Plan

Done: the inventory, `FileReads` with `ScanReport`, `ContentCache`, the schedules,
`NetworkSnapshot`, `GitHistory`, `SharedDiscovery` in a changing tree, `ScanRun` with
`GitVerdict`, the targeted checks with `ContentScope`, the process snapshot, `LocalChecks`, and
the theorems of section 6.

Next: `persistenceWalked` with the persistence walk as a walk of its own, and the file half of the
checks against `FileReads`, where a read inside a check may hang.
