----------------------------- MODULE FileReads -----------------------------
(***************************************************************************)
(* The bounded file-read pipeline of internal/scan/content.go: one scan    *)
(* goroutine (Main) reads files one after another; every read runs in a    *)
(* goroutine of its own (a worker, named by its read) which may hang in    *)
(* stat, open or read for ever, and the reader gives up on it after        *)
(* ReadTimeout.  A worker that has its bytes inspects them on a private    *)
(* scanner, and that inspection may itself read files (lifecycle targets   *)
(* and entrypoints), so a worker is the reader of nested reads.            *)
(*                                                                         *)
(* Time is abstract: a running timer may fire at any moment.  What a stat, *)
(* an open or a read returns is a choice; a hang is a worker that takes no *)
(* further step, and no fairness is assumed of workers.                    *)
(***************************************************************************)
EXTENDS Naturals, FiniteSets

CONSTANTS
    Reads,        \* the calls of processFilePolicy that start a worker
    Main,         \* the goroutine of Scanner.Run
    Files,        \* the paths a scan may select
    Content,      \* the pseudo-path "content" of the abandonment finding
    NoResult,     \* the empty done channel
    Budget,       \* StallBudget in units of ReadTimeout (12 in the code)
    MaxSkips,     \* bound: reads one scanner skips once its budget is spent
    Placeholders  \* whether the platform has cloud placeholders (not Linux)

ASSUME ReadsAssumption == Main \notin Reads
ASSUME FilesAssumption == Content \notin Files
ASSUME BudgetAssumption == Budget \in Nat \ {0}
ASSUME SkipsAssumption == MaxSkips \in Nat
ASSUME PlaceholdersAssumption == Placeholders \in BOOLEAN

\* A goroutine and the scanner it runs checks on: Run's own scanner for Main,
\* the worker's `local` for a read.
Goroutines == Reads \cup {Main}

VARIABLES
    pc,            \* where each goroutine is
    owner,         \* the goroutine that asked for a read
    path,          \* the file a read is of
    optional,      \* whether its absence is not a failure
    fired,         \* the read's timer has fired
    cancelled,     \* processFilePolicy has returned and closed `cancel`
    done,          \* the read's result channel, with room for one result
    findings,      \* the findings of each scanner
    unreadable,    \* stats.FilesUnreadable of each scanner
    stalls,        \* timeLostToStalls, in units of ReadTimeout
    abandoned,     \* readsAbandoned
    skipped,       \* readsSkipped
    scriptChecked  \* paths each scanner has marked as checked

readVars == <<owner, path, optional, fired, cancelled, done>>
budgetVars == <<stalls, abandoned, skipped>>
vars == <<pc, readVars, findings, unreadable, budgetVars, scriptChecked>>

-----------------------------------------------------------------------------
(* Program points.  "run" is a goroutine executing checks on its scanner;  *)
(* the reader's points are those of processFilePolicy's select and of      *)
(* recordTimeout; the rest are the worker's.                               *)

ReaderPC == {"wait", "expired", "booked", "tripped", "announcing"}
WorkerPC == {"stat", "dataless", "open", "opened", "reading", "loaded"}
PC == {"unused", "run", "finished"} \cup ReaderPC \cup WorkerPC

\* Checks that report lost coverage (check "scan-incomplete"), as opposed to
\* the indicators the inspection finds.
IncompleteKinds == {"timedout", "abandoned", "notdownloaded", "failed"}
Finding == [kind : IncompleteKinds \cup {"indicator"},
            path : Files \cup {Content},
            unread : Nat]

finding(kind, p) == [kind |-> kind, path |-> p, unread |-> 0]
Abandonment == finding("abandoned", Content)

hasIncomplete(fs) == \E f \in fs : f.kind \in IncompleteKinds

Result == [err : {"none", "failed", "missing"},
           findings : SUBSET Finding,
           unreadable : Nat,
           checked : SUBSET Files]

emptyResult == [err |-> "none", findings |-> {}, unreadable |-> 0, checked |-> {}]
errorResult(e) == [emptyResult EXCEPT !.err = e]

TypeOK ==
    /\ pc \in [Goroutines -> PC]
    /\ owner \in [Reads -> Goroutines]
    /\ path \in [Reads -> Files \cup {Content}]
    /\ optional \in [Reads -> BOOLEAN]
    /\ fired \in [Reads -> BOOLEAN]
    /\ cancelled \in [Reads -> BOOLEAN]
    /\ done \in [Reads -> Result \cup {NoResult}]
    /\ findings \in [Goroutines -> SUBSET Finding]
    /\ unreadable \in [Goroutines -> Nat]
    /\ stalls \in [Goroutines -> Nat]
    /\ abandoned \in [Goroutines -> BOOLEAN]
    /\ skipped \in [Goroutines -> Nat]
    /\ scriptChecked \in [Goroutines -> SUBSET Files]

Init ==
    /\ pc = [g \in Goroutines |-> IF g = Main THEN "run" ELSE "unused"]
    /\ owner = [r \in Reads |-> Main]
    /\ path = [r \in Reads |-> Content]
    /\ optional = [r \in Reads |-> FALSE]
    /\ fired = [r \in Reads |-> FALSE]
    /\ cancelled = [r \in Reads |-> FALSE]
    /\ done = [r \in Reads |-> NoResult]
    /\ findings = [g \in Goroutines |-> {}]
    /\ unreadable = [g \in Goroutines |-> 0]
    /\ stalls = [g \in Goroutines |-> 0]
    /\ abandoned = [g \in Goroutines |-> FALSE]
    /\ skipped = [g \in Goroutines |-> 0]
    /\ scriptChecked = [g \in Goroutines |-> {}]

\* A read whose caller is still inside processFilePolicy.
Outstanding(r) == pc[r] # "unused" /\ ~cancelled[r]

-----------------------------------------------------------------------------
(* The reader: processFilePolicy, finishFileResult and recordTimeout.      *)

\* Checks run on Main and on the private scanner of a top-level read; the
\* inspection of a nested target reads nothing further.
MayRead(g) ==
    /\ pc[g] = "run"
    /\ g \in {Main} \cup {q \in Reads : owner[q] = Main}

MarkOn(s, g, p) ==
    IF g = Main
    THEN UNCHANGED scriptChecked
    ELSE /\ p \notin scriptChecked[s]
         /\ scriptChecked' = [scriptChecked EXCEPT ![s] = @ \cup {p}]

\* Mutant: the private scanner shares Main's map instead of merging into it.
Mark_SharedMap(g, p) == MarkOn(Main, g, p)

\* A nested target is marked on the scanner that asks for it, before the read,
\* and is never asked for twice by one scanner.
Mark(g, p) == MarkOn(g, g, p)

SkipRead(g, p) ==
    /\ MayRead(g)
    /\ abandoned[g]
    /\ skipped[g] < MaxSkips
    /\ Mark(g, p)
    /\ unreadable' = [unreadable EXCEPT ![g] = @ + 1]
    /\ skipped' = [skipped EXCEPT ![g] = @ + 1]
    /\ UNCHANGED <<pc, readVars, findings, stalls, abandoned>>

StartWorker(g, r, p, opt) ==
    /\ MayRead(g)
    /\ pc[r] = "unused"
    /\ opt => g = Main
    /\ Mark(g, p)
    /\ pc' = [pc EXCEPT ![g] = "wait", ![r] = "stat"]
    /\ owner' = [owner EXCEPT ![r] = g]
    /\ path' = [path EXCEPT ![r] = p]
    /\ optional' = [optional EXCEPT ![r] = opt]
    /\ UNCHANGED <<fired, cancelled, done, findings, unreadable, budgetVars>>

\* Mutant: the budget check at the top of processFilePolicy is missing.
BeginRead_NoBudgetCheck(g, r, p, opt) == StartWorker(g, r, p, opt)

BeginRead(g, r, p, opt) == ~abandoned[g] /\ StartWorker(g, r, p, opt)

FireTimer(r) ==
    /\ Outstanding(r)
    /\ ~fired[r]
    /\ fired' = [fired EXCEPT ![r] = TRUE]
    /\ UNCHANGED <<pc, owner, path, optional, cancelled, done,
                   findings, unreadable, budgetVars, scriptChecked>>

\* Mutant: the timer is armed only once the file is open.
TimerFires_AfterOpen(r) == FireTimer(r) /\ pc[r] \notin {"stat", "dataless", "open"}

\* The timer starts with the read, before its worker, and is stopped on return.
TimerFires(r) == FireTimer(r)

\* processFilePolicy returns to its caller and closes `cancel`.
Return(r) ==
    /\ pc' = [pc EXCEPT ![owner[r]] = "run"]
    /\ cancelled' = [cancelled EXCEPT ![r] = TRUE]
    /\ UNCHANGED <<owner, path, optional, fired, done>>

\* Mutant: every file that vanished before its read counts as optional.
optionalFileMissing_Any(r) == done[r].err = "missing"

optionalFileMissing(r) == optional[r] /\ done[r].err = "missing"

\* finishFileResult on an error.
CountFailure(r) ==
    LET g == owner[r] IN
    IF optionalFileMissing(r)
    THEN UNCHANGED <<findings, unreadable, scriptChecked>>
    ELSE /\ unreadable' = [unreadable EXCEPT ![g] = @ + 1]
         /\ findings' = [findings EXCEPT ![g] = @ \cup {finding("failed", path[r])}]
         /\ UNCHANGED scriptChecked

Merge(r, count) ==
    LET g == owner[r] IN
    /\ scriptChecked' = [scriptChecked EXCEPT ![g] = @ \cup done[r].checked]
    /\ unreadable' = [unreadable EXCEPT ![g] = @ + count]
    /\ findings' = [findings EXCEPT ![g] = @ \cup done[r].findings]

\* Mutant: a result with a coverage gap is dropped before its findings merge.
mergeFileResult_GapFirst(r) ==
    IF hasIncomplete(done[r].findings)
    THEN UNCHANGED <<scriptChecked, unreadable, findings>>
    ELSE Merge(r, done[r].unreadable)

\* Mutant: only the unreadable count of the private scanner is carried over.
mergeFileResult_NoGap(r) == Merge(r, done[r].unreadable)

\* A result with a coverage gap counts as at least one unreadable file.
mergeFileResult(r) ==
    Merge(r, IF hasIncomplete(done[r].findings) /\ done[r].unreadable = 0
             THEN 1 ELSE done[r].unreadable)

finishFileResult(r) ==
    /\ done[r] # NoResult
    /\ IF done[r].err # "none" THEN CountFailure(r) ELSE mergeFileResult(r)
    /\ Return(r)
    /\ UNCHANGED budgetVars

TakeResult(r) ==
    /\ Outstanding(r)
    /\ pc[owner[r]] = "wait"
    /\ finishFileResult(r)

TakeTimer(r) ==
    /\ Outstanding(r)
    /\ pc[owner[r]] = "wait"
    /\ fired[r]
    /\ pc' = [pc EXCEPT ![owner[r]] = "expired"]
    /\ UNCHANGED <<readVars, findings, unreadable, budgetVars, scriptChecked>>

\* The result that landed in the instant the timer fired is taken.
TakeEdgeResult(r) ==
    /\ Outstanding(r)
    /\ pc[owner[r]] = "expired"
    /\ finishFileResult(r)

\* The locked section of recordTimeout; "tripped" carries its local `trip`.
recordTimeout(r) ==
    LET g == owner[r]
        trip == ~abandoned[g] /\ stalls[g] + 1 >= Budget
    IN /\ Outstanding(r)
       /\ pc[g] = "expired"
       /\ unreadable' = [unreadable EXCEPT ![g] = @ + 1]
       /\ stalls' = [stalls EXCEPT ![g] = @ + 1]
       /\ abandoned' = [abandoned EXCEPT ![g] = @ \/ trip]
       /\ pc' = [pc EXCEPT ![g] = IF trip THEN "tripped" ELSE "booked"]
       /\ UNCHANGED <<readVars, findings, skipped, scriptChecked>>

\* Mutant: no second look at `done` once the timer has been taken.
BookTimeout_NoRecheck(r) == recordTimeout(r)

BookTimeout(r) == done[r] = NoResult /\ recordTimeout(r)

WarnTimeout(r) ==
    LET g == owner[r] IN
    /\ Outstanding(r)
    /\ pc[g] \in {"booked", "tripped"}
    /\ findings' = [findings EXCEPT ![g] = @ \cup {finding("timedout", path[r])}]
    /\ IF pc[g] = "booked"
       THEN Return(r)
       ELSE /\ pc' = [pc EXCEPT ![g] = "announcing"]
            /\ UNCHANGED readVars
    /\ UNCHANGED <<unreadable, budgetVars, scriptChecked>>

AnnounceAbandonment(r) ==
    LET g == owner[r] IN
    /\ Outstanding(r)
    /\ pc[g] = "announcing"
    /\ findings' = [findings EXCEPT ![g] = @ \cup {Abandonment}]
    /\ Return(r)
    /\ UNCHANGED <<unreadable, budgetVars, scriptChecked>>

\* finalizeStalls, then Run returns the findings.
finalizeStalls(fs, n) ==
    IF n = 0 THEN fs
    ELSE {IF f.kind = "abandoned" THEN [f EXCEPT !.unread = n] ELSE f : f \in fs}

FinishScan ==
    /\ pc[Main] = "run"
    /\ findings' = [findings EXCEPT ![Main] = finalizeStalls(@, skipped[Main])]
    /\ pc' = [pc EXCEPT ![Main] = "finished"]
    /\ UNCHANGED <<readVars, unreadable, budgetVars, scriptChecked>>

-----------------------------------------------------------------------------
(* The worker goroutine of a read.                                         *)

Deliver(r, result) ==
    /\ done' = [done EXCEPT ![r] = result]
    /\ pc' = [pc EXCEPT ![r] = "finished"]
    /\ UNCHANGED <<owner, path, optional, fired, cancelled,
                   findings, unreadable, budgetVars, scriptChecked>>

Advance(r, to) ==
    /\ pc' = [pc EXCEPT ![r] = to]
    /\ UNCHANGED <<readVars, findings, unreadable, budgetVars, scriptChecked>>

StatFile(r) ==
    /\ pc[r] = "stat"
    /\ \/ \E e \in {"failed", "missing"} : Deliver(r, errorResult(e))
       \/ Deliver(r, emptyResult)              \* not a regular file
       \/ Advance(r, "open")

\* A placeholder: the worker counts it on the scanner that asked for the read
\* and reports it there, in two separately locked steps, whether or not that
\* scanner is still waiting.
CountDataless(r) ==
    /\ Placeholders
    /\ pc[r] = "stat"
    /\ unreadable' = [unreadable EXCEPT ![owner[r]] = @ + 1]
    /\ pc' = [pc EXCEPT ![r] = "dataless"]
    /\ UNCHANGED <<readVars, findings, budgetVars, scriptChecked>>

WarnDataless(r) ==
    /\ pc[r] = "dataless"
    /\ findings' = [findings EXCEPT ![owner[r]] =
                        @ \cup {finding("notdownloaded", path[r])}]
    /\ done' = [done EXCEPT ![r] = emptyResult]
    /\ pc' = [pc EXCEPT ![r] = "finished"]
    /\ UNCHANGED <<owner, path, optional, fired, cancelled,
                   unreadable, budgetVars, scriptChecked>>

OpenFile(r) ==
    /\ pc[r] = "open"
    /\ \/ \E e \in {"failed", "missing"} : Deliver(r, errorResult(e))
       \/ Advance(r, "opened")

ReadFile(r) ==
    /\ pc[r] = "opened"
    /\ IF cancelled[r] THEN Deliver(r, emptyResult) ELSE Advance(r, "reading")

\* A descriptor closed under the worker by the reader shows as a failed read.
LoadFile(r) ==
    /\ pc[r] = "reading"
    /\ Deliver(r, errorResult("failed")) \/ Advance(r, "loaded")

InspectFile(r) ==
    /\ pc[r] = "loaded"
    /\ IF cancelled[r] THEN Deliver(r, emptyResult) ELSE Advance(r, "run")

\* Mutant: the inspection reports straight to the scanner that asked.
Detect_OnOwner(r, kind) ==
    /\ pc[r] = "run"
    /\ findings' = [findings EXCEPT ![owner[r]] = @ \cup {finding(kind, path[r])}]
    /\ UNCHANGED <<pc, readVars, unreadable, budgetVars, scriptChecked>>

\* The inspection reports an indicator in its file, or that it could not
\* inspect it fully (scanError on the private scanner).
Detect(r, kind) ==
    /\ pc[r] = "run"
    /\ findings' = [findings EXCEPT ![r] = @ \cup {finding(kind, path[r])}]
    /\ UNCHANGED <<pc, readVars, unreadable, budgetVars, scriptChecked>>

ReturnResult(r) ==
    /\ pc[r] = "run"
    /\ Deliver(r, [err |-> "none", findings |-> findings[r],
                   unreadable |-> unreadable[r], checked |-> scriptChecked[r]])

-----------------------------------------------------------------------------
Reader(r) ==
    \/ TakeResult(r) \/ TakeTimer(r) \/ TakeEdgeResult(r)
    \/ BookTimeout(r) \/ WarnTimeout(r) \/ AnnounceAbandonment(r)

Worker(r) ==
    \/ StatFile(r) \/ CountDataless(r) \/ WarnDataless(r)
    \/ OpenFile(r) \/ ReadFile(r) \/ LoadFile(r) \/ InspectFile(r)
    \/ \E kind \in {"indicator", "failed"} : Detect(r, kind)
    \/ ReturnResult(r)

StartRead ==
    \E g \in Goroutines, p \in Files :
        \/ SkipRead(g, p)
        \/ \E r \in Reads, opt \in BOOLEAN : BeginRead(g, r, p, opt)

Next ==
    \/ StartRead
    \/ \E r \in Reads : TimerFires(r) \/ Reader(r) \/ Worker(r)
    \/ FinishScan

Spec == Init /\ [][Next]_vars

\* The runtime fires the timers of outstanding reads and runs a goroutine that
\* is not blocked in the file system: the readers and Main's checks.  Nothing
\* is assumed of the file system, hence of workers.
Fairness ==
    /\ \A r \in Reads : WF_vars(TimerFires(r)) /\ WF_vars(Reader(r))
    /\ WF_vars(FinishScan)

FairSpec == Spec /\ Fairness

-----------------------------------------------------------------------------
(* Properties.                                                             *)

\* A scanner never books more hanging time than its budget, and it has given
\* up on reading exactly when the budget is spent (StallBudget, recordTimeout).
StallBudgetKept ==
    \A g \in Goroutines :
        /\ stalls[g] <= Budget
        /\ abandoned[g] <=> stalls[g] = Budget

\* A scanner that gave up says so once it is back in its checks, and when the
\* scan ends that finding carries the number of files that went unread
\* (recordTimeout, abandonDetail, finalizeStalls).
GivingUpIsReported ==
    /\ \A g \in Goroutines :
          abandoned[g] /\ pc[g] \in {"run", "finished"} =>
              \E f \in findings[g] : f.kind = "abandoned"
    /\ pc[Main] = "finished" =>
          \A f \in findings[Main] : f.kind = "abandoned" => f.unread = skipped[Main]

Named(g, p) == \E f \in findings[g] : f.kind \in IncompleteKinds /\ f.path = p

indicators(fs) == {f \in fs : f.kind = "indicator"}

\* Whatever order results, timers and late answers come in, a read that
\* returned either left a coverage warning naming its file, or was answered
\* and everything its worker found, its coverage gaps included, reached the
\* scanner that asked; an absent optional manifest is the one exception.
ReadIsAccounted ==
    \A r \in Reads : cancelled[r] =>
        \/ Named(owner[r], path[r])
        \/ /\ done[r] # NoResult
           /\ \/ optionalFileMissing(r)
              \/ /\ done[r].err = "none"
                 /\ indicators(done[r].findings) \subseteq findings[owner[r]]
                 /\ hasIncomplete(done[r].findings) => hasIncomplete(findings[owner[r]])

\* A file that was selected and never read: its worker has not got past the
\* file system, or was told that it failed.
Unread(r) ==
    \/ pc[r] \in WorkerPC
    \/ /\ done[r] # NoResult
       /\ done[r].err # "none"
       /\ ~(optional[r] /\ done[r].err = "missing")

\* A finished scan that selected a file it did not read, at any depth and in
\* any goroutine it left behind, reports a coverage gap: it never looks clean.
NeverLooksClean ==
    /\ pc[Main] = "finished"
    /\ \/ \E r \in Reads : Unread(r)
       \/ \E g \in Goroutines : skipped[g] > 0
    => hasIncomplete(findings[Main])

\* A target that Main will not read again (scriptChecked) was answered, with
\* its indicators reported, or the gap is named: marking a path never hides it.
MarkedIsCovered ==
    \A p \in scriptChecked[Main] :
        \/ Named(Main, p) \/ Named(Main, Content)
        \/ \E r \in Reads :
              /\ path[r] = p /\ done[r] # NoResult /\ done[r].err = "none"
              /\ indicators(done[r].findings) \subseteq findings[Main]

\* The summary's count of unreadable files and the coverage findings agree:
\* between reads, one is non-empty exactly when the other is.
CountMatchesCoverage ==
    pc[Main] \in {"run", "finished"} =>
        (unreadable[Main] > 0 <=> hasIncomplete(findings[Main]))

\* A result that is ready when its reader decides is taken, even when the
\* timer fired in the same instant: the reader never leaves its wait for r
\* without the findings a ready result holds.
FinishedReadIsTaken ==
    [][\A r \in Reads :
          /\ Outstanding(r) /\ done[r] # NoResult
          /\ pc[owner[r]] \in {"wait", "expired"}
          /\ pc'[owner[r]] \notin {"wait", "expired"}
          => done[r].findings \subseteq findings'[owner[r]]]_vars

\* "A timed-out worker can never append findings after the parent has moved
\* on" (content.go, processFile): no step of the worker of a read that has
\* returned changes the scanner that asked for it.
TimedOutWorkerIsSilent ==
    [][\A r \in Reads :
          cancelled[r] /\ Worker(r) =>
              /\ findings'[owner[r]] = findings[owner[r]]
              /\ unreadable'[owner[r]] = unreadable[owner[r]]]_vars

\* However many workers hang, the scan ends.
ScanEnds == <>(pc[Main] = "finished")

\* The promise of ScanReport, on Main's scanner.
Report == INSTANCE ScanReport WITH
    report <- findings[Main], lost <- stalls[Main],
    unread <- skipped[Main], closed <- pc[Main] = "finished"

\* Where the platform has no placeholders, the pipeline implements ScanReport:
\* whatever workers it leaves behind, the returned findings are final.
ImplementsReport == Report!Spec
=============================================================================
