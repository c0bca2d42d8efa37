---------------------------- MODULE FileReadsInv ----------------------------
(***************************************************************************)
(* The inductive invariants of FileReads: what holds between any two steps *)
(* and implies the properties stated there.  FileReads_proofs proves them. *)
(***************************************************************************)
EXTENDS FileReads

\* A goroutine that is in processFilePolicy is in it for exactly one read.
OneReadEach ==
    /\ \A r \in Reads : Outstanding(r) => pc[owner[r]] \in ReaderPC
    /\ \A q, r \in Reads :
          Outstanding(q) /\ Outstanding(r) /\ owner[q] = owner[r] => q = r

\* A scanner waits for a read only while it has budget left to lose.
WaitsWithinBudget ==
    \A g \in Goroutines :
        pc[g] \in {"wait", "expired", "booked"} => ~abandoned[g]

\* Having tripped, a scanner is on its way to report it or has done so.
TripIsFollowedUp ==
    \A g \in Goroutines : abandoned[g] =>
        \/ pc[g] \in {"tripped", "announcing"}
        \/ \E f \in findings[g] : f.kind = "abandoned"

\* Only finalizeStalls writes a count of unread files.
CountsComeLast ==
    /\ \A g \in Goroutines : g # Main \/ pc[Main] # "finished" =>
          \A f \in findings[g] : f.unread = 0
    /\ \A r \in Reads : done[r] # NoResult =>
          \A f \in done[r].findings : f.unread = 0

BudgetInv ==
    /\ TypeOK
    /\ OneReadEach
    /\ WaitsWithinBudget
    /\ StallBudgetKept

ReportInv ==
    /\ BudgetInv
    /\ TripIsFollowedUp
    /\ CountsComeLast
    /\ GivingUpIsReported

-----------------------------------------------------------------------------
(* What a read that was asked for goes through, once.                      *)

\* A worker delivers as its last step.
DeliversLast ==
    \A r \in Reads :
        /\ done[r] # NoResult => pc[r] = "finished"
        /\ cancelled[r] => pc[r] # "unused"

\* Until its bytes are there a worker has run no check: it asked for no read,
\* and its scanner is empty.
FreshUntilLoaded ==
    \A q \in Reads : pc[q] \in WorkerPC \cup {"unused"} =>
        /\ \A r \in Reads : owner[r] # q
        /\ findings[q] = {}
        /\ unreadable[q] = 0
        /\ skipped[q] = 0
        /\ scriptChecked[q] = {}

\* Reads nest once, and only Main's may be optional.
NestsOnce ==
    \A r \in Reads : owner[r] # Main =>
        /\ owner[r] \in Reads
        /\ owner[owner[r]] = Main
        /\ ~optional[r]

\* By the time the abandonment is announced its read is named.
NamedBeforeAnnounced ==
    \A r \in Reads : Outstanding(r) /\ pc[owner[r]] = "announcing" =>
        Named(owner[r], path[r])

\* A read that failed found nothing.
FailuresAreBare ==
    \A r \in Reads : done[r] # NoResult /\ done[r].err # "none" =>
        done[r].findings = {} /\ done[r].unreadable = 0

ReadInv ==
    /\ ReportInv
    /\ DeliversLast
    /\ FreshUntilLoaded
    /\ NestsOnce
    /\ NamedBeforeAnnounced
    /\ FailuresAreBare
    /\ ReadIsAccounted

-----------------------------------------------------------------------------
(* What a result carries of the reads its inspection asked for.            *)

\* A scanner skips a read only once it has given up, and a nested read, which
\* asks for nothing, never does.
SkipsOnceAbandoned ==
    \A g \in Goroutines : skipped[g] > 0 =>
        /\ abandoned[g]
        /\ g \in Reads => owner[g] = Main

\* A result whose inspection left a file unread has a coverage gap.
UnreadShowsInResult ==
    \A q \in Reads :
        /\ done[q] # NoResult
        /\ skipped[q] > 0 \/ \E r \in Reads : owner[r] = q /\ Unread(r)
        => done[q].err = "none" /\ hasIncomplete(done[q].findings)

CleanInv ==
    /\ ReadInv
    /\ SkipsOnceAbandoned
    /\ UnreadShowsInResult

\* Only the abandonment is filed under Content.
abandonedAt(fs) == \A f \in fs : f.kind = "abandoned" => f.path = Content

AbandonmentHasNoFile ==
    /\ \A g \in Goroutines : abandonedAt(findings[g])
    /\ \A r \in Reads : done[r] # NoResult => abandonedAt(done[r].findings)

\* p is among the gaps of fs, or was read and its indicators are in fs.
Covered(p, fs) ==
    \/ \E f \in fs : f.kind \in IncompleteKinds /\ f.path \in {p, Content}
    \/ \E r \in Reads :
          /\ path[r] = p /\ done[r] # NoResult /\ done[r].err = "none"
          /\ indicators(done[r].findings) \subseteq fs

\* A private scanner marks what it reads, and what it skips.
MarksItsReads ==
    \A q \in Reads : \A p \in scriptChecked[q] :
        \/ abandoned[q]
        \/ \E r \in Reads : pc[r] # "unused" /\ owner[r] = q /\ path[r] = p

\* A nested read's inspection reads nothing, hence marks nothing.
NestedMarksNothing ==
    \A q \in Reads : owner[q] # Main =>
        /\ scriptChecked[q] = {}
        /\ done[q] # NoResult => done[q].checked = {}

MarksInResultsAreCovered ==
    \A q \in Reads : done[q] # NoResult =>
        \A p \in done[q].checked : Covered(p, done[q].findings)

MarkInv ==
    /\ ReadInv
    /\ AbandonmentHasNoFile
    /\ MarksItsReads
    /\ NestedMarksNothing
    /\ MarksInResultsAreCovered
    /\ MarkedIsCovered

-----------------------------------------------------------------------------
(* The count of unreadable files and the findings.                         *)

\* A count without a finding is about to be followed by one: the reader is in
\* recordTimeout, or the worker is between its two locked steps.
CountedIsNamed ==
    /\ \A g \in Goroutines :
          pc[g] \in {"run", "finished"} /\ unreadable[g] > 0 => hasIncomplete(findings[g])
    /\ \A r \in Reads :
          Outstanding(r) /\ pc[owner[r]] \in {"wait", "expired"} /\ unreadable[owner[r]] > 0 =>
              hasIncomplete(findings[owner[r]]) \/ pc[r] = "dataless"
    /\ \A r \in Reads : done[r] # NoResult /\ done[r].unreadable > 0 =>
          hasIncomplete(done[r].findings)

\* Whoever reports a gap to Main has counted it before.
NamedIsCounted ==
    /\ hasIncomplete(findings[Main]) => unreadable[Main] > 0
    /\ \A r \in Reads : pc[r] = "dataless" => unreadable[owner[r]] > 0
    /\ \A g \in Goroutines : pc[g] \in {"booked", "tripped"} => unreadable[g] > 0

CountInv ==
    /\ ReadInv
    /\ CountedIsNamed
    /\ NamedIsCounted
=============================================================================
