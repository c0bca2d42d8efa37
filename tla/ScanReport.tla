----------------------------- MODULE ScanReport -----------------------------
(***************************************************************************)
(* What the report of one scan promises, whatever produces it.  Findings   *)
(* are only ever added while the scan runs; the time it loses to reads     *)
(* that hang is bounded; files go unread for want of time only once that   *)
(* bound is reached; and closing the report writes their number into the   *)
(* finding that stands for them.  A closed report is never touched again.  *)
(***************************************************************************)
EXTENDS Naturals

CONSTANTS Finding,   \* findings: records with, among others, kind and unread
          Budget     \* the time a scan may lose, in read timeouts

VARIABLES report,    \* the findings of the scan
          lost,      \* time lost to reads that hung
          unread,    \* files not read because the time was spent
          closed     \* the scan has returned its report

vars == <<report, lost, unread, closed>>

Init == report = {} /\ lost = 0 /\ unread = 0 /\ closed = FALSE

Publish ==
    /\ ~closed
    /\ report \subseteq report'
    /\ report' \in SUBSET Finding
    /\ UNCHANGED <<lost, unread, closed>>

LoseTime ==
    /\ ~closed
    /\ lost < Budget
    /\ lost' = lost + 1
    /\ UNCHANGED <<report, unread, closed>>

GiveUpOnFile ==
    /\ ~closed
    /\ lost = Budget
    /\ unread' = unread + 1
    /\ UNCHANGED <<report, lost, closed>>

counted(f) == IF f.kind = "abandoned" THEN [f EXCEPT !.unread = unread] ELSE f

Close ==
    /\ ~closed
    /\ closed' = TRUE
    /\ report' = {counted(f) : f \in report}
    /\ UNCHANGED <<lost, unread>>

Next == Publish \/ LoseTime \/ GiveUpOnFile \/ Close

Spec == Init /\ [][Next]_vars
=============================================================================
