-------------------------- MODULE FileReads_proofs --------------------------
(***************************************************************************)
(* Theorems about the file-read pipeline, for every set of reads and files *)
(* and every budget, with or without placeholders.                         *)
(***************************************************************************)
EXTENDS FileReadsInv, TLAPS

USE ReadsAssumption, FilesAssumption, BudgetAssumption, SkipsAssumption,
    PlaceholdersAssumption

-----------------------------------------------------------------------------
(* Type correctness.                                                       *)

LEMMA FindingType ==
    ASSUME NEW kind \in IncompleteKinds \cup {"indicator"},
           NEW p \in Files \cup {Content}
    PROVE  finding(kind, p) \in Finding
BY DEF finding, Finding

LEMMA ResultTypes ==
    /\ emptyResult \in Result
    /\ \A e \in {"failed", "missing"} : errorResult(e) \in Result
BY DEF emptyResult, errorResult, Result

LEMMA FinalizeType ==
    ASSUME NEW fs \in SUBSET Finding, NEW n \in Nat
    PROVE  finalizeStalls(fs, n) \in SUBSET Finding
BY DEF finalizeStalls, Finding

LEMMA InitTypeOK == Init => TypeOK
BY DEF Init, TypeOK, Goroutines, PC

LEMMA ReadStepTypeOK ==
    ASSUME TypeOK, NEW r \in Reads, Reader(r) \/ Worker(r) \/ TimerFires(r)
    PROVE  TypeOK'
<1> USE DEF TypeOK, Goroutines
<1> owner[r] \in Goroutines /\ r \in Goroutines
  OBVIOUS
<1>1. CASE TakeResult(r) \/ TakeEdgeResult(r)
  <2>1. finishFileResult(r)
    BY <1>1 DEF TakeResult, TakeEdgeResult
  <2>2. done[r] \in Result
    BY <2>1 DEF finishFileResult
  <2>3. /\ pc' = [pc EXCEPT ![owner[r]] = "run"]
        /\ cancelled' = [cancelled EXCEPT ![r] = TRUE]
        /\ UNCHANGED <<owner, path, optional, fired, done, budgetVars>>
    BY <2>1 DEF finishFileResult, Return
  <2>4. CASE CountFailure(r)
    BY <2>3, <2>4, FindingType
    DEF CountFailure, budgetVars, PC, IncompleteKinds
  <2>5. CASE mergeFileResult(r)
    BY <2>2, <2>3, <2>5 DEF mergeFileResult, Merge, Result, budgetVars, PC
  <2>6. QED
    BY <2>1, <2>4, <2>5 DEF finishFileResult
<1>2. CASE TakeTimer(r)
  BY <1>2 DEF TakeTimer, readVars, budgetVars, PC, ReaderPC
<1>3. CASE BookTimeout(r)
  BY <1>3 DEF BookTimeout, recordTimeout, readVars, PC, ReaderPC
<1>4. CASE WarnTimeout(r)
  <2>1. finding("timedout", path[r]) \in Finding
    BY FindingType DEF IncompleteKinds
  <2>2. findings' \in [Goroutines -> SUBSET Finding]
    BY <1>4, <2>1 DEF WarnTimeout
  <2>3. CASE pc[owner[r]] = "booked"
    BY <1>4, <2>2, <2>3 DEF WarnTimeout, Return, budgetVars, PC
  <2>4. CASE pc[owner[r]] # "booked"
    BY <1>4, <2>2, <2>4 DEF WarnTimeout, readVars, budgetVars, PC, ReaderPC
  <2>5. QED
    BY <2>3, <2>4
<1>5. CASE AnnounceAbandonment(r)
  BY <1>5, FindingType
  DEF AnnounceAbandonment, Abandonment, Return, budgetVars, PC, IncompleteKinds
<1>6. CASE TimerFires(r)
  BY <1>6 DEF TimerFires, FireTimer, budgetVars
<1>7. ASSUME NEW result \in Result, Deliver(r, result)
      PROVE  TypeOK'
  BY <1>7 DEF Deliver, budgetVars, PC
<1>8. ASSUME NEW to \in PC, Advance(r, to)
      PROVE  TypeOK'
  BY <1>8 DEF Advance, readVars, budgetVars
<1>9. CASE StatFile(r) \/ OpenFile(r) \/ ReadFile(r) \/ LoadFile(r) \/ InspectFile(r)
  BY <1>7, <1>8, <1>9, ResultTypes
  DEF StatFile, OpenFile, ReadFile, LoadFile, InspectFile, PC, WorkerPC
<1>10. CASE CountDataless(r)
  BY <1>10 DEF CountDataless, readVars, budgetVars, PC, WorkerPC
<1>11. CASE WarnDataless(r)
  BY <1>11, FindingType, ResultTypes
  DEF WarnDataless, budgetVars, PC, IncompleteKinds
<1>12. ASSUME NEW kind \in {"indicator", "failed"}, Detect(r, kind)
       PROVE  TypeOK'
  BY <1>12, FindingType DEF Detect, readVars, budgetVars, IncompleteKinds
<1>13. CASE ReturnResult(r)
  BY <1>7, <1>13 DEF ReturnResult, Result
<1> HIDE DEF TypeOK, Goroutines
<1>14. QED
  BY <1>1, <1>2, <1>3, <1>4, <1>5, <1>6, <1>9, <1>10, <1>11, <1>12, <1>13
  DEF Reader, Worker

LEMMA StartTypeOK == ASSUME TypeOK, StartRead PROVE TypeOK'
<1> USE DEF TypeOK, Goroutines
<1>1. ASSUME NEW g \in Goroutines, NEW p \in Files, SkipRead(g, p)
      PROVE  TypeOK'
  BY <1>1 DEF SkipRead, MayRead, Mark, MarkOn, readVars
<1>2. ASSUME NEW g \in Goroutines, NEW p \in Files, NEW r \in Reads,
             NEW opt \in BOOLEAN, BeginRead(g, r, p, opt)
      PROVE  TypeOK'
  BY <1>2 DEF BeginRead, StartWorker, MayRead, Mark, MarkOn, budgetVars, PC,
              ReaderPC, WorkerPC
<1> HIDE DEF TypeOK, Goroutines
<1>3. QED
  BY <1>1, <1>2 DEF StartRead

LEMMA FinishTypeOK == ASSUME TypeOK, FinishScan PROVE TypeOK'
BY FinalizeType DEF FinishScan, TypeOK, Goroutines, readVars, budgetVars, PC

\* Every variable keeps its type, whatever the interleaving of readers, timers
\* and workers.
THEOREM TypeCorrect == Spec => []TypeOK
<1>1. TypeOK /\ [Next]_vars => TypeOK'
  <2> SUFFICES ASSUME TypeOK, [Next]_vars PROVE TypeOK'
    OBVIOUS
  <2>1. CASE UNCHANGED vars
    BY <2>1 DEF TypeOK, vars, readVars, budgetVars
  <2>2. QED
    BY <2>1, ReadStepTypeOK, StartTypeOK, FinishTypeOK DEF Next
<1>2. QED
  BY <1>1, InitTypeOK, PTL DEF Spec

-----------------------------------------------------------------------------
(* One read per reader, and the budget.  A step moves one goroutine        *)
(* (Move), returns a read to its reader (Return), or starts one; only      *)
(* BookTimeout touches the budget.                                         *)

LEMMA ReturnKeepsOneReadEach ==
    ASSUME TypeOK, OneReadEach, NEW r \in Reads, Outstanding(r), Return(r)
    PROVE  OneReadEach'
<1>1. pc[owner[r]] \in ReaderPC
  BY DEF OneReadEach
<1>2. ASSUME NEW q \in Reads, Outstanding(q)'
      PROVE  /\ Outstanding(q) /\ q # r
             /\ owner[q] # owner[r]
             /\ pc'[owner[q]] \in ReaderPC
  <2>1. Outstanding(q) /\ q # r
    BY <1>1, <1>2 DEF Outstanding, Return, TypeOK, Goroutines, ReaderPC
  <2>2. owner[q] # owner[r]
    BY <2>1 DEF OneReadEach
  <2>3. QED
    BY <2>1, <2>2 DEF OneReadEach, Return, TypeOK, Goroutines
<1>3. QED
  BY <1>2 DEF OneReadEach, Return

LEMMA MoveKeepsOneReadEach ==
    ASSUME TypeOK, OneReadEach, NEW g \in Goroutines, NEW to \in PC,
           pc[g] # "unused", to # "unused",
           pc[g] \in ReaderPC => to \in ReaderPC,
           pc' = [pc EXCEPT ![g] = to], UNCHANGED <<owner, cancelled>>
    PROVE  OneReadEach'
BY DEF OneReadEach, Outstanding, TypeOK, Goroutines

LEMMA BeginKeepsOneReadEach ==
    ASSUME TypeOK, OneReadEach, NEW g \in Goroutines, NEW p \in Files,
           NEW r \in Reads, NEW opt \in BOOLEAN, BeginRead(g, r, p, opt)
    PROVE  OneReadEach'
<1>1. /\ pc[g] = "run" /\ pc[r] = "unused"
      /\ pc' = [pc EXCEPT ![g] = "wait", ![r] = "stat"]
      /\ owner' = [owner EXCEPT ![r] = g]
      /\ cancelled' = cancelled
  BY DEF BeginRead, StartWorker, MayRead
<1>2. ASSUME NEW q \in Reads, Outstanding(q)', q # r
      PROVE  /\ Outstanding(q)
             /\ owner'[q] = owner[q]
             /\ owner[q] # g /\ owner[q] # r
             /\ pc'[owner[q]] \in ReaderPC
  <2>1. Outstanding(q) /\ owner'[q] = owner[q]
    BY <1>1, <1>2 DEF Outstanding, TypeOK, Goroutines
  <2>2. pc[owner[q]] \in ReaderPC
    BY <2>1 DEF OneReadEach
  <2>3. QED
    BY <1>1, <2>1, <2>2 DEF TypeOK, Goroutines, ReaderPC
<1>3. owner'[r] = g /\ pc'[g] \in ReaderPC
  BY <1>1 DEF TypeOK, Goroutines, ReaderPC
<1>4. ASSUME NEW q \in Reads, Outstanding(q)'
      PROVE  pc'[owner'[q]] \in ReaderPC
  BY <1>2, <1>3, <1>4
<1>5. ASSUME NEW q \in Reads, NEW q2 \in Reads, Outstanding(q)', Outstanding(q2)',
             owner'[q] = owner'[q2]
      PROVE  q = q2
  BY <1>2, <1>3, <1>5 DEF OneReadEach
<1>6. QED
  BY <1>4, <1>5 DEF OneReadEach

LEMMA MoveKeepsBudget ==
    ASSUME TypeOK, WaitsWithinBudget, StallBudgetKept,
           NEW g \in Goroutines, NEW to \in PC,
           to \in {"wait", "expired", "booked"} => ~abandoned[g],
           pc' = [pc EXCEPT ![g] = to], UNCHANGED <<stalls, abandoned>>
    PROVE  WaitsWithinBudget' /\ StallBudgetKept'
BY DEF TypeOK, WaitsWithinBudget, StallBudgetKept, Goroutines

LEMMA ReaderKeepsBudgetInv ==
    ASSUME BudgetInv, NEW r \in Reads, Reader(r)
    PROVE  OneReadEach' /\ WaitsWithinBudget' /\ StallBudgetKept'
<1> USE DEF BudgetInv
<1>a. /\ owner[r] \in Goroutines /\ r \in Goroutines
      /\ TypeOK /\ OneReadEach /\ WaitsWithinBudget /\ StallBudgetKept
  BY DEF TypeOK, Goroutines
<1>b. /\ "run" \in PC /\ "wait" \in PC /\ "expired" \in PC /\ "announcing" \in PC
      /\ "booked" \in PC /\ "tripped" \in PC
  BY DEF PC, ReaderPC
<1>1. CASE TakeResult(r) \/ TakeEdgeResult(r)
  <2>1. /\ Outstanding(r) /\ Return(r)
        /\ pc' = [pc EXCEPT ![owner[r]] = "run"]
        /\ UNCHANGED <<stalls, abandoned>>
    BY <1>1 DEF TakeResult, TakeEdgeResult, finishFileResult, Return, budgetVars
  <2>2. QED
    BY <1>a, <1>b, <2>1, ReturnKeepsOneReadEach, MoveKeepsBudget
<1>2. CASE TakeTimer(r)
  <2>1. /\ pc[owner[r]] = "wait"
        /\ pc' = [pc EXCEPT ![owner[r]] = "expired"]
        /\ UNCHANGED <<owner, cancelled, stalls, abandoned>>
    BY <1>2 DEF TakeTimer, readVars, budgetVars
  <2>2. ~abandoned[owner[r]]
    BY <1>a, <2>1 DEF WaitsWithinBudget
  <2>3. OneReadEach'
    BY <1>a, <1>b, <2>1, MoveKeepsOneReadEach DEF ReaderPC
  <2>4. QED
    BY <1>a, <1>b, <2>1, <2>2, <2>3, MoveKeepsBudget
<1>3. CASE BookTimeout(r)
  <2> DEFINE g == owner[r]
             trip == stalls[g] + 1 >= Budget
             to == IF trip THEN "tripped" ELSE "booked"
  <2>1. pc[g] = "expired" /\ ~abandoned[g]
    BY <1>3, <1>a DEF BookTimeout, recordTimeout, WaitsWithinBudget
  <2>2. /\ pc' = [pc EXCEPT ![g] = to]
        /\ stalls' = [stalls EXCEPT ![g] = @ + 1]
        /\ abandoned' \in [Goroutines -> BOOLEAN]
        /\ abandoned'[g] <=> trip
        /\ \A h \in Goroutines \ {g} : abandoned'[h] = abandoned[h]
        /\ UNCHANGED <<owner, cancelled>>
    <3>1. /\ abandoned' = [abandoned EXCEPT ![g] = @ \/ (~abandoned[g] /\ trip)]
          /\ pc' = [pc EXCEPT ![g] = IF ~abandoned[g] /\ trip
                                     THEN "tripped" ELSE "booked"]
          /\ stalls' = [stalls EXCEPT ![g] = @ + 1]
          /\ UNCHANGED <<owner, cancelled>>
      BY <1>3, Zenon DEF BookTimeout, recordTimeout, readVars
    <3>2. abandoned \in [Goroutines -> BOOLEAN]
      BY <1>a DEF TypeOK
    <3>3. abandoned' \in [Goroutines -> BOOLEAN]
      BY <1>a, <3>1, <3>2
    <3>4. (abandoned'[g] <=> trip)
          /\ \A h \in Goroutines \ {g} : abandoned'[h] = abandoned[h]
      BY <1>a, <2>1, <3>1, <3>2
    <3>5. pc' = [pc EXCEPT ![g] = to]
      BY <2>1, <3>1
    <3>6. QED
      BY <3>1, <3>3, <3>4, <3>5
  <2>3. stalls[g] \in Nat /\ stalls[g] < Budget
    BY <1>a, <2>1 DEF StallBudgetKept, TypeOK
  <2>4. OneReadEach'
    <3>1. to \in PC /\ to # "unused" /\ to \in ReaderPC
      BY <1>b DEF ReaderPC
    <3>2. QED
      BY <1>a, <2>1, <2>2, <3>1, MoveKeepsOneReadEach
  <2>5. StallBudgetKept'
    BY <1>a, <2>2, <2>3 DEF StallBudgetKept, TypeOK
  <2>6. WaitsWithinBudget'
    BY <1>a, <2>2 DEF WaitsWithinBudget, TypeOK
  <2>7. QED
    BY <2>4, <2>5, <2>6
<1>4. CASE WarnTimeout(r) /\ pc[owner[r]] = "booked"
  <2>1. /\ Outstanding(r) /\ Return(r)
        /\ pc' = [pc EXCEPT ![owner[r]] = "run"]
        /\ UNCHANGED <<stalls, abandoned>>
    BY <1>4 DEF WarnTimeout, Return, budgetVars
  <2>2. QED
    BY <1>a, <1>b, <2>1, ReturnKeepsOneReadEach, MoveKeepsBudget
<1>5. CASE WarnTimeout(r) /\ pc[owner[r]] # "booked"
  <2>1. /\ pc[owner[r]] = "tripped"
        /\ pc' = [pc EXCEPT ![owner[r]] = "announcing"]
        /\ UNCHANGED <<owner, cancelled, stalls, abandoned>>
    BY <1>5 DEF WarnTimeout, readVars, budgetVars
  <2>2. OneReadEach'
    BY <1>a, <1>b, <2>1, MoveKeepsOneReadEach DEF ReaderPC
  <2>3. QED
    BY <1>a, <1>b, <2>1, <2>2, MoveKeepsBudget
<1>6. CASE AnnounceAbandonment(r)
  <2>1. /\ Outstanding(r) /\ Return(r)
        /\ pc' = [pc EXCEPT ![owner[r]] = "run"]
        /\ UNCHANGED <<stalls, abandoned>>
    BY <1>6 DEF AnnounceAbandonment, Return, budgetVars
  <2>2. QED
    BY <1>a, <1>b, <2>1, ReturnKeepsOneReadEach, MoveKeepsBudget
<1>7. QED
  BY <1>1, <1>2, <1>3, <1>4, <1>5, <1>6 DEF Reader


\* What a worker's step may do to the reader's side: move itself off a point
\* that is not a reader's, or nothing at all.
WorkerMove(r) ==
    /\ UNCHANGED <<owner, cancelled, stalls, abandoned, skipped>>
    /\ \/ pc' = pc
       \/ /\ pc[r] \in WorkerPC \cup {"run"}
          /\ \E to \in WorkerPC \cup {"run", "finished"} : pc' = [pc EXCEPT ![r] = to]

LEMMA WorkerMoves ==
    ASSUME NEW r \in Reads, Worker(r) \/ TimerFires(r)
    PROVE  WorkerMove(r)
<1> USE DEF WorkerMove, WorkerPC
<1>1. ASSUME NEW result, Deliver(r, result), pc[r] \in WorkerPC \cup {"run"}
      PROVE  WorkerMove(r)
  BY <1>1 DEF Deliver, budgetVars
<1>2. ASSUME NEW to \in WorkerPC \cup {"run"}, Advance(r, to), pc[r] \in WorkerPC
      PROVE  WorkerMove(r)
  BY <1>2 DEF Advance, readVars, budgetVars
<1>3. CASE StatFile(r) \/ OpenFile(r) \/ ReadFile(r) \/ LoadFile(r) \/ InspectFile(r)
  BY <1>1, <1>2, <1>3 DEF StatFile, OpenFile, ReadFile, LoadFile, InspectFile
<1>4. CASE ReturnResult(r)
  BY <1>1, <1>4 DEF ReturnResult
<1>5. CASE CountDataless(r)
  BY <1>5 DEF CountDataless, readVars, budgetVars
<1>6. CASE WarnDataless(r)
  BY <1>6 DEF WarnDataless, budgetVars
<1>7. CASE \E kind \in {"indicator", "failed"} : Detect(r, kind)
  BY <1>7 DEF Detect, readVars, budgetVars
<1>8. CASE TimerFires(r)
  BY <1>8 DEF TimerFires, FireTimer, budgetVars
<1>9. QED
  BY <1>3, <1>4, <1>5, <1>6, <1>7, <1>8 DEF Worker

LEMMA WorkerKeepsBudgetInv ==
    ASSUME BudgetInv, NEW r \in Reads, WorkerMove(r)
    PROVE  OneReadEach' /\ WaitsWithinBudget' /\ StallBudgetKept'
<1>1. /\ TypeOK /\ OneReadEach /\ WaitsWithinBudget /\ StallBudgetKept
      /\ r \in Goroutines
  BY DEF BudgetInv, Goroutines
<1>2. CASE pc' = pc
  BY <1>1, <1>2
  DEF WorkerMove, OneReadEach, Outstanding, WaitsWithinBudget, StallBudgetKept
<1>3. CASE pc' # pc
  <2>1. PICK to \in WorkerPC \cup {"run", "finished"} :
            pc' = [pc EXCEPT ![r] = to]
    BY <1>3 DEF WorkerMove
  <2>2. /\ pc[r] # "unused" /\ pc[r] \notin ReaderPC
        /\ to \in PC /\ to # "unused" /\ to \notin {"wait", "expired", "booked"}
    BY <1>3, <2>1 DEF WorkerMove, WorkerPC, ReaderPC, PC
  <2>3. UNCHANGED <<owner, cancelled, stalls, abandoned>>
    BY DEF WorkerMove
  <2>4. QED
    BY <1>1, <2>1, <2>2, <2>3, MoveKeepsOneReadEach, MoveKeepsBudget
<1>4. QED
  BY <1>2, <1>3

LEMMA MainKeepsBudgetInv ==
    ASSUME BudgetInv, StartRead \/ FinishScan
    PROVE  OneReadEach' /\ WaitsWithinBudget' /\ StallBudgetKept'
<1>1. TypeOK /\ OneReadEach /\ WaitsWithinBudget /\ StallBudgetKept
  BY DEF BudgetInv
<1>2. ASSUME NEW g \in Goroutines, NEW p \in Files, SkipRead(g, p)
      PROVE  OneReadEach' /\ WaitsWithinBudget' /\ StallBudgetKept'
  BY <1>1, <1>2
  DEF SkipRead, readVars, OneReadEach, Outstanding, WaitsWithinBudget, StallBudgetKept
<1>3. ASSUME NEW g \in Goroutines, NEW p \in Files, NEW r \in Reads,
             NEW opt \in BOOLEAN, BeginRead(g, r, p, opt)
      PROVE  OneReadEach' /\ WaitsWithinBudget' /\ StallBudgetKept'
  <2>1. OneReadEach'
    BY <1>1, <1>3, BeginKeepsOneReadEach
  <2>2. /\ ~abandoned[g] /\ UNCHANGED <<stalls, abandoned>>
        /\ pc' = [pc EXCEPT ![g] = "wait", ![r] = "stat"]
    BY <1>3 DEF BeginRead, StartWorker, budgetVars
  <2>3. QED
    BY <1>1, <2>1, <2>2 DEF WaitsWithinBudget, StallBudgetKept, TypeOK, Goroutines
<1>4. CASE FinishScan
  <2>1. /\ pc[Main] = "run" /\ pc' = [pc EXCEPT ![Main] = "finished"]
        /\ UNCHANGED <<owner, cancelled, stalls, abandoned>>
    BY <1>4 DEF FinishScan, readVars, budgetVars
  <2>2. Main \in Goroutines /\ "finished" \in PC
    BY DEF Goroutines, PC
  <2>3. QED
    BY <1>1, <2>1, <2>2, MoveKeepsOneReadEach, MoveKeepsBudget DEF ReaderPC
<1>5. QED
  BY <1>2, <1>3, <1>4 DEF StartRead

LEMMA InitBudgetInv == Init => BudgetInv
<1> SUFFICES ASSUME Init PROVE BudgetInv
  OBVIOUS
<1>1. OneReadEach
  BY DEF Init, OneReadEach, Outstanding, Goroutines
<1>2. WaitsWithinBudget /\ StallBudgetKept
  BY DEF Init, WaitsWithinBudget, StallBudgetKept, Goroutines
<1>3. QED
  BY <1>1, <1>2, InitTypeOK DEF BudgetInv

LEMMA NextBudgetInv == BudgetInv /\ [Next]_vars => BudgetInv'
<1> SUFFICES ASSUME BudgetInv, [Next]_vars PROVE BudgetInv'
  OBVIOUS
<1>1. CASE UNCHANGED vars
  BY <1>1 DEF BudgetInv, TypeOK, OneReadEach, Outstanding, WaitsWithinBudget,
              StallBudgetKept, vars, readVars, budgetVars
<1>2. CASE Next
  <2>1. TypeOK'
    BY <1>2, ReadStepTypeOK, StartTypeOK, FinishTypeOK DEF Next, BudgetInv
  <2>2. OneReadEach' /\ WaitsWithinBudget' /\ StallBudgetKept'
    BY <1>2, ReaderKeepsBudgetInv, WorkerMoves, WorkerKeepsBudgetInv,
       MainKeepsBudgetInv DEF Next
  <2>3. QED
    BY <2>1, <2>2 DEF BudgetInv
<1>3. QED
  BY <1>1, <1>2

\* No scanner ever loses more time than its budget to reads that hang, and it
\* stops reading exactly when the budget is spent: for every number of reads,
\* every budget, and every order of results, timers and late answers.
THEOREM StallBudgetIsKept == Spec => []StallBudgetKept
<1>1. BudgetInv => StallBudgetKept
  BY DEF BudgetInv
<1>2. QED
  BY <1>1, InitBudgetInv, NextBudgetInv, PTL DEF Spec

-----------------------------------------------------------------------------
(* Giving up is reported.                                                  *)

\* What a step of read r may do to the findings: add some, none of which
\* carries a count, to one scanner that is still running or to none; and only
\* its reader's announcement or merge may add an abandonment to it.
FindingsGrow(g, fs) ==
    /\ findings' = [findings EXCEPT ![g] = @ \cup fs]
    /\ \A f \in fs : f.unread = 0

Abandoning(fs) == \E f \in fs : f.kind = "abandoned"

LEMMA FindingFields ==
    ASSUME NEW kind, NEW p
    PROVE  finding(kind, p).kind = kind /\ finding(kind, p).unread = 0
BY DEF finding

LEMMA ReaderFindings ==
    ASSUME ReportInv, NEW r \in Reads, Reader(r)
    PROVE  /\ pc[owner[r]] \in ReaderPC
           /\ done' = done /\ skipped' = skipped
           /\ \E fs : FindingsGrow(owner[r], fs)
<1>0. TypeOK /\ CountsComeLast
  BY DEF ReportInv, BudgetInv
<1>n. findings = [findings EXCEPT ![owner[r]] = @ \cup {}]
  BY <1>0 DEF TypeOK
<1>e. ASSUME UNCHANGED findings PROVE \E fs : FindingsGrow(owner[r], fs)
  <2>1. FindingsGrow(owner[r], {})
    BY <1>e, <1>n DEF FindingsGrow
  <2>2. QED
    BY <2>1
<1>1. CASE TakeResult(r) \/ TakeEdgeResult(r)
  <2>1. /\ pc[owner[r]] \in {"wait", "expired"}
        /\ finishFileResult(r)
    BY <1>1 DEF TakeResult, TakeEdgeResult
  <2>2. done' = done /\ skipped' = skipped /\ done[r] # NoResult
    BY <2>1 DEF finishFileResult, Return, budgetVars
  <2>3. CASE CountFailure(r)
    <3>1. CASE optionalFileMissing(r)
      BY <1>e, <2>1, <2>2, <2>3, <3>1 DEF CountFailure, ReaderPC
    <3>2. CASE ~optionalFileMissing(r)
      <4>1. FindingsGrow(owner[r], {finding("failed", path[r])})
        BY <2>3, <3>2, FindingFields DEF CountFailure, FindingsGrow
      <4>2. QED
        BY <2>1, <2>2, <4>1 DEF ReaderPC
    <3>3. QED
      BY <3>1, <3>2
  <2>4. CASE mergeFileResult(r)
    <3>1. FindingsGrow(owner[r], done[r].findings)
      BY <1>0, <2>2, <2>4 DEF mergeFileResult, Merge, FindingsGrow, CountsComeLast
    <3>2. QED
      BY <2>1, <2>2, <3>1 DEF ReaderPC
  <2>5. QED
    BY <2>1, <2>3, <2>4 DEF finishFileResult
<1>2. CASE TakeTimer(r)
  BY <1>e, <1>2 DEF TakeTimer, readVars, budgetVars, ReaderPC
<1>3. CASE BookTimeout(r)
  BY <1>e, <1>3 DEF BookTimeout, recordTimeout, readVars, ReaderPC
<1>4. CASE WarnTimeout(r)
  <2>1. FindingsGrow(owner[r], {finding("timedout", path[r])})
    BY <1>4, FindingFields DEF WarnTimeout, FindingsGrow
  <2>2. /\ pc[owner[r]] \in {"booked", "tripped"}
        /\ done' = done /\ skipped' = skipped
    BY <1>4 DEF WarnTimeout, Return, readVars, budgetVars
  <2>3. QED
    BY <2>1, <2>2 DEF ReaderPC
<1>5. CASE AnnounceAbandonment(r)
  <2>1. FindingsGrow(owner[r], {Abandonment})
    BY <1>5, FindingFields DEF AnnounceAbandonment, FindingsGrow, Abandonment
  <2>2. pc[owner[r]] = "announcing" /\ done' = done /\ skipped' = skipped
    BY <1>5 DEF AnnounceAbandonment, Return, budgetVars
  <2>3. QED
    BY <2>1, <2>2 DEF ReaderPC
<1>6. QED
  BY <1>1, <1>2, <1>3, <1>4, <1>5 DEF Reader

\* A worker adds at most one finding, to its own scanner or, for a placeholder,
\* to its reader's; what it delivers carries no counts.
LEMMA WorkerFindings ==
    ASSUME ReportInv, NEW r \in Reads, Worker(r) \/ TimerFires(r)
    PROVE  /\ \E g \in Goroutines : \E fs :
                  /\ FindingsGrow(g, fs)
                  /\ ~Abandoning(fs)
           /\ \A q \in Reads : done'[q] # NoResult =>
                  \A f \in done'[q].findings : f.unread = 0
<1> DEFINE Counts(d) == \A q \in Reads : d[q] # NoResult =>
                            \A f \in d[q].findings : f.unread = 0
           Adds == \E g \in Goroutines : \E fs : FindingsGrow(g, fs) /\ ~Abandoning(fs)
<1>0. /\ TypeOK /\ Counts(done)
      /\ \A f \in findings[r] : f.unread = 0
      /\ r \in Goroutines /\ owner[r] \in Goroutines
  BY DEF ReportInv, BudgetInv, CountsComeLast, TypeOK, Goroutines
<1>e. ASSUME UNCHANGED findings PROVE Adds
  <2>1. findings = [findings EXCEPT ![r] = @ \cup {}]
    BY <1>0 DEF TypeOK
  <2>2. FindingsGrow(r, {}) /\ ~Abandoning({})
    BY <1>e, <2>1 DEF FindingsGrow, Abandoning
  <2>3. QED
    BY <1>0, <2>2
<1>f. ASSUME NEW g \in Goroutines, NEW kind, NEW p, kind # "abandoned",
             findings' = [findings EXCEPT ![g] = @ \cup {finding(kind, p)}]
      PROVE  Adds
  <2>1. FindingsGrow(g, {finding(kind, p)}) /\ ~Abandoning({finding(kind, p)})
    BY <1>f, FindingFields DEF FindingsGrow, Abandoning
  <2>2. QED
    BY <2>1
<1>d. ASSUME NEW result, Deliver(r, result), \A f \in result.findings : f.unread = 0
      PROVE  Adds /\ Counts(done')
  BY <1>0, <1>d, <1>e DEF Deliver, TypeOK
<1>m. ASSUME NEW to, Advance(r, to) PROVE Adds /\ Counts(done')
  BY <1>0, <1>e, <1>m DEF Advance, readVars
<1>r. /\ emptyResult.findings = {}
      /\ \A e \in {"failed", "missing"} : errorResult(e).findings = {}
  BY DEF emptyResult, errorResult
<1> SUFFICES Adds /\ Counts(done')
  OBVIOUS
<1> HIDE DEF Adds, Counts
<1>1. CASE StatFile(r) \/ OpenFile(r) \/ ReadFile(r) \/ LoadFile(r) \/ InspectFile(r)
  BY <1>1, <1>d, <1>m, <1>r
  DEF StatFile, OpenFile, ReadFile, LoadFile, InspectFile
<1>2. CASE ReturnResult(r)
  BY <1>0, <1>2, <1>d DEF ReturnResult
<1>3. CASE CountDataless(r)
  BY <1>0, <1>3, <1>e DEF CountDataless, readVars
<1>4. CASE WarnDataless(r)
  <2>1. Adds
    BY <1>0, <1>4, <1>f DEF WarnDataless
  <2>2. Counts(done')
    BY <1>0, <1>4, <1>r DEF WarnDataless, TypeOK, Counts
  <2>3. QED
    BY <2>1, <2>2
<1>5. ASSUME NEW kind \in {"indicator", "failed"}, Detect(r, kind)
      PROVE  Adds /\ Counts(done')
  BY <1>0, <1>5, <1>f DEF Detect, readVars
<1>6. CASE TimerFires(r)
  BY <1>0, <1>6, <1>e DEF TimerFires, FireTimer
<1>7. QED
  BY <1>1, <1>2, <1>3, <1>4, <1>5, <1>6 DEF Worker

LEMMA GrowthKeepsCounts ==
    ASSUME TypeOK, CountsComeLast, NEW g \in Goroutines, NEW fs,
           FindingsGrow(g, fs),
           pc'[Main] # "finished" => pc[Main] # "finished",
           \A q \in Reads : done'[q] # NoResult =>
               \A f \in done'[q].findings : f.unread = 0
    PROVE  CountsComeLast'
BY DEF CountsComeLast, FindingsGrow, TypeOK, Goroutines

LEMMA TripImpliesReported ==
    ASSUME TripIsFollowedUp, NEW g \in Goroutines,
           abandoned[g], pc[g] \in {"run", "finished"}
    PROVE  \E f \in findings[g] : f.kind = "abandoned"
BY DEF TripIsFollowedUp

LEMMA ReaderMoves ==
    ASSUME NEW r \in Reads, Reader(r)
    PROVE  \E to \in ReaderPC \cup {"run"} : pc' = [pc EXCEPT ![owner[r]] = to]
<1>1. CASE TakeResult(r) \/ TakeEdgeResult(r)
  BY <1>1 DEF TakeResult, TakeEdgeResult, finishFileResult, Return
<1>2. CASE TakeTimer(r)
  BY <1>2 DEF TakeTimer, ReaderPC
<1>3. CASE BookTimeout(r)
  BY <1>3 DEF BookTimeout, recordTimeout, ReaderPC
<1>4. CASE WarnTimeout(r)
  BY <1>4 DEF WarnTimeout, Return, ReaderPC
<1>5. CASE AnnounceAbandonment(r)
  BY <1>5 DEF AnnounceAbandonment, Return
<1>6. QED
  BY <1>1, <1>2, <1>3, <1>4, <1>5 DEF Reader

\* What is left to show of ReportInv' once BudgetInv' is known.
ReportParts == TripIsFollowedUp /\ CountsComeLast /\ GivingUpIsReported

LEMMA ReaderKeepsReportInv ==
    ASSUME ReportInv, NEW r \in Reads, Reader(r)
    PROVE  ReportParts'
<1> DEFINE g == owner[r]
<1>1. /\ TypeOK /\ WaitsWithinBudget /\ TripIsFollowedUp
      /\ CountsComeLast /\ GivingUpIsReported
      /\ g \in Goroutines /\ Main \in Goroutines
  BY DEF ReportInv, BudgetInv, TypeOK, Goroutines
<1>2. PICK to \in ReaderPC \cup {"run"} : pc' = [pc EXCEPT ![g] = to]
  BY ReaderMoves
<1>3. /\ pc[g] \in ReaderPC /\ pc[g] # "finished"
      /\ done' = done /\ skipped' = skipped
  BY ReaderFindings DEF ReaderPC
<1>4. PICK fs : FindingsGrow(g, fs)
  BY ReaderFindings
<1>5. CountsComeLast'
  <2>1. pc'[Main] # "finished" => pc[Main] # "finished"
    BY <1>1, <1>2, <1>3 DEF TypeOK
  <2>2. QED
    BY <1>1, <1>3, <1>4, <2>1, GrowthKeepsCounts DEF CountsComeLast
<1>6. ASSUME NEW h \in Goroutines, h # g, abandoned'[h]
      PROVE  pc'[h] \in {"tripped", "announcing"}
             \/ \E f \in findings'[h] : f.kind = "abandoned"
  <2>1. abandoned'[h] = abandoned[h]
    <3>1. CASE BookTimeout(r)
      <4>1. \E x : abandoned' = [abandoned EXCEPT ![g] = x]
        BY <3>1, Zenon DEF BookTimeout, recordTimeout
      <4>2. QED
        BY <1>1, <1>6, <4>1 DEF TypeOK
    <3>2. CASE ~BookTimeout(r)
      BY <3>2 DEF Reader, TakeResult, TakeTimer, TakeEdgeResult, WarnTimeout,
                  AnnounceAbandonment, finishFileResult, budgetVars
    <3>3. QED
      BY <3>1, <3>2
  <2>2. pc'[h] = pc[h] /\ findings'[h] = findings[h]
    BY <1>1, <1>2, <1>4, <1>6 DEF FindingsGrow, TypeOK
  <2>3. QED
    BY <1>1, <1>6, <2>1, <2>2 DEF TripIsFollowedUp
<1>7. ASSUME abandoned'[g]
      PROVE  pc'[g] \in {"tripped", "announcing"}
             \/ \E f \in findings'[g] : f.kind = "abandoned"
  <2>1. CASE TakeResult(r) \/ TakeEdgeResult(r) \/ TakeTimer(r)
    <3>1. pc[g] \in {"wait", "expired"} /\ abandoned' = abandoned
      BY <2>1 DEF TakeResult, TakeEdgeResult, TakeTimer, finishFileResult, budgetVars
    <3>2. QED
      BY <1>1, <1>7, <3>1 DEF WaitsWithinBudget
  <2>2. CASE BookTimeout(r)
    <3>1. pc[g] = "expired"
      BY <2>2 DEF BookTimeout, recordTimeout
    <3>2. ~abandoned[g]
      BY <1>1, <3>1 DEF WaitsWithinBudget
    <3>3. CASE stalls[g] + 1 >= Budget
      BY <1>1, <2>2, <3>2, <3>3 DEF BookTimeout, recordTimeout, TypeOK
    <3>4. CASE ~(stalls[g] + 1 >= Budget)
      BY <1>1, <1>7, <2>2, <3>2, <3>4 DEF BookTimeout, recordTimeout, TypeOK
    <3>5. QED
      BY <3>3, <3>4
  <2>3. CASE WarnTimeout(r) /\ pc[g] = "booked"
    BY <1>1, <1>7, <2>3 DEF WarnTimeout, budgetVars, WaitsWithinBudget
  <2>4. CASE WarnTimeout(r) /\ pc[g] # "booked"
    BY <1>1, <2>4 DEF WarnTimeout, TypeOK
  <2>5. CASE AnnounceAbandonment(r)
    <3>1. findings'[g] = findings[g] \cup {Abandonment}
      BY <1>1, <2>5 DEF AnnounceAbandonment, TypeOK
    <3>2. Abandonment.kind = "abandoned"
      BY FindingFields DEF Abandonment
    <3>3. QED
      BY <3>1, <3>2
  <2>6. QED
    BY <2>1, <2>2, <2>3, <2>4, <2>5 DEF Reader
<1>8. TripIsFollowedUp'
  BY <1>6, <1>7 DEF TripIsFollowedUp
<1>9. ASSUME pc'[Main] = "finished"
      PROVE  \A f \in findings'[Main] : f.kind = "abandoned" => f.unread = skipped'[Main]
  <2>1. Main # g /\ pc[Main] = "finished"
    BY <1>1, <1>2, <1>9 DEF TypeOK, ReaderPC
  <2>2. findings'[Main] = findings[Main]
    BY <1>1, <1>4, <2>1 DEF FindingsGrow, TypeOK
  <2>3. QED
    BY <1>1, <1>3, <2>1, <2>2 DEF GivingUpIsReported
<1>10. GivingUpIsReported'
  BY <1>8, <1>9 DEF GivingUpIsReported, TripIsFollowedUp
<1>11. QED
  BY <1>5, <1>8, <1>10 DEF ReportParts

LEMMA WorkerKeepsReportInv ==
    ASSUME ReportInv, NEW r \in Reads, Worker(r) \/ TimerFires(r)
    PROVE  ReportParts'
<1>1. /\ TypeOK /\ TripIsFollowedUp /\ CountsComeLast /\ GivingUpIsReported
      /\ r \in Goroutines /\ Main \in Goroutines /\ r # Main
  BY DEF ReportInv, BudgetInv, Goroutines
<1>g. PICK g \in Goroutines : \E fs : FindingsGrow(g, fs) /\ ~Abandoning(fs)
  BY WorkerFindings
<1>2. PICK fs : FindingsGrow(g, fs) /\ ~Abandoning(fs)
  BY <1>g
<1>3. WorkerMove(r)
  BY WorkerMoves
<1>4. pc'[Main] = pc[Main]
  BY <1>1, <1>3 DEF WorkerMove, TypeOK
<1>5. CountsComeLast'
  BY <1>1, <1>2, <1>4, WorkerFindings, GrowthKeepsCounts
<1>6. \A h \in Goroutines :
          /\ findings[h] \subseteq findings'[h]
          /\ \A f \in findings'[h] : f.kind = "abandoned" => f \in findings[h]
  BY <1>1, <1>2 DEF FindingsGrow, Abandoning, TypeOK
<1>7. ASSUME NEW h \in Goroutines, pc[h] \in {"tripped", "announcing"}
      PROVE  pc'[h] = pc[h]
  <2>1. h # r \/ pc' = pc
    BY <1>3, <1>7 DEF WorkerMove, WorkerPC
  <2>2. QED
    BY <1>1, <1>3, <1>7, <2>1 DEF WorkerMove, TypeOK
<1>8. TripIsFollowedUp'
  BY <1>1, <1>3, <1>6, <1>7 DEF TripIsFollowedUp, WorkerMove
<1>9. GivingUpIsReported'
  BY <1>1, <1>3, <1>4, <1>6, <1>8
  DEF GivingUpIsReported, TripIsFollowedUp, WorkerMove
<1>10. QED
  BY <1>5, <1>8, <1>9 DEF ReportParts

LEMMA MainKeepsReportInv ==
    ASSUME ReportInv, StartRead \/ FinishScan
    PROVE  ReportParts'
<1>1. /\ TypeOK /\ TripIsFollowedUp /\ CountsComeLast /\ GivingUpIsReported
      /\ Main \in Goroutines /\ Reads \subseteq Goroutines
  BY DEF ReportInv, BudgetInv, Goroutines
<1>2. ASSUME NEW g \in Goroutines, NEW p \in Files, SkipRead(g, p)
      PROVE  ReportParts'
  <2>1. /\ pc[g] = "run" /\ pc' = pc
        /\ skipped' = [skipped EXCEPT ![g] = @ + 1]
        /\ UNCHANGED <<findings, done, abandoned>>
    BY <1>2 DEF SkipRead, MayRead, readVars
  <2>2. pc'[Main] = "finished" => skipped'[Main] = skipped[Main]
    BY <1>1, <2>1 DEF TypeOK
  <2>3. QED
    BY <1>1, <2>1, <2>2
    DEF ReportParts, TripIsFollowedUp, CountsComeLast, GivingUpIsReported
<1>3. ASSUME NEW g \in Goroutines, NEW p \in Files, NEW r \in Reads,
             NEW opt \in BOOLEAN, BeginRead(g, r, p, opt)
      PROVE  ReportParts'
  <2>1. /\ pc[g] = "run" /\ pc[r] = "unused"
        /\ pc' = [pc EXCEPT ![g] = "wait", ![r] = "stat"]
        /\ UNCHANGED <<findings, done, abandoned, skipped>>
    BY <1>3 DEF BeginRead, StartWorker, MayRead, budgetVars
  <2>2. \A h \in Goroutines :
            /\ pc[h] \in {"tripped", "announcing"} => pc'[h] = pc[h]
            /\ pc'[h] \in {"run", "finished"} => pc'[h] = pc[h]
            /\ pc[h] = "finished" => pc'[h] = pc[h]
    BY <1>1, <2>1 DEF TypeOK
  <2>3. TripIsFollowedUp'
    BY <1>1, <2>1, <2>2 DEF TripIsFollowedUp
  <2>4. CountsComeLast'
    BY <1>1, <2>1, <2>2 DEF CountsComeLast
  <2>5. GivingUpIsReported'
    BY <1>1, <2>1, <2>2 DEF GivingUpIsReported
  <2>6. QED
    BY <2>3, <2>4, <2>5 DEF ReportParts
<1>4. CASE FinishScan
  <2> DEFINE fs == findings[Main]
             n == skipped[Main]
  <2>1. /\ pc[Main] = "run" /\ pc' = [pc EXCEPT ![Main] = "finished"]
        /\ findings' = [findings EXCEPT ![Main] = finalizeStalls(fs, n)]
        /\ UNCHANGED <<done, abandoned, skipped>>
    BY <1>4 DEF FinishScan, readVars, budgetVars
  <2>2. \A f \in fs : f.unread = 0 /\ f \in Finding
    BY <1>1, <2>1 DEF CountsComeLast, TypeOK
  <2>3. \A f \in finalizeStalls(fs, n) : f.kind = "abandoned" => f.unread = n
    BY <2>2 DEF finalizeStalls, Finding
  <2>4. (\E f \in fs : f.kind = "abandoned") =>
            \E f \in finalizeStalls(fs, n) : f.kind = "abandoned"
    <3>1. ASSUME NEW f \in fs, f.kind = "abandoned"
          PROVE  \E e \in finalizeStalls(fs, n) : e.kind = "abandoned"
      <4>1. [f EXCEPT !.unread = n].kind = "abandoned"
        BY <2>2, <3>1 DEF Finding
      <4>2. f \in finalizeStalls(fs, n) \/ [f EXCEPT !.unread = n] \in finalizeStalls(fs, n)
        BY <3>1 DEF finalizeStalls
      <4>3. QED
        BY <3>1, <4>1, <4>2
    <3>2. QED
      BY <3>1
  <2>5. \A h \in Goroutines : h # Main =>
            findings'[h] = findings[h] /\ pc'[h] = pc[h]
    BY <1>1, <2>1 DEF TypeOK
  <2>6. pc'[Main] = "finished" /\ findings'[Main] = finalizeStalls(fs, n)
    BY <1>1, <2>1 DEF TypeOK
  <2>7. TripIsFollowedUp'
    <3>1. abandoned[Main] => \E f \in findings'[Main] : f.kind = "abandoned"
      BY <1>1, <2>1, <2>4, <2>6, TripImpliesReported
    <3>2. QED
      BY <1>1, <2>1, <2>5, <3>1 DEF TripIsFollowedUp
  <2>8. CountsComeLast'
    BY <1>1, <2>1, <2>5, <2>6 DEF CountsComeLast
  <2>9. GivingUpIsReported'
    BY <2>1, <2>3, <2>6, <2>7 DEF GivingUpIsReported, TripIsFollowedUp
  <2>10. QED
    BY <2>7, <2>8, <2>9 DEF ReportParts
<1>5. QED
  BY <1>2, <1>3, <1>4 DEF StartRead

LEMMA InitReportInv == Init => ReportInv
<1> SUFFICES ASSUME Init PROVE ReportInv
  OBVIOUS
<1>1. TripIsFollowedUp /\ CountsComeLast /\ GivingUpIsReported
  BY DEF Init, TripIsFollowedUp, CountsComeLast, GivingUpIsReported, Goroutines
<1>2. QED
  BY <1>1, InitBudgetInv DEF ReportInv

LEMMA NextReportInv == ReportInv /\ [Next]_vars => ReportInv'
<1> SUFFICES ASSUME ReportInv, [Next]_vars PROVE ReportInv'
  OBVIOUS
<1>1. BudgetInv'
  BY NextBudgetInv DEF ReportInv
<1>2. CASE UNCHANGED vars
  <2>1. ReportParts'
    BY <1>2 DEF ReportInv, ReportParts, TripIsFollowedUp, CountsComeLast,
                GivingUpIsReported, vars, readVars, budgetVars
  <2>2. QED
    BY <1>1, <2>1 DEF ReportInv, ReportParts
<1>3. CASE Next
  <2>1. ReportParts'
    BY <1>3, ReaderKeepsReportInv, WorkerKeepsReportInv, MainKeepsReportInv DEF Next
  <2>2. QED
    BY <1>1, <2>1 DEF ReportInv, ReportParts
<1>4. QED
  BY <1>2, <1>3

\* A scan that stopped reading never keeps it to itself: once back in its
\* checks it has announced it, and the finding of a finished scan carries the
\* number of files that went unread, late workers notwithstanding.
THEOREM GivingUpIsAlwaysReported == Spec => []GivingUpIsReported
<1>1. ReportInv => GivingUpIsReported
  BY DEF ReportInv
<1>2. QED
  BY <1>1, InitReportInv, NextReportInv, PTL DEF Spec
-----------------------------------------------------------------------------
(* What a step of the system keeps: findings stay (closing the report only *)
(* writes a count into the abandonment), a read that was asked for stays   *)
(* what it is, and a result that was delivered stays.                      *)

Kept(old, new) ==
    \A f \in old : \E e \in new :
        /\ e.kind = f.kind
        /\ e.path = f.path
        /\ f.kind # "abandoned" => e = f

Persists ==
    /\ \A g \in Goroutines : Kept(findings[g], findings'[g])
    /\ \A r \in Reads : pc[r] # "unused" =>
          /\ pc'[r] # "unused"
          /\ owner'[r] = owner[r]
          /\ path'[r] = path[r]
          /\ optional'[r] = optional[r]
    /\ \A r \in Reads : done[r] # NoResult => done'[r] = done[r]

LEMMA SubsetKept == \A old, new : old \subseteq new => Kept(old, new)
BY DEF Kept

LEMMA FinalizeKept ==
    ASSUME NEW fs \in SUBSET Finding, NEW n \in Nat
    PROVE  Kept(fs, finalizeStalls(fs, n))
<1>1. CASE n = 0
  BY <1>1, SubsetKept DEF finalizeStalls
<1>2. CASE n # 0
  <2>1. SUFFICES ASSUME NEW f \in fs
                 PROVE  \E e \in finalizeStalls(fs, n) :
                            /\ e.kind = f.kind
                            /\ e.path = f.path
                            /\ f.kind # "abandoned" => e = f
    BY DEF Kept
  <2> DEFINE e == IF f.kind = "abandoned" THEN [f EXCEPT !.unread = n] ELSE f
  <2>2. e \in finalizeStalls(fs, n)
    BY <1>2 DEF finalizeStalls
  <2>3. e.kind = f.kind /\ e.path = f.path /\ (f.kind # "abandoned" => e = f)
    BY DEF Finding
  <2>4. QED
    BY <2>2, <2>3
<1>3. QED
  BY <1>1, <1>2

LEMMA KeptIncomplete ==
    ASSUME NEW old, NEW new, Kept(old, new), hasIncomplete(old)
    PROVE  hasIncomplete(new)
BY DEF Kept, hasIncomplete

LEMMA KeptIndicators ==
    ASSUME NEW old, NEW new, NEW fs, Kept(old, new), indicators(fs) \subseteq old
    PROVE  indicators(fs) \subseteq new
<1>1. SUFFICES ASSUME NEW f \in indicators(fs) PROVE f \in new
  OBVIOUS
<1>2. f \in old /\ f.kind = "indicator"
  BY DEF indicators
<1>3. QED
  BY <1>2 DEF Kept

LEMMA ReaderPersists ==
    ASSUME ReportInv, NEW r \in Reads, Reader(r)
    PROVE  Persists
<1>1. TypeOK /\ owner[r] \in Goroutines
  BY DEF ReportInv, BudgetInv, TypeOK
<1>2. PICK to \in ReaderPC \cup {"run"} : pc' = [pc EXCEPT ![owner[r]] = to]
  BY ReaderMoves
<1>3. done' = done
  BY ReaderFindings
<1>4. PICK fs : FindingsGrow(owner[r], fs)
  BY ReaderFindings
<1>5. UNCHANGED <<owner, path, optional>>
  BY DEF Reader, TakeResult, TakeTimer, TakeEdgeResult, BookTimeout, WarnTimeout,
         AnnounceAbandonment, finishFileResult, recordTimeout, Return, readVars
<1>6. \A g \in Goroutines : findings[g] \subseteq findings'[g]
  BY <1>1, <1>4 DEF FindingsGrow, TypeOK
<1>7. \A q \in Reads : pc[q] # "unused" => pc'[q] # "unused"
  BY <1>1, <1>2 DEF TypeOK, ReaderPC, Goroutines
<1>8. QED
  BY <1>3, <1>5, <1>6, <1>7, SubsetKept DEF Persists

LEMMA WorkerResults ==
    ASSUME TypeOK, NEW r \in Reads, Worker(r) \/ TimerFires(r)
    PROVE  /\ \A q \in Reads : q # r => done'[q] = done[q]
           /\ done' = done \/ pc[r] \in WorkerPC \cup {"run"}
           /\ UNCHANGED <<owner, path, optional, cancelled>>
<1>1. ASSUME NEW x, Deliver(r, x), pc[r] \in WorkerPC \cup {"run"}
      PROVE  /\ \A q \in Reads : q # r => done'[q] = done[q]
             /\ pc[r] \in WorkerPC \cup {"run"}
             /\ UNCHANGED <<owner, path, optional, cancelled>>
  BY <1>1 DEF Deliver, TypeOK
<1>2. ASSUME NEW x, Advance(r, x)
      PROVE  UNCHANGED <<done, owner, path, optional, cancelled>>
  BY <1>2 DEF Advance, readVars
<1>3. CASE StatFile(r) \/ OpenFile(r) \/ ReadFile(r) \/ LoadFile(r) \/ InspectFile(r)
  BY <1>1, <1>2, <1>3
  DEF StatFile, OpenFile, ReadFile, LoadFile, InspectFile, WorkerPC
<1>4. CASE ReturnResult(r)
  BY <1>1, <1>4 DEF ReturnResult
<1>5. CASE WarnDataless(r)
  BY <1>5 DEF WarnDataless, TypeOK, WorkerPC
<1>6. CASE \/ CountDataless(r) \/ TimerFires(r)
           \/ \E kind \in {"indicator", "failed"} : Detect(r, kind)
  BY <1>6 DEF CountDataless, TimerFires, FireTimer, Detect, readVars
<1>7. QED
  BY <1>3, <1>4, <1>5, <1>6 DEF Worker

LEMMA WorkerPersists ==
    ASSUME ReportInv, DeliversLast, NEW r \in Reads, Worker(r) \/ TimerFires(r)
    PROVE  Persists
<1>1. TypeOK /\ r \in Goroutines
  BY DEF ReportInv, BudgetInv, Goroutines
<1>2. PICK g \in Goroutines : \E fs : FindingsGrow(g, fs)
  BY WorkerFindings
<1>3. \A h \in Goroutines : findings[h] \subseteq findings'[h]
  BY <1>1, <1>2 DEF FindingsGrow, TypeOK
<1>4. \A q \in Reads : pc[q] # "unused" => pc'[q] # "unused"
  BY <1>1, WorkerMoves DEF WorkerMove, TypeOK, WorkerPC, Goroutines
<1>5. \A q \in Reads : done[q] # NoResult => done'[q] = done[q]
  BY <1>1, WorkerResults DEF DeliversLast, WorkerPC
<1>6. QED
  BY <1>1, <1>3, <1>4, <1>5, WorkerResults, SubsetKept DEF Persists

LEMMA MainPersists ==
    ASSUME ReportInv, StartRead \/ FinishScan
    PROVE  Persists
<1>1. TypeOK /\ Main \in Goroutines /\ Reads \subseteq Goroutines
  BY DEF ReportInv, BudgetInv, Goroutines
<1>2. ASSUME NEW g \in Goroutines, NEW p \in Files, SkipRead(g, p)
      PROVE  Persists
  BY <1>2, SubsetKept DEF SkipRead, readVars, Persists
<1>3. ASSUME NEW g \in Goroutines, NEW p \in Files, NEW r \in Reads,
             NEW opt \in BOOLEAN, BeginRead(g, r, p, opt)
      PROVE  Persists
  <2>1. /\ pc[g] = "run" /\ pc[r] = "unused"
        /\ pc' = [pc EXCEPT ![g] = "wait", ![r] = "stat"]
        /\ owner' = [owner EXCEPT ![r] = g]
        /\ path' = [path EXCEPT ![r] = p]
        /\ optional' = [optional EXCEPT ![r] = opt]
        /\ UNCHANGED <<done, findings>>
    BY <1>3 DEF BeginRead, StartWorker, MayRead
  <2>2. \A q \in Reads : pc[q] # "unused" =>
            /\ pc'[q] # "unused" /\ q # r
            /\ owner'[q] = owner[q] /\ path'[q] = path[q] /\ optional'[q] = optional[q]
    BY <1>1, <2>1 DEF TypeOK
  <2>3. QED
    BY <2>1, <2>2, SubsetKept DEF Persists
<1>4. CASE FinishScan
  <2>1. /\ pc[Main] = "run" /\ pc' = [pc EXCEPT ![Main] = "finished"]
        /\ findings' = [findings EXCEPT ![Main] = finalizeStalls(@, skipped[Main])]
        /\ UNCHANGED readVars
    BY <1>4 DEF FinishScan
  <2>2. Kept(findings[Main], finalizeStalls(findings[Main], skipped[Main]))
    BY <1>1, FinalizeKept DEF TypeOK
  <2>3. \A h \in Goroutines : Kept(findings[h], findings'[h])
    BY <1>1, <2>1, <2>2, SubsetKept DEF TypeOK
  <2>4. \A q \in Reads : pc[q] # "unused" => pc'[q] # "unused"
    BY <1>1, <2>1 DEF TypeOK
  <2>5. QED
    BY <2>1, <2>3, <2>4 DEF Persists, readVars
<1>5. QED
  BY <1>2, <1>3, <1>4 DEF StartRead

LEMMA StepPersists ==
    ASSUME ReportInv, DeliversLast, Next
    PROVE  Persists
BY ReaderPersists, WorkerPersists, MainPersists DEF Next

LEMMA NamedPersists ==
    ASSUME TypeOK, Persists, NEW r \in Reads, pc[r] # "unused", Named(owner[r], path[r])
    PROVE  Named(owner[r], path[r])'
<1>1. owner[r] \in Goroutines /\ owner'[r] = owner[r] /\ path'[r] = path[r]
  BY DEF Persists, TypeOK
<1>2. PICK f \in findings[owner[r]] : f.kind \in IncompleteKinds /\ f.path = path[r]
  BY DEF Named
<1>3. PICK e \in findings'[owner[r]] : e.kind = f.kind /\ e.path = f.path
  BY <1>1 DEF Persists, Kept
<1>4. QED
  BY <1>1, <1>2, <1>3 DEF Named

\* What ReadIsAccounted says of one read.
Answered(r) ==
    /\ done[r] # NoResult
    /\ \/ optionalFileMissing(r)
       \/ /\ done[r].err = "none"
          /\ indicators(done[r].findings) \subseteq findings[owner[r]]
          /\ hasIncomplete(done[r].findings) => hasIncomplete(findings[owner[r]])

Accounted(r) == Named(owner[r], path[r]) \/ Answered(r)

LEMMA AccountedMeans ==
    /\ ReadIsAccounted <=> \A r \in Reads : cancelled[r] => Accounted(r)
    /\ ReadIsAccounted' <=> \A r \in Reads : cancelled'[r] => Accounted(r)'
BY DEF ReadIsAccounted, Accounted, Answered

LEMMA AccountedPersists ==
    ASSUME TypeOK, Persists, NEW r \in Reads, pc[r] # "unused", Accounted(r)
    PROVE  Accounted(r)'
<1>1. CASE Named(owner[r], path[r])
  BY <1>1, NamedPersists DEF Accounted
<1>2. CASE Answered(r)
  <2>1. /\ owner[r] \in Goroutines /\ owner'[r] = owner[r]
        /\ optional'[r] = optional[r] /\ done'[r] = done[r]
        /\ Kept(findings[owner[r]], findings'[owner[r]])
    BY <1>2 DEF Persists, Answered, TypeOK
  <2>2. CASE optionalFileMissing(r)
    BY <1>2, <2>1, <2>2 DEF optionalFileMissing, Answered, Accounted
  <2>3. CASE ~optionalFileMissing(r)
    <3>1. /\ done[r] # NoResult /\ done[r].err = "none"
          /\ indicators(done[r].findings) \subseteq findings[owner[r]]
          /\ hasIncomplete(done[r].findings) => hasIncomplete(findings[owner[r]])
      BY <1>2, <2>3 DEF Answered
    <3>2. indicators(done[r].findings) \subseteq findings'[owner[r]]
      BY <2>1, <3>1, KeptIndicators
    <3>3. hasIncomplete(done[r].findings) => hasIncomplete(findings'[owner[r]])
      BY <2>1, <3>1, KeptIncomplete
    <3>4. QED
      BY <2>1, <3>1, <3>2, <3>3 DEF Answered, Accounted
  <2>4. QED
    BY <2>2, <2>3
<1>3. QED
  BY <1>1, <1>2 DEF Accounted
-----------------------------------------------------------------------------
(* Every read is accounted for.                                            *)

\* A reader's step leaves every scanner but its own alone; a worker's step
\* touches its own while it inspects, and for a placeholder its reader's.
Untouched(g) ==
    /\ findings'[g] = findings[g]
    /\ unreadable'[g] = unreadable[g]
    /\ skipped'[g] = skipped[g]
    /\ scriptChecked'[g] = scriptChecked[g]

LEMMA ReaderTouches ==
    ASSUME TypeOK, NEW r \in Reads, Reader(r)
    PROVE  /\ \A g \in Goroutines : g # owner[r] => Untouched(g)
           /\ UNCHANGED <<owner, path, optional, done, skipped>>
           /\ Outstanding(r)
<1> USE DEF Untouched
<1>1. CASE TakeResult(r) \/ TakeEdgeResult(r)
  <2>1. Outstanding(r) /\ finishFileResult(r)
    BY <1>1 DEF TakeResult, TakeEdgeResult
  <2>2. UNCHANGED <<owner, path, optional, done, skipped>>
    BY <2>1 DEF finishFileResult, Return, budgetVars
  <2>3. CASE CountFailure(r)
    BY <2>1, <2>2, <2>3 DEF CountFailure, TypeOK
  <2>4. CASE mergeFileResult(r)
    BY <2>1, <2>2, <2>4 DEF mergeFileResult, Merge, TypeOK
  <2>5. QED
    BY <2>1, <2>3, <2>4 DEF finishFileResult
<1>2. CASE TakeTimer(r)
  BY <1>2 DEF TakeTimer, readVars, budgetVars
<1>3. CASE BookTimeout(r)
  BY <1>3 DEF BookTimeout, recordTimeout, readVars, TypeOK
<1>4. CASE WarnTimeout(r)
  BY <1>4 DEF WarnTimeout, Return, readVars, budgetVars, TypeOK
<1>5. CASE AnnounceAbandonment(r)
  BY <1>5 DEF AnnounceAbandonment, Return, budgetVars, TypeOK
<1>6. QED
  BY <1>1, <1>2, <1>3, <1>4, <1>5 DEF Reader

LEMMA WorkerTouches ==
    ASSUME TypeOK, NEW r \in Reads, Worker(r) \/ TimerFires(r)
    PROVE  \A g \in Goroutines :
               \/ Untouched(g)
               \/ g = r /\ pc[r] = "run"
               \/ g = owner[r] /\ pc[r] \in {"stat", "dataless"}
<1> USE DEF Untouched
<1>1. CASE StatFile(r) \/ OpenFile(r) \/ ReadFile(r) \/ LoadFile(r) \/ InspectFile(r)
           \/ ReturnResult(r) \/ TimerFires(r)
  BY <1>1
  DEF StatFile, OpenFile, ReadFile, LoadFile, InspectFile, ReturnResult, TimerFires,
      FireTimer, Deliver, Advance, budgetVars
<1>2. CASE CountDataless(r)
  BY <1>2 DEF CountDataless, budgetVars, TypeOK
<1>3. CASE WarnDataless(r)
  BY <1>3 DEF WarnDataless, budgetVars, TypeOK
<1>4. CASE \E kind \in {"indicator", "failed"} : Detect(r, kind)
  BY <1>4 DEF Detect, budgetVars, TypeOK
<1>5. QED
  BY <1>1, <1>2, <1>3, <1>4 DEF Worker

LEMMA WorkerDeliversLast ==
    ASSUME TypeOK, DeliversLast, FailuresAreBare,
           NEW r \in Reads, Worker(r) \/ TimerFires(r)
    PROVE  DeliversLast' /\ FailuresAreBare'
<1> DEFINE Bare(x) == x.err # "none" => x.findings = {} /\ x.unreadable = 0
<1>0. r \in Goroutines
  BY DEF Goroutines
<1>1. ASSUME NEW x, Bare(x), done' = [done EXCEPT ![r] = x],
             pc' = [pc EXCEPT ![r] = "finished"], cancelled' = cancelled
      PROVE  DeliversLast' /\ FailuresAreBare'
  BY <1>0, <1>1 DEF DeliversLast, FailuresAreBare, TypeOK, Goroutines
<1>2. ASSUME NEW to, to \notin {"unused", "finished"}, pc[r] # "finished",
             pc' = [pc EXCEPT ![r] = to], UNCHANGED <<done, cancelled>>
      PROVE  DeliversLast' /\ FailuresAreBare'
  BY <1>0, <1>2 DEF DeliversLast, FailuresAreBare, TypeOK, Goroutines
<1>3. ASSUME UNCHANGED <<pc, done, cancelled>>
      PROVE  DeliversLast' /\ FailuresAreBare'
  BY <1>3 DEF DeliversLast, FailuresAreBare
<1>4. ASSUME NEW x, Bare(x), Deliver(r, x)
      PROVE  DeliversLast' /\ FailuresAreBare'
  BY <1>1, <1>4 DEF Deliver
<1>5. ASSUME NEW to, to \notin {"unused", "finished"}, pc[r] # "finished", Advance(r, to)
      PROVE  DeliversLast' /\ FailuresAreBare'
  BY <1>2, <1>5 DEF Advance, readVars
<1>6. Bare(emptyResult) /\ \A e \in {"failed", "missing"} : Bare(errorResult(e))
  BY DEF emptyResult, errorResult
<1> HIDE DEF Bare
<1>7. CASE StatFile(r) \/ OpenFile(r) \/ ReadFile(r) \/ LoadFile(r) \/ InspectFile(r)
  BY <1>4, <1>5, <1>6, <1>7
  DEF StatFile, OpenFile, ReadFile, LoadFile, InspectFile
<1>8. CASE ReturnResult(r)
  <2> DEFINE x == [err |-> "none", findings |-> findings[r],
                   unreadable |-> unreadable[r], checked |-> scriptChecked[r]]
  <2>1. Bare(x)
    BY DEF Bare
  <2>2. QED
    BY <1>4, <1>8, <2>1 DEF ReturnResult
<1>9. CASE CountDataless(r)
  BY <1>2, <1>9 DEF CountDataless, readVars
<1>10. CASE WarnDataless(r)
  BY <1>1, <1>6, <1>10 DEF WarnDataless
<1>11. CASE TimerFires(r) \/ \E kind \in {"indicator", "failed"} : Detect(r, kind)
  BY <1>3, <1>11 DEF TimerFires, FireTimer, Detect, readVars
<1>12. QED
  BY <1>7, <1>8, <1>9, <1>10, <1>11 DEF Worker

LEMMA WorkerKeepsReadInv ==
    ASSUME ReadInv, NEW r \in Reads, Worker(r) \/ TimerFires(r), Persists
    PROVE  /\ DeliversLast' /\ FreshUntilLoaded' /\ NestsOnce'
           /\ NamedBeforeAnnounced' /\ FailuresAreBare' /\ ReadIsAccounted'
<1>1. /\ TypeOK /\ DeliversLast /\ FreshUntilLoaded /\ NestsOnce
      /\ NamedBeforeAnnounced /\ FailuresAreBare /\ ReadIsAccounted
      /\ r \in Goroutines /\ Main \notin Reads /\ ReportInv
  BY DEF ReadInv, ReportInv, BudgetInv, Goroutines
<1>2. WorkerMove(r) /\ UNCHANGED <<owner, path, optional, cancelled>>
  BY <1>1, WorkerMoves, WorkerResults
<1>3. \A g \in Goroutines : \/ Untouched(g)
                            \/ g = r /\ pc[r] = "run"
                            \/ g = owner[r] /\ pc[r] \in {"stat", "dataless"}
  BY <1>1, WorkerTouches
<1>4. DeliversLast' /\ FailuresAreBare'
  BY <1>1, WorkerDeliversLast
<1>5. FreshUntilLoaded'
  <2>1. SUFFICES ASSUME NEW q \in Reads, pc'[q] \in WorkerPC \cup {"unused"}
                 PROVE  /\ \A p \in Reads : owner'[p] # q
                        /\ findings'[q] = {}
                        /\ unreadable'[q] = 0
                        /\ skipped'[q] = 0
                        /\ scriptChecked'[q] = {}
    BY DEF FreshUntilLoaded
  <2>2. q \in Goroutines /\ pc[q] \in WorkerPC \cup {"unused", "run"}
    BY <1>1, <1>2, <2>1 DEF WorkerMove, TypeOK, Goroutines
  <2>3. pc[q] # "run"
    <3>1. CASE q # r
      BY <1>1, <1>2, <2>1, <2>2, <3>1 DEF WorkerMove, TypeOK, WorkerPC
    <3>2. CASE q = r /\ pc[r] = "run"
      <4>1. pc'[r] \in {"run", "finished"}
        BY <1>1, <3>2 DEF Worker, StatFile, OpenFile, ReadFile, LoadFile, InspectFile,
           CountDataless, WarnDataless, Detect, ReturnResult, TimerFires, FireTimer,
           Deliver, readVars, TypeOK
      <4>2. QED
        BY <2>1, <3>2, <4>1 DEF WorkerPC
    <3>3. QED
      BY <2>2, <3>1, <3>2
  <2>4. /\ \A p \in Reads : owner[p] # q
        /\ findings[q] = {} /\ unreadable[q] = 0 /\ skipped[q] = 0 /\ scriptChecked[q] = {}
    BY <1>1, <2>2, <2>3 DEF FreshUntilLoaded
  <2>5. Untouched(q)
    BY <1>3, <2>2, <2>3, <2>4
  <2>6. QED
    BY <1>2, <2>4, <2>5 DEF Untouched
<1>6. NestsOnce'
  BY <1>1, <1>2 DEF NestsOnce
<1>7. NamedBeforeAnnounced'
  <2>1. SUFFICES ASSUME NEW q \in Reads, Outstanding(q)', pc'[owner'[q]] = "announcing"
                 PROVE  Named(owner[q], path[q])'
    BY DEF NamedBeforeAnnounced
  <2>2. owner[q] \in Goroutines /\ owner'[q] = owner[q]
    BY <1>1, <1>2 DEF TypeOK
  <2>3. pc[owner[q]] = "announcing" /\ pc[q] # "unused" /\ Outstanding(q)
    BY <1>1, <1>2, <2>1, <2>2 DEF WorkerMove, Outstanding, TypeOK, WorkerPC, Goroutines
  <2>4. QED
    BY <1>1, <2>3, NamedPersists DEF NamedBeforeAnnounced
<1>8. ReadIsAccounted'
  BY <1>1, <1>2, AccountedMeans, AccountedPersists DEF DeliversLast
<1>9. QED
  BY <1>4, <1>5, <1>6, <1>7, <1>8

\* Where a reader's step returns r to its caller, r is accounted for.
LEMMA ReturnsAccounted ==
    ASSUME TypeOK, NamedBeforeAnnounced, Persists,
           NEW r \in Reads, Reader(r), pc[r] # "unused", cancelled'[r], ~cancelled[r]
    PROVE  Accounted(r)'
<1> DEFINE g == owner[r]
<1>1. /\ UNCHANGED <<owner, path, optional, done>>
      /\ Outstanding(r) /\ g \in Goroutines
  BY ReaderTouches DEF TypeOK
<1>2. CASE TakeResult(r) \/ TakeEdgeResult(r)
  <2>1. finishFileResult(r)
    BY <1>2 DEF TakeResult, TakeEdgeResult
  <2>2. CASE CountFailure(r) /\ done[r].err # "none"
    <3>1. CASE optionalFileMissing(r)
      BY <1>1, <2>1, <3>1
      DEF optionalFileMissing, finishFileResult, Accounted, Answered
    <3>2. CASE ~optionalFileMissing(r)
      <4>1. finding("failed", path[r]) \in findings'[g]
        BY <1>1, <2>2, <3>2 DEF CountFailure, TypeOK
      <4>2. QED
        BY <1>1, <4>1 DEF finding, Named, Accounted, IncompleteKinds
    <3>3. QED
      BY <3>1, <3>2
  <2>3. CASE mergeFileResult(r) /\ done[r].err = "none"
    <3>1. done[r].findings \subseteq findings'[g]
      BY <1>1, <2>3 DEF mergeFileResult, Merge, TypeOK
    <3>2. done[r] # NoResult
      BY <2>1 DEF finishFileResult
    <3>3. QED
      BY <1>1, <2>3, <3>1, <3>2
      DEF Accounted, Answered, indicators, hasIncomplete
  <2>4. QED
    BY <2>1, <2>2, <2>3 DEF finishFileResult
<1>3. CASE WarnTimeout(r)
  <2>1. finding("timedout", path[r]) \in findings'[g]
    BY <1>1, <1>3 DEF WarnTimeout, TypeOK
  <2>2. QED
    BY <1>1, <2>1 DEF finding, Named, Accounted, IncompleteKinds
<1>4. CASE AnnounceAbandonment(r)
  <2>1. Named(owner[r], path[r])
    BY <1>4 DEF AnnounceAbandonment, NamedBeforeAnnounced
  <2>2. QED
    BY <2>1, NamedPersists DEF Accounted
<1>5. CASE TakeTimer(r) \/ BookTimeout(r)
  BY <1>5 DEF TakeTimer, BookTimeout, recordTimeout, readVars
<1>6. QED
  BY <1>2, <1>3, <1>4, <1>5 DEF Reader

LEMMA ReaderKeepsReadInv ==
    ASSUME ReadInv, NEW r \in Reads, Reader(r), Persists
    PROVE  /\ DeliversLast' /\ FreshUntilLoaded' /\ NestsOnce'
           /\ NamedBeforeAnnounced' /\ FailuresAreBare' /\ ReadIsAccounted'
<1> DEFINE g == owner[r]
<1>1. /\ TypeOK /\ OneReadEach /\ DeliversLast /\ FreshUntilLoaded /\ NestsOnce
      /\ NamedBeforeAnnounced /\ FailuresAreBare /\ ReadIsAccounted
      /\ Main \notin Reads /\ ReportInv /\ g \in Goroutines
  BY DEF ReadInv, ReportInv, BudgetInv, TypeOK
<1>2. /\ \A h \in Goroutines : h # g => Untouched(h)
      /\ UNCHANGED <<owner, path, optional, done, skipped>>
      /\ Outstanding(r)
  BY <1>1, ReaderTouches
<1>3. PICK to \in ReaderPC \cup {"run"} : pc' = [pc EXCEPT ![g] = to]
  BY ReaderMoves
<1>4. pc[g] \in ReaderPC
  BY <1>1, <1>2 DEF OneReadEach
<1>5. \A q \in Reads : cancelled'[q] => cancelled[q] \/ q = r
  BY <1>1 DEF Reader, TakeResult, TakeTimer, TakeEdgeResult, BookTimeout, WarnTimeout,
     AnnounceAbandonment, finishFileResult, recordTimeout, Return, readVars, TypeOK
<1>6. \A q \in Reads : cancelled[q] => cancelled'[q]
  BY <1>1 DEF Reader, TakeResult, TakeTimer, TakeEdgeResult, BookTimeout, WarnTimeout,
     AnnounceAbandonment, finishFileResult, recordTimeout, Return, readVars, TypeOK
<1>7. DeliversLast'
  <2>1. SUFFICES ASSUME NEW q \in Reads
                 PROVE  /\ done'[q] # NoResult => pc'[q] = "finished"
                        /\ cancelled'[q] => pc'[q] # "unused"
    BY DEF DeliversLast
  <2>2. done'[q] # NoResult => pc'[q] = "finished"
    BY <1>1, <1>2, <1>3, <1>4 DEF DeliversLast, TypeOK, Goroutines, ReaderPC
  <2>3. cancelled'[q] => pc[q] # "unused"
    BY <1>1, <1>2, <1>5 DEF DeliversLast, Outstanding
  <2>4. QED
    BY <2>2, <2>3 DEF Persists
<1>8. FreshUntilLoaded'
  <2>1. SUFFICES ASSUME NEW q \in Reads, pc'[q] \in WorkerPC \cup {"unused"}
                 PROVE  /\ \A p \in Reads : owner'[p] # q
                        /\ findings'[q] = {}
                        /\ unreadable'[q] = 0
                        /\ skipped'[q] = 0
                        /\ scriptChecked'[q] = {}
    BY DEF FreshUntilLoaded
  <2>2. q \in Goroutines /\ q # g /\ pc'[q] = pc[q]
    BY <1>1, <1>3, <2>1 DEF TypeOK, Goroutines, WorkerPC, ReaderPC
  <2>3. Untouched(q)
    BY <1>2, <2>2
  <2>4. QED
    BY <1>1, <1>2, <2>1, <2>2, <2>3 DEF FreshUntilLoaded, Untouched
<1>9. NestsOnce'
  BY <1>1, <1>2 DEF NestsOnce
<1>10. NamedBeforeAnnounced'
  <2>1. SUFFICES ASSUME NEW q \in Reads, Outstanding(q)', pc'[owner'[q]] = "announcing"
                 PROVE  Named(owner[q], path[q])'
    BY DEF NamedBeforeAnnounced
  <2>2. /\ owner'[q] = owner[q] /\ owner[q] \in Goroutines
        /\ ~cancelled[q]
    BY <1>1, <1>2, <1>6, <2>1 DEF Outstanding, TypeOK
  <2>3. pc[q] # "unused"
    BY <1>1, <1>3, <1>4, <2>1 DEF Outstanding, TypeOK, ReaderPC, Goroutines
  <2>4. CASE owner[q] # g
    BY <1>1, <1>3, <2>1, <2>2, <2>3, <2>4, NamedPersists
    DEF NamedBeforeAnnounced, Outstanding, TypeOK
  <2>5. CASE owner[q] = g
    <3>1. q = r
      BY <1>1, <1>2, <2>2, <2>3, <2>5 DEF OneReadEach, Outstanding
    <3>2. pc'[g] = "announcing"
      BY <2>1, <2>2, <2>5
    <3>3. CASE WarnTimeout(r)
      <4>1. finding("timedout", path[r]) \in findings'[g]
        BY <1>1, <3>3 DEF WarnTimeout, TypeOK
      <4>2. QED
        BY <1>2, <3>1, <4>1 DEF finding, Named, IncompleteKinds
    <3>4. CASE ~WarnTimeout(r)
      BY <1>1, <3>2, <3>4
      DEF Reader, TakeResult, TakeTimer, TakeEdgeResult, BookTimeout, finishFileResult,
          AnnounceAbandonment, recordTimeout, Return, TypeOK
    <3>5. QED
      BY <3>3, <3>4
  <2>6. QED
    BY <2>4, <2>5
<1>11. FailuresAreBare'
  BY <1>1, <1>2 DEF FailuresAreBare
<1>12. ReadIsAccounted'
  <2>1. SUFFICES ASSUME NEW q \in Reads, cancelled'[q] PROVE Accounted(q)'
    BY AccountedMeans
  <2>2. CASE cancelled[q]
    BY <1>1, <2>2, AccountedMeans, AccountedPersists DEF DeliversLast
  <2>3. CASE ~cancelled[q]
    BY <1>1, <1>2, <1>5, <2>1, <2>3, ReturnsAccounted DEF Outstanding
  <2>4. QED
    BY <2>2, <2>3
<1>13. QED
  BY <1>7, <1>8, <1>9, <1>10, <1>11, <1>12

LEMMA MainKeepsReadInv ==
    ASSUME ReadInv, StartRead \/ FinishScan, Persists
    PROVE  /\ DeliversLast' /\ FreshUntilLoaded' /\ NestsOnce'
           /\ NamedBeforeAnnounced' /\ FailuresAreBare' /\ ReadIsAccounted'
<1>1. /\ TypeOK /\ OneReadEach /\ DeliversLast /\ FreshUntilLoaded /\ NestsOnce
      /\ NamedBeforeAnnounced /\ FailuresAreBare /\ ReadIsAccounted
      /\ Main \notin Reads /\ ReportInv /\ Main \in Goroutines
  BY DEF ReadInv, ReportInv, BudgetInv, Goroutines
<1>2. UNCHANGED <<done, cancelled>>
  BY DEF StartRead, SkipRead, BeginRead, StartWorker, FinishScan, readVars
<1>3. FailuresAreBare' /\ ReadIsAccounted'
  BY <1>1, <1>2, AccountedMeans, AccountedPersists DEF FailuresAreBare, DeliversLast
<1>4. ASSUME NEW g \in Goroutines, NEW p \in Files, SkipRead(g, p)
      PROVE  DeliversLast' /\ FreshUntilLoaded' /\ NestsOnce' /\ NamedBeforeAnnounced'
  <2>1. /\ pc[g] = "run" /\ UNCHANGED <<pc, owner, path, optional, done, cancelled, findings>>
        /\ \A h \in Goroutines : h # g => Untouched(h)
    BY <1>1, <1>4 DEF SkipRead, MayRead, Mark, MarkOn, readVars, Untouched, TypeOK
  <2>2. FreshUntilLoaded'
    BY <1>1, <2>1 DEF FreshUntilLoaded, Untouched, WorkerPC, Goroutines
  <2>3. QED
    BY <1>1, <2>1, <2>2
    DEF DeliversLast, NestsOnce, NamedBeforeAnnounced, Outstanding, Named
<1>5. ASSUME NEW g \in Goroutines, NEW p \in Files, NEW r \in Reads,
             NEW opt \in BOOLEAN, BeginRead(g, r, p, opt)
      PROVE  DeliversLast' /\ FreshUntilLoaded' /\ NestsOnce' /\ NamedBeforeAnnounced'
  <2>1. /\ pc[g] = "run" /\ pc[r] = "unused" /\ g # r
        /\ g # Main => g \in Reads /\ owner[g] = Main
        /\ opt => g = Main
        /\ pc' = [pc EXCEPT ![g] = "wait", ![r] = "stat"]
        /\ owner' = [owner EXCEPT ![r] = g]
        /\ path' = [path EXCEPT ![r] = p]
        /\ optional' = [optional EXCEPT ![r] = opt]
        /\ UNCHANGED <<done, findings, unreadable, skipped, cancelled>>
        /\ \A h \in Goroutines : h # g => Untouched(h)
    BY <1>1, <1>5 DEF BeginRead, StartWorker, MayRead, Mark, MarkOn, budgetVars,
                      Untouched, TypeOK
  <2>2. DeliversLast'
    BY <1>1, <2>1 DEF DeliversLast, TypeOK, Goroutines
  <2>3. FreshUntilLoaded'
    <3>1. SUFFICES ASSUME NEW q \in Reads, pc'[q] \in WorkerPC \cup {"unused"}
                   PROVE  /\ \A s \in Reads : owner'[s] # q
                          /\ findings'[q] = {}
                          /\ unreadable'[q] = 0
                          /\ skipped'[q] = 0
                          /\ scriptChecked'[q] = {}
      BY DEF FreshUntilLoaded
    <3>2. q # g /\ q \in Goroutines /\ pc[q] \in WorkerPC \cup {"unused"}
      BY <1>1, <2>1, <3>1 DEF TypeOK, Goroutines, WorkerPC
    <3>3. /\ \A s \in Reads : owner[s] # q
          /\ findings[q] = {} /\ unreadable[q] = 0 /\ skipped[q] = 0 /\ scriptChecked[q] = {}
      BY <1>1, <3>2 DEF FreshUntilLoaded
    <3>4. \A s \in Reads : owner'[s] # q
      BY <1>1, <2>1, <3>2, <3>3 DEF TypeOK
    <3>5. QED
      BY <2>1, <3>2, <3>3, <3>4 DEF Untouched
  <2>4. NestsOnce'
    <3>1. \A s \in Reads : owner[s] # r
      BY <1>1, <2>1 DEF FreshUntilLoaded
    <3>2. SUFFICES ASSUME NEW s \in Reads, owner'[s] # Main
                   PROVE  owner'[s] \in Reads /\ owner'[owner'[s]] = Main /\ ~optional'[s]
      BY DEF NestsOnce
    <3>3. CASE s = r
      BY <1>1, <2>1, <3>2, <3>3 DEF TypeOK
    <3>4. CASE s # r
      BY <1>1, <2>1, <3>1, <3>2, <3>4 DEF TypeOK, NestsOnce
    <3>5. QED
      BY <3>3, <3>4
  <2>5. NamedBeforeAnnounced'
    <3>1. SUFFICES ASSUME NEW q \in Reads, Outstanding(q)', pc'[owner'[q]] = "announcing"
                   PROVE  Named(owner[q], path[q])'
      BY DEF NamedBeforeAnnounced
    <3>2. q # r
      BY <1>1, <2>1, <3>1 DEF TypeOK
    <3>3. /\ owner'[q] = owner[q] /\ pc[owner[q]] = "announcing"
          /\ Outstanding(q) /\ pc[q] # "unused"
      BY <1>1, <2>1, <3>1, <3>2 DEF TypeOK, Outstanding, Goroutines
    <3>4. QED
      BY <1>1, <3>3, NamedPersists DEF NamedBeforeAnnounced
  <2>6. QED
    BY <2>2, <2>3, <2>4, <2>5
<1>6. CASE FinishScan
  <2>1. /\ pc[Main] = "run" /\ pc' = [pc EXCEPT ![Main] = "finished"]
        /\ UNCHANGED <<owner, path, optional, done, cancelled, unreadable, skipped, scriptChecked>>
        /\ \A h \in Goroutines : h # Main => findings'[h] = findings[h]
    BY <1>1, <1>6 DEF FinishScan, readVars, budgetVars, TypeOK
  <2>2. \A q \in Reads : pc'[q] = pc[q] /\ q \in Goroutines /\ q # Main
    BY <1>1, <2>1 DEF TypeOK, Goroutines
  <2>3. DeliversLast' /\ FreshUntilLoaded' /\ NestsOnce'
    BY <1>1, <2>1, <2>2 DEF DeliversLast, FreshUntilLoaded, NestsOnce
  <2>4. NamedBeforeAnnounced'
    <3>1. SUFFICES ASSUME NEW q \in Reads, Outstanding(q)', pc'[owner'[q]] = "announcing"
                   PROVE  Named(owner[q], path[q])'
      BY DEF NamedBeforeAnnounced
    <3>2. pc[owner[q]] = "announcing" /\ Outstanding(q) /\ pc[q] # "unused"
      BY <1>1, <2>1, <2>2, <3>1 DEF TypeOK, Outstanding
    <3>3. QED
      BY <1>1, <3>2, NamedPersists DEF NamedBeforeAnnounced
  <2>5. QED
    BY <1>3, <2>3, <2>4
<1>7. QED
  BY <1>3, <1>4, <1>5, <1>6 DEF StartRead

LEMMA InitReadInv == Init => ReadInv
<1> SUFFICES ASSUME Init PROVE ReadInv
  OBVIOUS
<1>1. /\ DeliversLast /\ FreshUntilLoaded /\ NestsOnce /\ NamedBeforeAnnounced
      /\ FailuresAreBare /\ ReadIsAccounted
  BY DEF Init, DeliversLast, FreshUntilLoaded, NestsOnce, NamedBeforeAnnounced,
         FailuresAreBare, ReadIsAccounted, Goroutines, WorkerPC, Outstanding
<1>2. QED
  BY <1>1, InitReportInv DEF ReadInv

LEMMA NextReadInv == ReadInv /\ [Next]_vars => ReadInv'
<1> SUFFICES ASSUME ReadInv, [Next]_vars PROVE ReadInv'
  OBVIOUS
<1>1. ReportInv'
  BY NextReportInv DEF ReadInv
<1>2. CASE UNCHANGED vars
  <2>1. /\ DeliversLast' /\ FreshUntilLoaded' /\ NestsOnce' /\ NamedBeforeAnnounced'
        /\ FailuresAreBare' /\ ReadIsAccounted'
    BY <1>2 DEF ReadInv, DeliversLast, FreshUntilLoaded, NestsOnce, NamedBeforeAnnounced,
       FailuresAreBare, ReadIsAccounted, Named, Outstanding, optionalFileMissing, vars,
       readVars, budgetVars
  <2>2. QED
    BY <1>1, <2>1 DEF ReadInv
<1>3. CASE Next
  <2>1. Persists
    BY <1>3, StepPersists DEF ReadInv
  <2>2. QED
    BY <1>1, <1>3, <2>1, ReaderKeepsReadInv, WorkerKeepsReadInv, MainKeepsReadInv
    DEF ReadInv, Next
<1>4. QED
  BY <1>2, <1>3

\* Whatever order results, timers and late answers come in, however deep the
\* reads nest and however many there are: a read that returned is named as a
\* gap, or was answered and all it found reached the scanner that asked.
THEOREM ReadsAreAlwaysAccounted == Spec => []ReadIsAccounted
<1>1. ReadInv => ReadIsAccounted
  BY DEF ReadInv
<1>2. QED
  BY <1>1, InitReadInv, NextReadInv, PTL DEF Spec

-----------------------------------------------------------------------------
(* A scan that left a file unread never looks clean.                       *)

\* A file becomes unread by being asked for, and in no other way.
LEMMA UnreadIsOld ==
    ASSUME ReadInv, Next, NEW r \in Reads, Unread(r)', pc[r] # "unused"
    PROVE  Unread(r)
<1>1. TypeOK /\ DeliversLast /\ ReportInv /\ r \in Goroutines /\ Reads \subseteq Goroutines
  BY DEF ReadInv, ReportInv, BudgetInv, Goroutines
<1>2. Persists
  BY <1>1, StepPersists
<1>3. ASSUME pc'[r] = pc[r], done'[r] = done[r] PROVE Unread(r)
  BY <1>2, <1>3 DEF Persists, Unread
<1>4. ASSUME NEW q \in Reads, Reader(q) PROVE Unread(r)
  <2>1. done' = done /\ owner[q] \in Goroutines
    BY <1>1, <1>4, ReaderTouches DEF TypeOK
  <2>2. PICK to \in ReaderPC \cup {"run"} : pc' = [pc EXCEPT ![owner[q]] = to]
    BY <1>4, ReaderMoves
  <2>3. pc'[r] \in WorkerPC => pc[r] \in WorkerPC
    BY <1>1, <2>1, <2>2 DEF TypeOK, WorkerPC, ReaderPC
  <2>4. QED
    BY <1>2, <2>1, <2>3 DEF Persists, Unread
<1>5. ASSUME NEW q \in Reads, Worker(q) \/ TimerFires(q) PROVE Unread(r)
  <2>1. CASE q # r
    <3>1. pc'[r] = pc[r] /\ done'[r] = done[r]
      BY <1>1, <1>5, <2>1, WorkerMoves, WorkerResults DEF WorkerMove, TypeOK
    <3>2. QED
      BY <1>3, <3>1
  <2>2. CASE q = r
    <3>1. CASE pc[r] \in WorkerPC
      BY <3>1 DEF Unread
    <3>2. CASE pc[r] \notin WorkerPC
      <4>1. CASE ReturnResult(r)
        <5>1. pc'[r] = "finished" /\ done'[r].err = "none"
          BY <1>1, <4>1 DEF ReturnResult, Deliver, TypeOK
        <5>2. QED
          BY <5>1 DEF Unread, WorkerPC
      <4>2. CASE ~ReturnResult(r)
        <5>1. pc' = pc /\ done' = done
          BY <1>5, <2>2, <3>2, <4>2
          DEF Worker, StatFile, OpenFile, ReadFile, LoadFile, InspectFile, CountDataless,
              WarnDataless, Detect, TimerFires, FireTimer, readVars, WorkerPC
        <5>2. QED
          BY <1>3, <5>1
      <4>3. QED
        BY <4>1, <4>2
    <3>3. QED
      BY <3>1, <3>2
  <2>3. QED
    BY <2>1, <2>2
<1>6. ASSUME NEW g \in Goroutines, NEW p \in Files, SkipRead(g, p) PROVE Unread(r)
  BY <1>3, <1>6 DEF SkipRead, readVars
<1>7. ASSUME NEW g \in Goroutines, NEW p \in Files, NEW q \in Reads,
             NEW opt \in BOOLEAN, BeginRead(g, q, p, opt)
      PROVE  Unread(r)
  <2>1. /\ pc' = [pc EXCEPT ![g] = "wait", ![q] = "stat"] /\ done' = done
        /\ q # r /\ pc[g] = "run"
    BY <1>7 DEF BeginRead, StartWorker, MayRead
  <2>2. pc'[r] \in WorkerPC => pc[r] \in WorkerPC
    BY <1>1, <2>1 DEF TypeOK, WorkerPC
  <2>3. QED
    BY <1>2, <2>1, <2>2 DEF Persists, Unread
<1>8. CASE FinishScan
  BY <1>1, <1>3, <1>8 DEF FinishScan, readVars, TypeOK, Goroutines
<1>9. QED
  BY <1>4, <1>5, <1>6, <1>7, <1>8 DEF Next, StartRead

\* A worker that has delivered asks for nothing any more, nor does one that has
\* not run its checks yet.
LEMMA AsksWhileRunning ==
    ASSUME TypeOK, Next, NEW q \in Reads, pc[q] # "run"
    PROVE  /\ skipped'[q] = skipped[q]
           /\ \A r \in Reads : owner'[r] = q => owner[r] = q
<1>1. q \in Goroutines
  BY DEF Goroutines
<1>2. ASSUME NEW r \in Reads, Reader(r) \/ Worker(r) \/ TimerFires(r)
      PROVE  skipped' = skipped /\ owner' = owner
  BY <1>2, ReaderTouches, WorkerMoves DEF WorkerMove
<1>3. ASSUME NEW g \in Goroutines, NEW p \in Files, SkipRead(g, p)
      PROVE  skipped'[q] = skipped[q] /\ owner' = owner
  BY <1>1, <1>3 DEF SkipRead, MayRead, readVars, TypeOK
<1>4. ASSUME NEW g \in Goroutines, NEW p \in Files, NEW r \in Reads,
             NEW opt \in BOOLEAN, BeginRead(g, r, p, opt)
      PROVE  skipped' = skipped /\ \A s \in Reads : owner'[s] = q => owner[s] = q
  BY <1>1, <1>4 DEF BeginRead, StartWorker, MayRead, budgetVars, TypeOK
<1>5. CASE FinishScan
  BY <1>5 DEF FinishScan, readVars, budgetVars
<1>6. QED
  BY <1>2, <1>3, <1>4, <1>5 DEF Next, StartRead

LEMMA AbandonedPersists ==
    ASSUME TypeOK, Next, NEW g \in Goroutines, abandoned[g]
    PROVE  abandoned'[g]
<1>1. ASSUME NEW r \in Reads, BookTimeout(r)
      PROVE  abandoned'[g]
  <2>1. PICK x \in BOOLEAN :
            abandoned' = [abandoned EXCEPT ![owner[r]] = abandoned[owner[r]] \/ x]
    BY <1>1, Zenon DEF BookTimeout, recordTimeout
  <2>2. owner[r] \in Goroutines /\ abandoned \in [Goroutines -> BOOLEAN]
    BY DEF TypeOK
  <2>3. QED
    BY <2>1, <2>2
<1>2. CASE \A r \in Reads : ~BookTimeout(r)
  BY <1>2, WorkerMoves
  DEF Next, StartRead, SkipRead, BeginRead, StartWorker, FinishScan, Reader,
      TakeResult, TakeTimer, TakeEdgeResult, WarnTimeout, AnnounceAbandonment,
      finishFileResult, budgetVars, WorkerMove
<1>3. QED
  BY <1>1, <1>2

LEMMA NextSkips ==
    ASSUME TypeOK, FreshUntilLoaded, Persists, SkipsOnceAbandoned, Next
    PROVE  SkipsOnceAbandoned'
<1>1. \A g \in Goroutines : abandoned[g] => abandoned'[g]
  BY AbandonedPersists
<1>2. ASSUME NEW g \in Goroutines, NEW p \in Files, SkipRead(g, p)
      PROVE  SkipsOnceAbandoned'
  <2>1. /\ skipped' = [skipped EXCEPT ![g] = @ + 1] /\ abandoned[g]
        /\ g \in {Main} \cup {q \in Reads : owner[q] = Main}
        /\ UNCHANGED <<abandoned, owner>>
    BY <1>2 DEF SkipRead, MayRead, readVars
  <2>2. QED
    BY <2>1 DEF SkipsOnceAbandoned, TypeOK
<1>3. CASE skipped' = skipped
  <2>1. \A q \in Reads : skipped[q] > 0 => owner'[q] = owner[q]
    BY DEF FreshUntilLoaded, Persists, TypeOK, Goroutines
  <2>2. QED
    BY <1>1, <1>3, <2>1 DEF SkipsOnceAbandoned
<1>4. QED
  BY <1>2, <1>3, ReaderTouches, WorkerMoves
  DEF Next, StartRead, BeginRead, StartWorker, FinishScan, budgetVars, WorkerMove

\* What a private scanner left unread shows in its findings when its checks end.
LEMMA UnreadShowsOnScanner ==
    ASSUME CleanInv, NEW q \in Reads, pc[q] = "run",
           skipped[q] > 0 \/ \E r \in Reads : owner[r] = q /\ Unread(r)
    PROVE  hasIncomplete(findings[q])
<1>1. /\ TypeOK /\ OneReadEach /\ TripIsFollowedUp /\ DeliversLast /\ NestsOnce
      /\ ReadIsAccounted /\ SkipsOnceAbandoned /\ q \in Goroutines /\ q # Main
  BY DEF CleanInv, ReadInv, ReportInv, BudgetInv, Goroutines
<1>2. CASE skipped[q] > 0
  <2>1. PICK f \in findings[q] : f.kind = "abandoned"
    BY <1>1, <1>2, TripImpliesReported DEF SkipsOnceAbandoned
  <2>2. QED
    BY <2>1 DEF hasIncomplete, IncompleteKinds
<1>3. ASSUME NEW r \in Reads, owner[r] = q, Unread(r)
      PROVE  hasIncomplete(findings[q])
  <2>1. pc[r] # "unused"
    BY <1>1, <1>3 DEF Unread, DeliversLast, WorkerPC
  <2>2. cancelled[r]
    BY <1>1, <1>3, <2>1 DEF OneReadEach, Outstanding, ReaderPC
  <2>3. ~optional[r]
    BY <1>1, <1>3 DEF NestsOnce
  <2>4. ~Answered(r)
    BY <1>1, <1>3, <2>3 DEF Answered, optionalFileMissing, Unread, DeliversLast, WorkerPC
  <2>5. Named(owner[r], path[r])
    BY <1>1, <2>2, <2>4, AccountedMeans DEF Accounted
  <2>6. QED
    BY <1>3, <2>5 DEF Named, hasIncomplete
<1>4. QED
  BY <1>2, <1>3

LEMMA NextUnreadShows ==
    ASSUME CleanInv, Next
    PROVE  UnreadShowsInResult'
<1>1. /\ TypeOK /\ DeliversLast /\ FreshUntilLoaded /\ UnreadShowsInResult
      /\ ReadInv /\ ReportInv /\ Reads \subseteq Goroutines
  BY DEF CleanInv, ReadInv, ReportInv, BudgetInv, Goroutines
<1>2. Persists
  BY <1>1, StepPersists
<1>3. SUFFICES ASSUME NEW q \in Reads, done'[q] # NoResult,
                      skipped'[q] > 0 \/ \E r \in Reads : owner'[r] = q /\ Unread(r)'
               PROVE  done'[q].err = "none" /\ hasIncomplete(done'[q].findings)
  BY DEF UnreadShowsInResult
<1>4. ASSUME NEW r \in Reads, owner'[r] = q, Unread(r)', pc[q] # "run"
      PROVE  owner[r] = q /\ Unread(r)
  <2>1. owner[r] = q
    BY <1>1, <1>4, AsksWhileRunning
  <2>2. CASE pc[r] # "unused"
    BY <1>1, <1>4, <2>1, <2>2, UnreadIsOld
  <2>3. CASE pc[r] = "unused"
    <3>1. done[r] = NoResult
      BY <1>1, <2>3 DEF DeliversLast
    <3>2. ASSUME NEW s \in Reads, Reader(s) \/ Worker(s) \/ TimerFires(s)
          PROVE  pc'[r] = pc[r] /\ done'[r] = done[r]
      <4>1. CASE Reader(s)
        <5>1. pc[owner[s]] \in ReaderPC /\ done' = done
          BY <1>1, <4>1, ReaderFindings
        <5>2. QED
          BY <1>1, <2>3, <4>1, <5>1, ReaderMoves DEF TypeOK, ReaderPC
      <4>2. CASE Worker(s) \/ TimerFires(s)
        BY <1>1, <2>3, <4>2, WorkerMoves, WorkerResults DEF WorkerMove, TypeOK, WorkerPC
      <4>3. QED
        BY <3>2, <4>1, <4>2
    <3>3. ASSUME NEW g \in Goroutines, NEW p \in Files, NEW s \in Reads,
                 NEW opt \in BOOLEAN, BeginRead(g, s, p, opt)
          PROVE  pc'[r] = pc[r] /\ done'[r] = done[r]
      <4>1. /\ pc' = [pc EXCEPT ![g] = "wait", ![s] = "stat"]
            /\ pc[g] = "run" /\ owner' = [owner EXCEPT ![s] = g] /\ done' = done
        BY <3>3 DEF BeginRead, StartWorker, MayRead
      <4>2. r # s /\ r # g
        BY <1>1, <1>4, <2>3, <4>1 DEF TypeOK
      <4>3. QED
        BY <1>1, <4>1, <4>2 DEF TypeOK
    <3>4. ASSUME NEW g \in Goroutines, NEW p \in Files, SkipRead(g, p)
          PROVE  pc'[r] = pc[r] /\ done'[r] = done[r]
      BY <3>4 DEF SkipRead, readVars
    <3>5. ASSUME FinishScan
          PROVE  pc'[r] = pc[r] /\ done'[r] = done[r]
      BY <1>1, <3>5 DEF FinishScan, readVars, TypeOK
    <3>6. pc'[r] = pc[r] /\ done'[r] = done[r]
      BY <3>2, <3>3, <3>4, <3>5 DEF Next, StartRead
    <3>7. QED
      BY <1>4, <2>3, <3>1, <3>6 DEF Unread, WorkerPC
  <2>4. QED
    BY <2>2, <2>3
<1>5. CASE done[q] # NoResult
  <2>1. pc[q] = "finished" /\ done'[q] = done[q]
    BY <1>1, <1>2, <1>5 DEF DeliversLast, Persists
  <2>2. skipped[q] > 0 \/ \E r \in Reads : owner[r] = q /\ Unread(r)
    BY <1>1, <1>3, <1>4, <2>1, AsksWhileRunning
  <2>3. QED
    BY <1>1, <1>5, <2>1, <2>2 DEF UnreadShowsInResult
<1>6. CASE done[q] = NoResult
  <2>1. Worker(q) \/ TimerFires(q)
    BY <1>1, <1>3, <1>6, ReaderTouches, WorkerResults
    DEF Next, StartRead, SkipRead, BeginRead, StartWorker, FinishScan, readVars
  <2>2. CASE pc[q] \in WorkerPC
    <3>1. skipped[q] = 0 /\ \A r \in Reads : owner[r] # q
      BY <1>1, <2>2 DEF FreshUntilLoaded
    <3>2. QED
      BY <1>1, <1>3, <2>2, <3>1, AsksWhileRunning DEF WorkerPC
  <2>3. CASE pc[q] \notin WorkerPC
    <3>1. ReturnResult(q)
      BY <1>3, <1>6, <2>1, <2>3
      DEF Worker, StatFile, OpenFile, ReadFile, LoadFile, InspectFile, CountDataless,
          WarnDataless, Detect, TimerFires, FireTimer, readVars, WorkerPC
    <3>2. /\ pc[q] = "run" /\ UNCHANGED <<owner, skipped>>
          /\ done'[q].err = "none" /\ done'[q].findings = findings[q]
      BY <1>1, <3>1 DEF ReturnResult, Deliver, budgetVars, TypeOK
    <3>3. skipped[q] > 0 \/ \E r \in Reads : owner[r] = q /\ Unread(r)
      <4>1. ASSUME NEW r \in Reads, owner'[r] = q, Unread(r)'
            PROVE  owner[r] = q /\ Unread(r)
        <5>1. pc[r] # "unused"
          <6>1. r # q => pc'[r] = pc[r] /\ done'[r] = done[r]
            BY <1>1, <3>1 DEF ReturnResult, Deliver, TypeOK
          <6>2. QED
            BY <1>1, <3>2, <4>1, <6>1 DEF Unread, DeliversLast, WorkerPC
        <5>2. QED
          BY <1>1, <3>2, <4>1, <5>1, UnreadIsOld
      <4>2. QED
        BY <1>3, <3>2, <4>1
    <3>4. hasIncomplete(findings[q])
      BY <3>2, <3>3, UnreadShowsOnScanner
    <3>5. QED
      BY <3>2, <3>4
  <2>4. QED
    BY <2>2, <2>3
<1>7. QED
  BY <1>5, <1>6

LEMMA InitCleanInv == Init => CleanInv
<1> SUFFICES ASSUME Init PROVE CleanInv
  OBVIOUS
<1>1. SkipsOnceAbandoned /\ UnreadShowsInResult
  BY DEF Init, SkipsOnceAbandoned, UnreadShowsInResult
<1>2. QED
  BY <1>1, InitReadInv DEF CleanInv

LEMMA NextCleanInv == CleanInv /\ [Next]_vars => CleanInv'
<1> SUFFICES ASSUME CleanInv, [Next]_vars PROVE CleanInv'
  OBVIOUS
<1>1. ReadInv' /\ TypeOK
  BY NextReadInv DEF CleanInv, ReadInv, ReportInv, BudgetInv
<1>2. CASE UNCHANGED vars
  BY <1>1, <1>2 DEF CleanInv, SkipsOnceAbandoned, UnreadShowsInResult, Unread, vars,
     readVars, budgetVars
<1>3. CASE Next
  <2>1. Persists
    BY <1>3, StepPersists DEF CleanInv, ReadInv
  <2>2. QED
    BY <1>1, <1>3, <2>1, NextSkips, NextUnreadShows DEF CleanInv, ReadInv
<1>4. QED
  BY <1>2, <1>3

LEMMA CleanImpliesNeverLooksClean ==
    ASSUME CleanInv
    PROVE  NeverLooksClean
<1>1. /\ TypeOK /\ OneReadEach /\ TripIsFollowedUp /\ DeliversLast /\ NestsOnce
      /\ FreshUntilLoaded /\ ReadIsAccounted /\ SkipsOnceAbandoned /\ UnreadShowsInResult
      /\ Main \in Goroutines /\ Main \notin Reads
  BY DEF CleanInv, ReadInv, ReportInv, BudgetInv, Goroutines
<1>2. SUFFICES ASSUME pc[Main] = "finished",
                      \/ \E r \in Reads : Unread(r)
                      \/ \E g \in Goroutines : skipped[g] > 0
               PROVE  hasIncomplete(findings[Main])
  BY DEF NeverLooksClean
<1>3. ASSUME NEW r \in Reads, owner[r] = Main, pc[r] # "unused"
      PROVE  cancelled[r] /\ Accounted(r)
  BY <1>1, <1>2, <1>3, AccountedMeans DEF OneReadEach, Outstanding, ReaderPC
<1>4. ASSUME NEW r \in Reads, owner[r] = Main, pc[r] # "unused", done[r] = NoResult
      PROVE  hasIncomplete(findings[Main])
  BY <1>3, <1>4 DEF Accounted, Answered, Named, hasIncomplete
<1>5. ASSUME NEW q \in Reads, owner[q] = Main, pc[q] # "unused",
             skipped[q] > 0 \/ \E r \in Reads : owner[r] = q /\ Unread(r)
      PROVE  hasIncomplete(findings[Main])
  <2>1. CASE done[q] = NoResult
    BY <1>4, <1>5, <2>1
  <2>2. CASE done[q] # NoResult
    <3>1. done[q].err = "none" /\ hasIncomplete(done[q].findings)
      BY <1>1, <1>5, <2>2 DEF UnreadShowsInResult
    <3>2. Accounted(q)
      BY <1>3, <1>5
    <3>3. QED
      BY <1>5, <3>1, <3>2
      DEF Accounted, Answered, Named, hasIncomplete, optionalFileMissing
  <2>3. QED
    BY <2>1, <2>2
<1>6. ASSUME NEW r \in Reads, Unread(r)
      PROVE  hasIncomplete(findings[Main])
  <2>1. pc[r] # "unused"
    BY <1>1, <1>6 DEF Unread, DeliversLast, WorkerPC
  <2>2. CASE owner[r] = Main
    <3>1. CASE done[r] = NoResult
      BY <1>4, <2>1, <2>2, <3>1
    <3>2. CASE done[r] # NoResult
      <4>1. ~Answered(r)
        BY <1>1, <1>6, <3>2
        DEF Answered, optionalFileMissing, Unread, DeliversLast, WorkerPC
      <4>2. QED
        BY <1>3, <2>1, <2>2, <4>1 DEF Accounted, Named, hasIncomplete
    <3>3. QED
      BY <3>1, <3>2
  <2>3. CASE owner[r] # Main
    <3>1. owner[r] \in Reads /\ owner[owner[r]] = Main
      BY <1>1, <2>3 DEF NestsOnce
    <3>2. pc[owner[r]] # "unused"
      BY <1>1, <3>1 DEF FreshUntilLoaded
    <3>3. QED
      BY <1>5, <1>6, <3>1, <3>2
  <2>4. QED
    BY <2>2, <2>3
<1>7. ASSUME NEW g \in Goroutines, skipped[g] > 0
      PROVE  hasIncomplete(findings[Main])
  <2>1. CASE g = Main
    <3>1. PICK f \in findings[Main] : f.kind = "abandoned"
      BY <1>1, <1>2, <1>7, <2>1, TripImpliesReported DEF SkipsOnceAbandoned
    <3>2. QED
      BY <3>1 DEF hasIncomplete, IncompleteKinds
  <2>2. CASE g \in Reads
    <3>1. pc[g] # "unused" /\ owner[g] = Main
      BY <1>1, <1>7, <2>2 DEF FreshUntilLoaded, SkipsOnceAbandoned
    <3>2. QED
      BY <1>5, <1>7, <2>2, <3>1
  <2>3. QED
    BY <2>1, <2>2 DEF Goroutines
<1>8. QED
  BY <1>2, <1>6, <1>7

\* A finished scan that selected a file it did not read, at any depth and in
\* any goroutine it left behind, reports a coverage gap.
THEOREM UnreadIsNeverClean == Spec => []NeverLooksClean
BY CleanImpliesNeverLooksClean, InitCleanInv, NextCleanInv, PTL DEF Spec

-----------------------------------------------------------------------------
(* The count of unreadable files and the coverage findings agree.          *)

LEMMA GapIsIncomplete ==
    ASSUME NEW fs, NEW kind \in IncompleteKinds, NEW p, finding(kind, p) \in fs
    PROVE  hasIncomplete(fs)
BY DEF hasIncomplete, finding

LEMMA FinalizeIncomplete ==
    ASSUME NEW fs \in SUBSET Finding, NEW n \in Nat, hasIncomplete(finalizeStalls(fs, n))
    PROVE  hasIncomplete(fs)
<1>1. PICK e \in finalizeStalls(fs, n) : e.kind \in IncompleteKinds
  BY DEF hasIncomplete
<1>2. PICK f \in fs : e = f \/ (f.kind = "abandoned" /\ e = [f EXCEPT !.unread = n])
  BY <1>1 DEF finalizeStalls
<1>3. e.kind = f.kind
  BY <1>2 DEF Finding
<1>4. QED
  BY <1>1, <1>3 DEF hasIncomplete

\* What taking the result of r does to the scanner that asked for it.
LEMMA TakingCounts ==
    ASSUME TypeOK, DeliversLast, CountedIsNamed, NEW r \in Reads, Outstanding(r),
           pc[owner[r]] \in {"wait", "expired"}, finishFileResult(r), Persists
    PROVE  /\ unreadable[owner[r]] > 0 => unreadable'[owner[r]] > 0
           /\ unreadable'[owner[r]] > 0 => hasIncomplete(findings'[owner[r]])
           /\ hasIncomplete(findings'[owner[r]]) =>
                  hasIncomplete(findings[owner[r]]) \/ unreadable'[owner[r]] > 0
<1> DEFINE g == owner[r]
<1>1. /\ g \in Goroutines /\ unreadable[g] \in Nat /\ done[r] # NoResult
      /\ done[r] \in Result /\ pc[r] # "dataless"
      /\ Kept(findings[g], findings'[g])
  BY DEF TypeOK, finishFileResult, DeliversLast, Persists
<1>2. unreadable[g] > 0 => hasIncomplete(findings[g])
  BY <1>1 DEF CountedIsNamed
<1>3. unreadable[g] > 0 => hasIncomplete(findings'[g])
  BY <1>1, <1>2, KeptIncomplete
<1>4. CASE CountFailure(r) /\ optionalFileMissing(r)
  BY <1>1, <1>3, <1>4 DEF CountFailure
<1>5. CASE CountFailure(r) /\ ~optionalFileMissing(r)
  <2>1. /\ unreadable'[g] = unreadable[g] + 1
        /\ finding("failed", path[r]) \in findings'[g]
    BY <1>1, <1>5 DEF CountFailure, TypeOK
  <2>2. hasIncomplete(findings'[g])
    BY <2>1, GapIsIncomplete DEF IncompleteKinds
  <2>3. QED
    BY <1>1, <2>1, <2>2
<1>6. CASE mergeFileResult(r)
  <2> DEFINE n == IF hasIncomplete(done[r].findings) /\ done[r].unreadable = 0
                  THEN 1 ELSE done[r].unreadable
  <2>1. /\ unreadable'[g] = unreadable[g] + n
        /\ findings'[g] = findings[g] \cup done[r].findings
    BY <1>1, <1>6 DEF mergeFileResult, Merge, TypeOK
  <2>2. n \in Nat /\ done[r].unreadable \in Nat
    BY <1>1 DEF Result
  <2>3. n > 0 <=> hasIncomplete(done[r].findings)
    BY <1>1, <2>2 DEF CountedIsNamed
  <2>4. hasIncomplete(findings'[g]) <=>
            hasIncomplete(findings[g]) \/ hasIncomplete(done[r].findings)
    BY <2>1 DEF hasIncomplete
  <2> HIDE DEF n
  <2>5. unreadable'[g] > 0 <=> unreadable[g] > 0 \/ n > 0
    BY <1>1, <2>1, <2>2
  <2>6. QED
    BY <1>1, <1>3, <2>1, <2>2, <2>3, <2>4, <2>5
<1>7. QED
  BY <1>4, <1>5, <1>6 DEF finishFileResult

LEMMA ReaderCounts ==
    ASSUME CountInv, NEW r \in Reads, Reader(r), Persists
    PROVE  CountedIsNamed' /\ NamedIsCounted'
<1> DEFINE g == owner[r]
<1>1. /\ TypeOK /\ OneReadEach /\ DeliversLast /\ NamedBeforeAnnounced
      /\ CountedIsNamed /\ NamedIsCounted /\ ReportInv
      /\ g \in Goroutines /\ Main \in Goroutines /\ Reads \subseteq Goroutines
      /\ unreadable[g] \in Nat
  BY DEF CountInv, ReadInv, ReportInv, BudgetInv, TypeOK, Goroutines
<1>2. /\ \A h \in Goroutines : h # g => Untouched(h)
      /\ UNCHANGED <<owner, path, optional, done, skipped>>
      /\ Outstanding(r)
  BY <1>1, ReaderTouches
<1>3. PICK to \in ReaderPC \cup {"run"} : pc' = [pc EXCEPT ![g] = to]
  BY ReaderMoves
<1>4. pc[g] \in ReaderPC /\ pc'[g] = to
  BY <1>1, <1>2, <1>3 DEF OneReadEach, TypeOK
\* What the step does to its own scanner, by the point it leaves it at.
<1>5. /\ unreadable[g] > 0 => unreadable'[g] > 0
      /\ to = "run" /\ unreadable'[g] > 0 => hasIncomplete(findings'[g])
      /\ to \in {"wait", "expired"} =>
             pc[g] = "wait" /\ unreadable'[g] = unreadable[g] /\ findings'[g] = findings[g]
      /\ to \in {"booked", "tripped"} => unreadable'[g] > 0
      /\ hasIncomplete(findings'[g]) => hasIncomplete(findings[g]) \/ unreadable'[g] > 0
  <2>1. CASE TakeResult(r) \/ TakeEdgeResult(r)
    <3>1. finishFileResult(r) /\ pc[g] \in {"wait", "expired"}
      BY <2>1 DEF TakeResult, TakeEdgeResult
    <3>2. to = "run"
      BY <1>1, <1>4, <3>1 DEF finishFileResult, Return, TypeOK
    <3>3. QED
      BY <1>1, <1>2, <3>1, <3>2, TakingCounts
  <2>2. CASE TakeTimer(r)
    BY <1>1, <1>4, <2>2 DEF TakeTimer, TypeOK
  <2>3. CASE BookTimeout(r)
    <3>1. /\ unreadable'[g] = unreadable[g] + 1 /\ findings' = findings
          /\ pc'[g] \in {"booked", "tripped"}
      BY <1>1, <2>3 DEF BookTimeout, recordTimeout, TypeOK
    <3>2. QED
      BY <1>1, <1>4, <3>1
  <2>4. CASE WarnTimeout(r)
    <3>1. /\ unreadable' = unreadable /\ pc[g] \in {"booked", "tripped"}
          /\ finding("timedout", path[r]) \in findings'[g]
          /\ pc'[g] \in {"run", "announcing"}
      BY <1>1, <2>4 DEF WarnTimeout, Return, TypeOK
    <3>2. hasIncomplete(findings'[g]) /\ unreadable[g] > 0
      BY <1>1, <3>1, GapIsIncomplete DEF IncompleteKinds, NamedIsCounted
    <3>3. QED
      BY <1>1, <1>4, <3>1, <3>2
  <2>5. CASE AnnounceAbandonment(r)
    <3>1. /\ unreadable' = unreadable /\ pc[g] = "announcing" /\ pc'[g] = "run"
          /\ Kept(findings[g], findings'[g])
      BY <1>1, <2>5 DEF AnnounceAbandonment, Return, TypeOK, Persists
    <3>2. hasIncomplete(findings[g])
      BY <1>1, <1>2, <3>1 DEF NamedBeforeAnnounced, Named, hasIncomplete
    <3>3. QED
      BY <1>1, <1>4, <3>1, <3>2, KeptIncomplete
  <2>6. QED
    BY <2>1, <2>2, <2>3, <2>4, <2>5 DEF Reader
<1>6. \A h \in Goroutines : h # g => pc'[h] = pc[h]
  BY <1>1, <1>3 DEF TypeOK
<1>7. \A q \in Reads : pc'[q] = "dataless" <=> pc[q] = "dataless"
  BY <1>1, <1>4, <1>6 DEF ReaderPC
<1>8. \A h \in Goroutines : unreadable[h] > 0 => unreadable'[h] > 0
  BY <1>1, <1>2, <1>5 DEF Untouched, TypeOK
<1>9. CountedIsNamed'
  <2>1. ASSUME NEW h \in Goroutines, pc'[h] \in {"run", "finished"}, unreadable'[h] > 0
        PROVE  hasIncomplete(findings'[h])
    BY <1>1, <1>2, <1>4, <1>5, <1>6, <2>1 DEF CountedIsNamed, Untouched, ReaderPC
  <2>2. ASSUME NEW q \in Reads, Outstanding(q)', pc'[owner[q]] \in {"wait", "expired"},
               unreadable'[owner[q]] > 0
        PROVE  hasIncomplete(findings'[owner[q]]) \/ pc'[q] = "dataless"
    <3>1. Outstanding(q) /\ owner[q] \in Goroutines
      BY <1>1, <1>3, <1>4, <2>2
      DEF Outstanding, Reader, TakeResult, TakeTimer, TakeEdgeResult, BookTimeout,
          WarnTimeout, AnnounceAbandonment, finishFileResult, recordTimeout, Return,
          readVars, TypeOK, ReaderPC
    <3>2. pc[owner[q]] \in {"wait", "expired"} /\ unreadable[owner[q]] > 0
          /\ findings'[owner[q]] = findings[owner[q]]
      BY <1>2, <1>4, <1>5, <1>6, <2>2, <3>1 DEF Untouched
    <3>3. QED
      BY <1>1, <1>7, <3>1, <3>2 DEF CountedIsNamed
  <2>3. QED
    BY <1>1, <1>2, <2>1, <2>2 DEF CountedIsNamed
<1>10. NamedIsCounted'
  <2>1. hasIncomplete(findings'[Main]) => unreadable'[Main] > 0
    BY <1>1, <1>2, <1>5, <1>8 DEF NamedIsCounted, Untouched
  <2>2. \A q \in Reads : pc'[q] = "dataless" => unreadable'[owner[q]] > 0
    BY <1>1, <1>7, <1>8 DEF NamedIsCounted, TypeOK
  <2>3. \A h \in Goroutines : pc'[h] \in {"booked", "tripped"} => unreadable'[h] > 0
    BY <1>1, <1>4, <1>5, <1>6, <1>8 DEF NamedIsCounted
  <2>4. QED
    BY <1>2, <2>1, <2>2, <2>3 DEF NamedIsCounted
<1>11. QED
  BY <1>9, <1>10

LEMMA WorkerCounts ==
    ASSUME CountInv, NEW r \in Reads, Worker(r) \/ TimerFires(r), Persists
    PROVE  CountedIsNamed' /\ NamedIsCounted'
<1>1. /\ TypeOK /\ OneReadEach /\ DeliversLast /\ FreshUntilLoaded /\ NestsOnce
      /\ ReadIsAccounted /\ FailuresAreBare
      /\ CountedIsNamed /\ NamedIsCounted /\ ReportInv
      /\ Main \in Goroutines /\ Reads \subseteq Goroutines
      /\ owner[r] \in Goroutines
  BY DEF CountInv, ReadInv, ReportInv, BudgetInv, TypeOK, Goroutines
<1>2. /\ WorkerMove(r) /\ UNCHANGED <<owner, path, optional, cancelled>>
      /\ \A q \in Reads : q # r => done'[q] = done[q]
  BY <1>1, WorkerMoves, WorkerResults
<1>3. \A h \in Goroutines : h # r => pc'[h] = pc[h]
  BY <1>1, <1>2 DEF WorkerMove, TypeOK
<1>4. pc[r] \in ReaderPC \cup {"unused", "finished"} => pc'[r] = pc[r]
  BY <1>1, <1>2 DEF WorkerMove, TypeOK, WorkerPC, ReaderPC
<1>5. pc'[r] \in WorkerPC \cup {"run", "finished"} \/ pc'[r] = pc[r]
  BY <1>1, <1>2 DEF WorkerMove, TypeOK
\* Whatever its worker does, a reader that is back in its checks has named r.
<1>6. owner[r] # r /\ (pc[r] \in WorkerPC /\ pc[owner[r]] \notin ReaderPC =>
          hasIncomplete(findings[owner[r]]))
  <2>1. owner[r] # r
    BY <1>1 DEF NestsOnce
  <2>2. ASSUME pc[r] \in WorkerPC, pc[owner[r]] \notin ReaderPC
        PROVE  hasIncomplete(findings[owner[r]])
    <3>1. cancelled[r] /\ done[r] = NoResult
      BY <1>1, <2>2 DEF OneReadEach, Outstanding, WorkerPC, DeliversLast
    <3>2. Named(owner[r], path[r])
      BY <1>1, <3>1, AccountedMeans DEF Accounted, Answered
    <3>3. QED
      BY <3>2 DEF Named, hasIncomplete
  <2>3. QED
    BY <2>1, <2>2
<1>7. \A h \in Goroutines : hasIncomplete(findings[h]) => hasIncomplete(findings'[h])
  BY KeptIncomplete DEF Persists
<1>8. CASE CountDataless(r)
  <2>1. /\ pc[r] = "stat" /\ pc'[r] = "dataless"
        /\ unreadable'[owner[r]] = unreadable[owner[r]] + 1
        /\ \A h \in Goroutines : h # owner[r] => unreadable'[h] = unreadable[h]
        /\ UNCHANGED <<findings, done>>
    BY <1>1, <1>8 DEF CountDataless, readVars, TypeOK
  <2>2. \A h \in Goroutines : unreadable[h] > 0 => unreadable'[h] > 0
    BY <1>1, <2>1 DEF TypeOK
  <2>3. ASSUME NEW h \in Goroutines, pc'[h] \in {"run", "finished"}, unreadable'[h] > 0
        PROVE  hasIncomplete(findings'[h])
    BY <1>1, <1>3, <1>6, <2>1, <2>3 DEF CountedIsNamed, ReaderPC, WorkerPC
  <2>4. ASSUME NEW q \in Reads, Outstanding(q)', pc'[owner[q]] \in {"wait", "expired"},
               unreadable'[owner[q]] > 0
        PROVE  hasIncomplete(findings'[owner[q]]) \/ pc'[q] = "dataless"
    <3>1. owner[q] \in Goroutines /\ pc[owner[q]] \in {"wait", "expired"} /\ Outstanding(q)
      BY <1>1, <1>2, <1>3, <2>1, <2>4 DEF Outstanding, TypeOK
    <3>2. CASE q = r
      BY <2>1, <3>2
    <3>3. CASE q # r /\ owner[q] # owner[r]
      BY <1>1, <1>3, <2>1, <2>4, <3>1, <3>3 DEF CountedIsNamed
    <3>4. CASE q # r /\ owner[q] = owner[r]
      <4>1. cancelled[r]
        BY <1>1, <2>1, <3>1, <3>4 DEF OneReadEach, Outstanding
      <4>2. Named(owner[r], path[r])
        BY <1>1, <2>1, <4>1, AccountedMeans DEF Accounted, Answered, DeliversLast
      <4>3. QED
        BY <1>1, <1>7, <3>4, <4>2 DEF Named, hasIncomplete
    <3>5. QED
      BY <3>2, <3>3, <3>4
  <2>5. NamedIsCounted'
    BY <1>1, <1>2, <1>3, <2>1, <2>2 DEF NamedIsCounted, TypeOK
  <2>6. QED
    BY <1>1, <1>2, <2>1, <2>3, <2>4, <2>5 DEF CountedIsNamed
<1>9. CASE WarnDataless(r)
  <2>1. /\ pc[r] = "dataless" /\ pc'[r] = "finished"
        /\ unreadable' = unreadable
        /\ done'[r] = emptyResult
        /\ finding("notdownloaded", path[r]) \in findings'[owner[r]]
        /\ \A h \in Goroutines : h # owner[r] => findings'[h] = findings[h]
    BY <1>1, <1>9 DEF WarnDataless, TypeOK
  <2>2. hasIncomplete(findings'[owner[r]])
    BY <2>1, GapIsIncomplete DEF IncompleteKinds
  <2>3. ASSUME NEW h \in Goroutines, pc'[h] \in {"run", "finished"}, unreadable'[h] > 0
        PROVE  hasIncomplete(findings'[h])
    <3>1. CASE h = r
      BY <1>1, <2>1, <2>3, <3>1 DEF FreshUntilLoaded, WorkerPC
    <3>2. CASE h # r
      BY <1>1, <1>3, <1>7, <2>1, <2>3, <3>2 DEF CountedIsNamed
    <3>3. QED
      BY <3>1, <3>2
  <2>4. ASSUME NEW q \in Reads, Outstanding(q)', pc'[owner[q]] \in {"wait", "expired"},
               unreadable'[owner[q]] > 0
        PROVE  hasIncomplete(findings'[owner[q]]) \/ pc'[q] = "dataless"
    <3>1. /\ owner[q] \in Goroutines /\ pc[owner[q]] \in {"wait", "expired"}
          /\ q # r => Outstanding(q) /\ pc'[q] = pc[q]
      BY <1>1, <1>2, <1>3, <2>1, <2>4 DEF Outstanding, TypeOK
    <3>2. QED
      BY <1>1, <1>7, <2>1, <2>2, <2>4, <3>1 DEF CountedIsNamed
  <2>5. \A q \in Reads : done'[q] # NoResult /\ done'[q].unreadable > 0 =>
            hasIncomplete(done'[q].findings)
    BY <1>1, <1>2, <2>1 DEF CountedIsNamed, emptyResult
  <2>6. NamedIsCounted'
    BY <1>1, <1>2, <1>3, <2>1 DEF NamedIsCounted
  <2>7. QED
    BY <1>2, <2>3, <2>4, <2>5, <2>6 DEF CountedIsNamed
<1>10. CASE ~CountDataless(r) /\ ~WarnDataless(r)
  <2>1. /\ unreadable' = unreadable
        /\ \A h \in Goroutines : findings'[h] = findings[h] \/ (h = r /\ pc[r] = "run")
        /\ (pc[r] # "dataless" /\ pc'[r] # "dataless") \/ pc' = pc
    BY <1>1, <1>10
    DEF Worker, StatFile, OpenFile, ReadFile, LoadFile, InspectFile, Detect, ReturnResult,
        TimerFires, FireTimer, Deliver, Advance, TypeOK
  <2>2. ASSUME NEW h \in Goroutines, pc'[h] \in {"run", "finished"}, unreadable'[h] > 0
        PROVE  hasIncomplete(findings'[h])
    <3>1. pc[h] \in {"run", "finished"}
      BY <1>1, <1>2, <1>3, <1>4, <2>1, <2>2
      DEF FreshUntilLoaded, WorkerMove, TypeOK, WorkerPC, ReaderPC
    <3>2. QED
      BY <1>1, <1>7, <2>1, <2>2, <3>1 DEF CountedIsNamed
  <2>3. ASSUME NEW q \in Reads, Outstanding(q)', pc'[owner[q]] \in {"wait", "expired"},
               unreadable'[owner[q]] > 0
        PROVE  hasIncomplete(findings'[owner[q]]) \/ pc'[q] = "dataless"
    <3>1. owner[q] \in Goroutines /\ pc[owner[q]] \in {"wait", "expired"}
      BY <1>1, <1>2, <1>3, <1>5, <2>3 DEF TypeOK, WorkerPC
    <3>2. Outstanding(q) /\ (pc[q] = "dataless" => pc'[q] = "dataless")
      BY <1>1, <1>2, <1>3, <1>4, <2>1, <2>3 DEF Outstanding
    <3>3. QED
      BY <1>1, <1>7, <2>1, <2>3, <3>1, <3>2 DEF CountedIsNamed
  <2>4. done'[r] # NoResult /\ done'[r].unreadable > 0 => hasIncomplete(done'[r].findings)
    <3>1. CASE ReturnResult(r)
      <4>1. /\ pc[r] = "run" /\ done'[r].unreadable = unreadable[r]
            /\ done'[r].findings = findings[r]
        BY <1>1, <3>1 DEF ReturnResult, Deliver, TypeOK
      <4>2. QED
        BY <1>1, <4>1 DEF CountedIsNamed
    <3>2. CASE ~ReturnResult(r)
      <4>1. done'[r] = done[r] \/ done'[r] = emptyResult
            \/ \E e \in {"failed", "missing"} : done'[r] = errorResult(e)
        BY <1>1, <1>10, <3>2
        DEF Worker, StatFile, OpenFile, ReadFile, LoadFile, InspectFile, Detect,
            TimerFires, FireTimer, Deliver, Advance, readVars, TypeOK
      <4>2. QED
        BY <1>1, <4>1 DEF CountedIsNamed, emptyResult, errorResult
    <3>3. QED
      BY <3>1, <3>2
  <2>5. NamedIsCounted'
    <3>1. findings'[Main] = findings[Main]
      BY <1>1, <2>1
    <3>2. \A q \in Reads : pc'[q] = "dataless" => pc[q] = "dataless"
      BY <1>1, <1>3, <2>1
    <3>3. \A h \in Goroutines : pc'[h] \in {"booked", "tripped"} => pc[h] = pc'[h]
      BY <1>3, <1>5 DEF WorkerPC
    <3>4. QED
      BY <1>1, <1>2, <2>1, <3>1, <3>2, <3>3 DEF NamedIsCounted
  <2>6. QED
    BY <1>1, <1>2, <2>2, <2>3, <2>4, <2>5 DEF CountedIsNamed
<1>11. QED
  BY <1>8, <1>9, <1>10

LEMMA MainCounts ==
    ASSUME CountInv, StartRead \/ FinishScan, Persists
    PROVE  CountedIsNamed' /\ NamedIsCounted'
<1>1. /\ TypeOK /\ OneReadEach /\ DeliversLast /\ FreshUntilLoaded /\ TripIsFollowedUp
      /\ CountedIsNamed /\ NamedIsCounted
      /\ Main \in Goroutines /\ Reads \subseteq Goroutines
  BY DEF CountInv, ReadInv, ReportInv, BudgetInv, Goroutines
<1>2. ASSUME NEW g \in Goroutines, NEW p \in Files, SkipRead(g, p)
      PROVE  CountedIsNamed' /\ NamedIsCounted'
  <2>1. /\ pc[g] = "run" /\ abandoned[g]
        /\ unreadable' = [unreadable EXCEPT ![g] = @ + 1]
        /\ UNCHANGED <<pc, owner, cancelled, done, findings>>
    BY <1>2 DEF SkipRead, MayRead, readVars
  <2>2. PICK f \in findings[g] : f.kind = "abandoned"
    BY <1>1, <2>1, TripImpliesReported
  <2>3. hasIncomplete(findings[g])
    BY <2>2 DEF hasIncomplete, IncompleteKinds
  <2>4. \A h \in Goroutines : /\ unreadable[h] > 0 => unreadable'[h] > 0
                              /\ h # g => unreadable'[h] = unreadable[h]
    BY <1>1, <2>1 DEF TypeOK
  <2>5. CountedIsNamed'
    BY <1>1, <2>1, <2>3, <2>4 DEF CountedIsNamed, Outstanding, TypeOK
  <2>6. NamedIsCounted'
    BY <1>1, <2>1, <2>4 DEF NamedIsCounted, TypeOK
  <2>7. QED
    BY <2>5, <2>6
<1>3. ASSUME NEW g \in Goroutines, NEW p \in Files, NEW r \in Reads,
             NEW opt \in BOOLEAN, BeginRead(g, r, p, opt)
      PROVE  CountedIsNamed' /\ NamedIsCounted'
  <2>1. /\ pc[g] = "run" /\ pc[r] = "unused"
        /\ pc' = [pc EXCEPT ![g] = "wait", ![r] = "stat"]
        /\ owner' = [owner EXCEPT ![r] = g]
        /\ UNCHANGED <<done, findings, unreadable, cancelled>>
    BY <1>3 DEF BeginRead, StartWorker, MayRead
  <2>2. \A h \in Goroutines : pc'[h] = IF h = r THEN "stat" ELSE IF h = g THEN "wait" ELSE pc[h]
    BY <1>1, <2>1 DEF TypeOK
  <2>3. ASSUME NEW q \in Reads, Outstanding(q)', pc'[owner'[q]] \in {"wait", "expired"},
               unreadable'[owner'[q]] > 0
        PROVE  hasIncomplete(findings'[owner'[q]]) \/ pc'[q] = "dataless"
    <3>1. CASE q = r
      BY <1>1, <2>1, <2>3, <3>1 DEF CountedIsNamed, TypeOK
    <3>2. CASE q # r
      <4>1. owner'[q] = owner[q] /\ owner[q] \in Goroutines /\ Outstanding(q)
        BY <1>1, <2>1, <2>2, <2>3, <3>2 DEF TypeOK, Outstanding
      <4>2. owner[q] # g /\ owner[q] # r
        BY <1>1, <2>1, <4>1 DEF OneReadEach, ReaderPC
      <4>3. pc[owner[q]] \in {"wait", "expired"} /\ (pc[q] = "dataless" => pc'[q] = "dataless")
        BY <1>1, <2>1, <2>2, <2>3, <3>2, <4>1, <4>2
      <4>4. QED
        BY <1>1, <2>1, <2>3, <4>1, <4>3 DEF CountedIsNamed
    <3>3. QED
      BY <3>1, <3>2
  <2>4. CountedIsNamed'
    <3>1. \A h \in Goroutines : pc'[h] \in {"run", "finished"} => pc'[h] = pc[h]
      BY <2>2
    <3>2. \A h \in Goroutines :
              pc'[h] \in {"run", "finished"} /\ unreadable'[h] > 0 =>
                  hasIncomplete(findings'[h])
      BY <1>1, <2>1, <3>1 DEF CountedIsNamed
    <3>3. QED
      BY <1>1, <2>1, <2>3, <3>2 DEF CountedIsNamed
  <2>5. NamedIsCounted'
    BY <1>1, <2>1, <2>2 DEF NamedIsCounted, TypeOK
  <2>6. QED
    BY <2>4, <2>5
<1>4. CASE FinishScan
  <2>1. /\ pc[Main] = "run" /\ pc' = [pc EXCEPT ![Main] = "finished"]
        /\ findings' = [findings EXCEPT ![Main] = finalizeStalls(@, skipped[Main])]
        /\ UNCHANGED <<owner, cancelled, done, unreadable>>
    BY <1>4 DEF FinishScan, readVars
  <2>2. \A h \in Goroutines : hasIncomplete(findings[h]) <=> hasIncomplete(findings'[h])
    <3>1. hasIncomplete(finalizeStalls(findings[Main], skipped[Main])) =>
              hasIncomplete(findings[Main])
      BY <1>1, FinalizeIncomplete DEF TypeOK
    <3>2. \A h \in Goroutines : hasIncomplete(findings[h]) => hasIncomplete(findings'[h])
      BY KeptIncomplete DEF Persists
    <3>3. QED
      BY <1>1, <2>1, <3>1, <3>2 DEF TypeOK
  <2>3. \A h \in Goroutines : pc'[h] = IF h = Main THEN "finished" ELSE pc[h]
    BY <1>1, <2>1 DEF TypeOK
  <2>4. CountedIsNamed'
    BY <1>1, <2>1, <2>2, <2>3 DEF CountedIsNamed, Outstanding, TypeOK
  <2>5. NamedIsCounted'
    BY <1>1, <2>1, <2>2, <2>3 DEF NamedIsCounted
  <2>6. QED
    BY <2>4, <2>5
<1>5. QED
  BY <1>2, <1>3, <1>4 DEF StartRead

LEMMA InitCountInv == Init => CountInv
<1> SUFFICES ASSUME Init PROVE CountInv
  OBVIOUS
<1>1. CountedIsNamed /\ NamedIsCounted
  BY DEF Init, CountedIsNamed, NamedIsCounted, hasIncomplete, Goroutines
<1>2. QED
  BY <1>1, InitReadInv DEF CountInv

LEMMA NextCountInv == CountInv /\ [Next]_vars => CountInv'
<1> SUFFICES ASSUME CountInv, [Next]_vars PROVE CountInv'
  OBVIOUS
<1>1. ReadInv'
  BY NextReadInv DEF CountInv
<1>2. CASE UNCHANGED vars
  BY <1>1, <1>2 DEF CountInv, CountedIsNamed, NamedIsCounted, Outstanding, vars,
     readVars, budgetVars
<1>3. CASE Next
  <2>1. Persists
    BY <1>3, StepPersists DEF CountInv, ReadInv
  <2>2. QED
    BY <1>1, <1>3, <2>1, ReaderCounts, WorkerCounts, MainCounts DEF CountInv, Next
<1>4. QED
  BY <1>2, <1>3

\* Between reads the summary counts unreadable files exactly when the report
\* has a coverage finding, whatever was merged, skipped or reported late.
THEOREM CountAlwaysMatches == Spec => []CountMatchesCoverage
<1>1. CountInv => CountMatchesCoverage
  BY DEF CountInv, CountedIsNamed, NamedIsCounted, CountMatchesCoverage, Goroutines
<1>2. QED
  BY <1>1, InitCountInv, NextCountInv, PTL DEF Spec

-----------------------------------------------------------------------------
(* A marked target is covered.                                             *)

\* Covered, with the results and the paths it looks at as arguments.
CoveredIn(p, fs, d, w) ==
    \/ \E f \in fs : f.kind \in IncompleteKinds /\ f.path \in {p, Content}
    \/ \E r \in Reads :
          /\ w[r] = p /\ d[r] # NoResult /\ d[r].err = "none"
          /\ indicators(d[r].findings) \subseteq fs

LEMMA CoveredMeans ==
    ASSUME NEW p, NEW g \in Goroutines, NEW q \in Reads
    PROVE  /\ Covered(p, findings[g]) <=> CoveredIn(p, findings[g], done, path)
           /\ Covered(p, findings[g])' <=> CoveredIn(p, findings'[g], done', path')
           /\ Covered(p, done[q].findings) <=> CoveredIn(p, done[q].findings, done, path)
           /\ Covered(p, done[q].findings)' <=> CoveredIn(p, done'[q].findings, done', path')
BY DEF Covered, CoveredIn

LEMMA CoveredGrows ==
    ASSUME DeliversLast, Persists, NEW p, NEW fs, NEW gs, Kept(fs, gs),
           CoveredIn(p, fs, done, path)
    PROVE  CoveredIn(p, gs, done', path')
<1>1. CASE \E f \in fs : f.kind \in IncompleteKinds /\ f.path \in {p, Content}
  BY <1>1 DEF Kept, CoveredIn
<1>2. ASSUME NEW r \in Reads, path[r] = p, done[r] # NoResult, done[r].err = "none",
             indicators(done[r].findings) \subseteq fs
      PROVE  \E q \in Reads :
                 /\ path'[q] = p /\ done'[q] # NoResult /\ done'[q].err = "none"
                 /\ indicators(done'[q].findings) \subseteq gs
  <2>1. path'[r] = p /\ done'[r] = done[r]
    BY <1>2 DEF Persists, DeliversLast
  <2>2. indicators(done[r].findings) \subseteq gs
    BY <1>2, KeptIndicators
  <2>3. QED
    BY <1>2, <2>1, <2>2
<1>3. QED
  BY <1>1, <1>2 DEF CoveredIn

LEMMA MarkedMeans ==
    /\ MarkedIsCovered <=> \A p \in scriptChecked[Main] : Covered(p, findings[Main])
    /\ MarkedIsCovered' <=> \A p \in scriptChecked'[Main] : Covered(p, findings[Main])'
BY DEF MarkedIsCovered, Covered, Named

LEMMA FinalizeAt ==
    ASSUME NEW fs \in SUBSET Finding, NEW n \in Nat, abandonedAt(fs)
    PROVE  abandonedAt(finalizeStalls(fs, n))
BY DEF abandonedAt, finalizeStalls, Finding

LEMMA FindingAt ==
    ASSUME NEW kind, NEW p, kind = "abandoned" => p = Content
    PROVE  abandonedAt({finding(kind, p)})
BY DEF abandonedAt, finding

LEMMA NextAbandonment ==
    ASSUME TypeOK, AbandonmentHasNoFile, Next
    PROVE  AbandonmentHasNoFile'
<1> DEFINE At(fun) == \A g \in Goroutines : abandonedAt(fun[g])
           AtDone(d) == \A r \in Reads : d[r] # NoResult => abandonedAt(d[r].findings)
<1>0. At(findings) /\ AtDone(done) /\ Reads \subseteq Goroutines /\ Main \in Goroutines
  BY DEF AbandonmentHasNoFile, Goroutines
<1> SUFFICES At(findings') /\ AtDone(done')
  BY DEF AbandonmentHasNoFile
<1>1. ASSUME NEW g \in Goroutines, NEW fs, abandonedAt(fs),
             findings' = [findings EXCEPT ![g] = @ \cup fs]
      PROVE  At(findings')
  BY <1>0, <1>1 DEF abandonedAt, TypeOK
<1>2. ASSUME NEW r \in Reads, NEW x, done' = [done EXCEPT ![r] = x], abandonedAt(x.findings)
      PROVE  AtDone(done')
  BY <1>0, <1>2 DEF TypeOK
<1>3. /\ abandonedAt(emptyResult.findings)
      /\ \A e \in {"failed", "missing"} : abandonedAt(errorResult(e).findings)
  BY DEF abandonedAt, emptyResult, errorResult
<1> HIDE DEF At, AtDone
<1>4. ASSUME NEW r \in Reads, Reader(r)
      PROVE  At(findings') /\ AtDone(done')
  <2>1. done' = done /\ owner[r] \in Goroutines
    BY <1>4, ReaderTouches DEF TypeOK
  <2>2. CASE TakeResult(r) \/ TakeEdgeResult(r)
    <3>1. finishFileResult(r) /\ done[r] # NoResult
      BY <2>2 DEF TakeResult, TakeEdgeResult, finishFileResult
    <3>2. CASE CountFailure(r)
      <4>1. CASE optionalFileMissing(r)
        BY <1>0, <2>1, <3>2, <4>1 DEF CountFailure
      <4>2. CASE ~optionalFileMissing(r)
        <5>1. abandonedAt({finding("failed", path[r])})
          BY FindingAt
        <5>2. QED
          BY <1>0, <1>1, <2>1, <3>2, <4>2, <5>1 DEF CountFailure
      <4>3. QED
        BY <4>1, <4>2
    <3>3. CASE mergeFileResult(r)
      <4>1. abandonedAt(done[r].findings)
        BY <1>0, <3>1 DEF AtDone
      <4>2. QED
        BY <1>0, <1>1, <2>1, <3>3, <4>1 DEF mergeFileResult, Merge
    <3>4. QED
      BY <3>1, <3>2, <3>3 DEF finishFileResult
  <2>3. CASE TakeTimer(r) \/ BookTimeout(r)
    BY <1>0, <2>1, <2>3 DEF TakeTimer, BookTimeout, recordTimeout
  <2>4. CASE WarnTimeout(r)
    <3>1. abandonedAt({finding("timedout", path[r])})
      BY FindingAt
    <3>2. QED
      BY <1>0, <1>1, <2>1, <2>4, <3>1 DEF WarnTimeout
  <2>5. CASE AnnounceAbandonment(r)
    <3>1. abandonedAt({Abandonment})
      BY FindingAt DEF Abandonment
    <3>2. QED
      BY <1>0, <1>1, <2>1, <2>5, <3>1 DEF AnnounceAbandonment
  <2>6. QED
    BY <1>4, <2>2, <2>3, <2>4, <2>5 DEF Reader
<1>5. ASSUME NEW r \in Reads, Worker(r) \/ TimerFires(r)
      PROVE  At(findings') /\ AtDone(done')
  <2>1. ASSUME NEW x, Deliver(r, x), abandonedAt(x.findings)
        PROVE  At(findings') /\ AtDone(done')
    BY <1>0, <1>2, <2>1 DEF Deliver
  <2>2. ASSUME NEW to, Advance(r, to)
        PROVE  At(findings') /\ AtDone(done')
    BY <1>0, <2>2 DEF Advance, readVars
  <2>3. CASE StatFile(r) \/ OpenFile(r) \/ ReadFile(r) \/ LoadFile(r) \/ InspectFile(r)
    BY <1>3, <2>1, <2>2, <2>3
    DEF StatFile, OpenFile, ReadFile, LoadFile, InspectFile
  <2>4. CASE ReturnResult(r)
    <3>1. abandonedAt(findings[r])
      BY <1>0 DEF At
    <3>2. QED
      BY <2>1, <2>4, <3>1 DEF ReturnResult
  <2>5. CASE CountDataless(r) \/ TimerFires(r)
    BY <1>0, <2>5 DEF CountDataless, TimerFires, FireTimer, readVars
  <2>6. CASE WarnDataless(r)
    <3>1. abandonedAt({finding("notdownloaded", path[r])}) /\ owner[r] \in Goroutines
      BY FindingAt DEF TypeOK
    <3>2. QED
      BY <1>1, <1>2, <1>3, <2>6, <3>1 DEF WarnDataless
  <2>7. ASSUME NEW kind \in {"indicator", "failed"}, Detect(r, kind)
        PROVE  At(findings') /\ AtDone(done')
    <3>1. abandonedAt({finding(kind, path[r])})
      BY FindingAt
    <3>2. QED
      BY <1>0, <1>1, <2>7, <3>1 DEF Detect, readVars
  <2>8. QED
    BY <1>5, <2>3, <2>4, <2>5, <2>6, <2>7 DEF Worker
<1>6. CASE StartRead
  BY <1>0, <1>6 DEF StartRead, SkipRead, BeginRead, StartWorker, readVars
<1>7. CASE FinishScan
  <2>1. /\ findings' = [findings EXCEPT ![Main] = finalizeStalls(@, skipped[Main])]
        /\ done' = done
    BY <1>7 DEF FinishScan, readVars
  <2>2. abandonedAt(finalizeStalls(findings[Main], skipped[Main]))
    BY <1>0, FinalizeAt DEF At, TypeOK
  <2>3. QED
    BY <1>0, <2>1, <2>2 DEF At, TypeOK
<1>8. QED
  BY <1>4, <1>5, <1>6, <1>7 DEF Next

\* How a step may add to a scanner's marks: by asking for a read, by skipping
\* one, or by merging the marks of a result.
LEMMA MarksGrow ==
    ASSUME TypeOK, Next, NEW g \in Goroutines, NEW p \in scriptChecked'[g],
           p \notin scriptChecked[g]
    PROVE  \/ /\ g # Main /\ owner[g] = Main /\ abandoned[g] /\ pc[g] = "run"
              /\ done' = done
           \/ /\ g # Main /\ owner[g] = Main /\ pc[g] = "run" /\ done' = done
              /\ \E r \in Reads : pc'[r] # "unused" /\ owner'[r] = g /\ path'[r] = p
           \/ \E r \in Reads :
                 /\ Reader(r) /\ owner[r] = g /\ done[r] # NoResult
                 /\ p \in done[r].checked
                 /\ done[r].findings \subseteq findings'[g]
<1>1. ASSUME NEW r \in Reads, Reader(r)
      PROVE  /\ owner[r] = g /\ done[r] # NoResult
             /\ p \in done[r].checked
             /\ done[r].findings \subseteq findings'[g]
  <2>1. scriptChecked' # scriptChecked
    OBVIOUS
  <2>2. finishFileResult(r) /\ mergeFileResult(r)
    BY <1>1, <2>1
    DEF Reader, TakeResult, TakeTimer, TakeEdgeResult, BookTimeout, WarnTimeout,
        AnnounceAbandonment, recordTimeout, finishFileResult, CountFailure
  <2>3. done[r] # NoResult
    BY <2>2 DEF finishFileResult
  <2>4. QED
    BY <2>2, <2>3 DEF mergeFileResult, Merge, TypeOK
<1>2. ASSUME NEW r \in Reads, Worker(r) \/ TimerFires(r) PROVE FALSE
  BY <1>2
  DEF Worker, StatFile, OpenFile, ReadFile, LoadFile, InspectFile, Detect, ReturnResult,
      TimerFires, FireTimer, Deliver, Advance, CountDataless, WarnDataless
<1>3. ASSUME NEW h \in Goroutines, NEW f \in Files, SkipRead(h, f)
      PROVE  g # Main /\ owner[g] = Main /\ abandoned[g] /\ pc[g] = "run" /\ done' = done
  BY <1>3 DEF SkipRead, MayRead, Mark, MarkOn, readVars, TypeOK
<1>4. ASSUME NEW h \in Goroutines, NEW f \in Files, NEW r \in Reads,
             NEW opt \in BOOLEAN, BeginRead(h, r, f, opt)
      PROVE  /\ g # Main /\ owner[g] = Main /\ pc[g] = "run" /\ done' = done
             /\ pc'[r] # "unused" /\ owner'[r] = g /\ path'[r] = p
  <2>1. /\ pc[h] = "run" /\ pc[r] = "unused" /\ done' = done
        /\ h \in {Main} \cup {q \in Reads : owner[q] = Main}
        /\ Mark(h, f)
        /\ pc' = [pc EXCEPT ![h] = "wait", ![r] = "stat"]
        /\ owner' = [owner EXCEPT ![r] = h]
        /\ path' = [path EXCEPT ![r] = f]
    BY <1>4 DEF BeginRead, StartWorker, MayRead
  <2>2. h = g /\ f = p /\ g # Main
    BY <2>1 DEF Mark, MarkOn, TypeOK
  <2>3. QED
    BY <2>1, <2>2 DEF TypeOK, Goroutines
<1>5. CASE FinishScan
  BY <1>5 DEF FinishScan
<1>6. QED
  BY <1>1, <1>2, <1>3, <1>4, <1>5 DEF Next, StartRead

\* What a private scanner marked is covered by its findings when its checks end.
LEMMA MarkShowsOnScanner ==
    ASSUME MarkInv, NEW q \in Reads, pc[q] = "run", NEW p \in scriptChecked[q]
    PROVE  Covered(p, findings[q])
<1>1. /\ TypeOK /\ OneReadEach /\ TripIsFollowedUp /\ DeliversLast /\ NestsOnce
      /\ ReadIsAccounted /\ AbandonmentHasNoFile /\ MarksItsReads
      /\ q \in Goroutines /\ q # Main
  BY DEF MarkInv, ReadInv, ReportInv, BudgetInv, Goroutines
<1>2. CASE abandoned[q]
  <2>1. PICK f \in findings[q] : f.kind = "abandoned"
    BY <1>1, <1>2, TripImpliesReported
  <2>2. f.path = Content
    BY <1>1, <2>1 DEF AbandonmentHasNoFile, abandonedAt
  <2>3. QED
    BY <2>1, <2>2 DEF Covered, IncompleteKinds
<1>3. ASSUME NEW r \in Reads, pc[r] # "unused", owner[r] = q, path[r] = p
      PROVE  Covered(p, findings[q])
  <2>1. cancelled[r] /\ ~optional[r]
    BY <1>1, <1>3 DEF OneReadEach, Outstanding, ReaderPC, NestsOnce
  <2>2. Accounted(r)
    BY <1>1, <2>1, AccountedMeans
  <2>3. QED
    BY <1>3, <2>1, <2>2
    DEF Accounted, Answered, Named, Covered, optionalFileMissing
<1>4. QED
  BY <1>1, <1>2, <1>3 DEF MarksItsReads

LEMMA NextMarks ==
    ASSUME MarkInv, Next, Persists
    PROVE  /\ MarksItsReads' /\ NestedMarksNothing'
           /\ MarksInResultsAreCovered' /\ MarkedIsCovered'
<1>1. /\ TypeOK /\ DeliversLast /\ FreshUntilLoaded /\ NestsOnce /\ ReadInv
      /\ MarksItsReads /\ NestedMarksNothing /\ MarksInResultsAreCovered /\ MarkedIsCovered
      /\ Main \in Goroutines /\ Main \notin Reads /\ Reads \subseteq Goroutines
  BY DEF MarkInv, ReadInv, ReportInv, BudgetInv, Goroutines
\* A result that is new comes from a scanner in its checks, or marks nothing.
<1>2. ASSUME NEW q \in Reads, done[q] = NoResult, done'[q] # NoResult
      PROVE  /\ owner' = owner
             /\ \/ done'[q].checked = {}
                \/ /\ pc[q] = "run" /\ done'[q].checked = scriptChecked[q]
                   /\ done'[q].findings = findings[q]
  <2>1. Worker(q) \/ TimerFires(q)
    BY <1>1, <1>2, ReaderTouches, WorkerResults
    DEF Next, StartRead, SkipRead, BeginRead, StartWorker, FinishScan, readVars
  <2>2. owner' = owner
    BY <1>1, <2>1, WorkerResults
  <2>3. CASE ReturnResult(q)
    BY <1>1, <2>2, <2>3 DEF ReturnResult, Deliver, TypeOK
  <2>4. CASE ~ReturnResult(q)
    <3>1. done'[q] = emptyResult \/ \E e \in {"failed", "missing"} : done'[q] = errorResult(e)
      BY <1>1, <1>2, <2>1, <2>4
      DEF Worker, StatFile, OpenFile, ReadFile, LoadFile, InspectFile, Detect,
          CountDataless, WarnDataless, TimerFires, FireTimer, Deliver, Advance,
          readVars, TypeOK
    <3>2. QED
      BY <2>2, <3>1 DEF emptyResult, errorResult
  <2>5. QED
    BY <2>3, <2>4
<1>3. MarksItsReads'
  <2>1. SUFFICES ASSUME NEW q \in Reads, NEW p \in scriptChecked'[q]
                 PROVE  \/ abandoned'[q]
                        \/ \E r \in Reads : pc'[r] # "unused" /\ owner'[r] = q /\ path'[r] = p
    BY DEF MarksItsReads
  <2>2. CASE p \in scriptChecked[q]
    BY <1>1, <2>2, AbandonedPersists DEF MarksItsReads, Persists
  <2>3. CASE p \notin scriptChecked[q]
    <3>1. ASSUME NEW r \in Reads, owner[r] = q, done[r] # NoResult, p \in done[r].checked
          PROVE  FALSE
      BY <1>1, <3>1 DEF NestedMarksNothing
    <3>2. QED
      BY <1>1, <2>1, <2>3, <3>1, MarksGrow, AbandonedPersists
  <2>4. QED
    BY <2>2, <2>3
<1>4. NestedMarksNothing'
  <2>1. SUFFICES ASSUME NEW q \in Reads, owner'[q] # Main
                 PROVE  /\ scriptChecked'[q] = {}
                        /\ done'[q] # NoResult => done'[q].checked = {}
    BY DEF NestedMarksNothing
  <2>2. scriptChecked[q] = {} /\ (done[q] # NoResult => done[q].checked = {})
    <3>1. CASE pc[q] = "unused"
      BY <1>1, <3>1 DEF FreshUntilLoaded, DeliversLast
    <3>2. CASE pc[q] # "unused"
      BY <1>1, <2>1, <3>2 DEF Persists, NestedMarksNothing
    <3>3. QED
      BY <3>1, <3>2
  <2>3. ASSUME NEW p \in scriptChecked'[q] PROVE FALSE
    <3>1. ASSUME owner[q] = Main, pc[q] = "run" PROVE FALSE
      BY <1>1, <2>1, <3>1 DEF Persists
    <3>2. ASSUME NEW r \in Reads, Reader(r), owner[r] = q, done[r] # NoResult,
                 p \in done[r].checked
          PROVE  FALSE
      BY <1>1, <3>2 DEF NestedMarksNothing
    <3>3. QED
      BY <1>1, <2>2, <2>3, <3>1, <3>2, MarksGrow
  <2>4. done'[q] # NoResult => done'[q].checked = {}
    <3>1. CASE done[q] # NoResult
      BY <2>2, <3>1 DEF Persists
    <3>2. CASE done[q] = NoResult
      BY <1>2, <2>2, <3>2
    <3>3. QED
      BY <3>1, <3>2
  <2>5. QED
    BY <2>3, <2>4
<1>5. MarksInResultsAreCovered'
  <2>1. SUFFICES ASSUME NEW q \in Reads, done'[q] # NoResult, NEW p \in done'[q].checked
                 PROVE  Covered(p, done[q].findings)'
    BY DEF MarksInResultsAreCovered
  <2>2. CASE done[q] # NoResult
    <3>1. done'[q] = done[q] /\ Kept(done[q].findings, done[q].findings)
      BY <2>2, SubsetKept DEF Persists
    <3>2. Covered(p, done[q].findings)
      BY <1>1, <2>1, <2>2, <3>1 DEF MarksInResultsAreCovered
    <3>3. QED
      BY <1>1, <3>1, <3>2, CoveredGrows, CoveredMeans
  <2>3. CASE done[q] = NoResult
    <3>1. /\ pc[q] = "run" /\ p \in scriptChecked[q]
          /\ done'[q].findings = findings[q]
      BY <1>2, <2>1, <2>3
    <3>2. Covered(p, findings[q]) /\ Kept(findings[q], findings[q])
      BY <3>1, MarkShowsOnScanner, SubsetKept
    <3>3. QED
      BY <1>1, <3>1, <3>2, CoveredGrows, CoveredMeans
  <2>4. QED
    BY <2>2, <2>3
<1>6. MarkedIsCovered'
  <2>1. SUFFICES ASSUME NEW p \in scriptChecked'[Main] PROVE Covered(p, findings[Main])'
    BY MarkedMeans
  <2>2. CASE p \in scriptChecked[Main]
    <3>1. Covered(p, findings[Main]) /\ Kept(findings[Main], findings'[Main])
      BY <1>1, <2>2, MarkedMeans DEF Persists
    <3>2. CoveredIn(p, findings[Main], done, path)
      BY <1>1, <3>1 DEF Covered, CoveredIn
    <3>3. CoveredIn(p, findings'[Main], done', path')
      BY <1>1, <3>1, <3>2, CoveredGrows
    <3>4. QED
      BY <3>3 DEF Covered, CoveredIn
  <2>3. CASE p \notin scriptChecked[Main]
    <3>1. PICK r \in Reads :
              /\ done[r] # NoResult /\ p \in done[r].checked
              /\ done[r].findings \subseteq findings'[Main]
      BY <1>1, <2>1, <2>3, MarksGrow
    <3>2. Covered(p, done[r].findings) /\ Kept(done[r].findings, findings'[Main])
      BY <1>1, <3>1, SubsetKept DEF MarksInResultsAreCovered
    <3>3. QED
      BY <1>1, <3>2, CoveredGrows, CoveredMeans
  <2>4. QED
    BY <2>2, <2>3
<1>7. QED
  BY <1>3, <1>4, <1>5, <1>6

LEMMA InitMarkInv == Init => MarkInv
<1> SUFFICES ASSUME Init PROVE MarkInv
  OBVIOUS
<1>1. /\ AbandonmentHasNoFile /\ MarksItsReads /\ NestedMarksNothing
      /\ MarksInResultsAreCovered /\ MarkedIsCovered
  BY DEF Init, AbandonmentHasNoFile, abandonedAt, MarksItsReads, NestedMarksNothing,
     MarksInResultsAreCovered, MarkedIsCovered, Goroutines
<1>2. QED
  BY <1>1, InitReadInv DEF MarkInv

LEMMA NextMarkInv == MarkInv /\ [Next]_vars => MarkInv'
<1> SUFFICES ASSUME MarkInv, [Next]_vars PROVE MarkInv'
  OBVIOUS
<1>1. ReadInv' /\ TypeOK
  BY NextReadInv DEF MarkInv, ReadInv, ReportInv, BudgetInv
<1>2. CASE UNCHANGED vars
  <2>1. AbandonmentHasNoFile' /\ MarksItsReads' /\ NestedMarksNothing'
    BY <1>2 DEF MarkInv, AbandonmentHasNoFile, MarksItsReads, NestedMarksNothing,
       vars, readVars, budgetVars
  <2>2. MarksInResultsAreCovered' /\ MarkedIsCovered'
    BY <1>2 DEF MarkInv, MarksInResultsAreCovered, MarkedIsCovered, Covered, Named,
       vars, readVars, budgetVars
  <2>3. QED
    BY <1>1, <2>1, <2>2 DEF MarkInv
<1>3. CASE Next
  <2>1. Persists
    BY <1>3, StepPersists DEF MarkInv, ReadInv
  <2>2. QED
    BY <1>1, <1>3, <2>1, NextMarks, NextAbandonment DEF MarkInv
<1>4. QED
  BY <1>2, <1>3

\* A target Main will not read again was answered, with its indicators in the
\* report, or the gap is named: marking a path never hides it, at any depth.
THEOREM MarkingNeverHides == Spec => []MarkedIsCovered
<1>1. MarkInv => MarkedIsCovered
  BY DEF MarkInv
<1>2. QED
  BY <1>1, InitMarkInv, NextMarkInv, PTL DEF Spec

-----------------------------------------------------------------------------
(* What a step may never do.                                               *)

\* Only the reader of r moves the goroutine that waits for r.
LEMMA ReaderMovesItsOwn ==
    ASSUME ReadInv, Next, NEW r \in Reads, Outstanding(r), pc'[owner[r]] # pc[owner[r]]
    PROVE  Reader(r)
<1> DEFINE g == owner[r]
<1>1. /\ TypeOK /\ OneReadEach /\ g \in Goroutines /\ pc[g] \in ReaderPC
      /\ Main \in Goroutines /\ Reads \subseteq Goroutines
  BY DEF ReadInv, ReportInv, BudgetInv, OneReadEach, TypeOK, Goroutines
<1>2. ASSUME NEW q \in Reads, Reader(q) PROVE q = r
  <2>1. owner[q] = g
    BY <1>1, <1>2, ReaderMoves DEF TypeOK
  <2>2. Outstanding(q)
    BY <1>1, <1>2, ReaderTouches
  <2>3. QED
    BY <1>1, <2>1, <2>2 DEF OneReadEach
<1>3. ASSUME NEW q \in Reads, Worker(q) \/ TimerFires(q) PROVE FALSE
  BY <1>1, <1>3, WorkerMoves DEF WorkerMove, TypeOK, WorkerPC, ReaderPC
<1>4. ASSUME StartRead \/ FinishScan PROVE FALSE
  BY <1>1, <1>4 DEF StartRead, SkipRead, BeginRead, StartWorker, MayRead, FinishScan,
     TypeOK, ReaderPC
<1>5. QED
  BY <1>2, <1>3, <1>4 DEF Next

\* A result that is ready when its reader decides is taken, even when the timer
\* fired in the same instant.
THEOREM FinishedReadIsAlwaysTaken == Spec => FinishedReadIsTaken
<1> DEFINE Taken == \A r \in Reads :
          /\ Outstanding(r) /\ done[r] # NoResult
          /\ pc[owner[r]] \in {"wait", "expired"}
          /\ pc'[owner[r]] \notin {"wait", "expired"}
          => done[r].findings \subseteq findings'[owner[r]]
<1>1. ReadInv /\ [Next]_vars => [Taken]_vars
  <2>1. SUFFICES ASSUME ReadInv, Next, NEW r \in Reads,
                        Outstanding(r), done[r] # NoResult,
                        pc[owner[r]] \in {"wait", "expired"},
                        pc'[owner[r]] \notin {"wait", "expired"}
                 PROVE  done[r].findings \subseteq findings'[owner[r]]
    OBVIOUS
  <2>2. TypeOK /\ FailuresAreBare /\ owner[r] \in Goroutines
    BY <2>1 DEF ReadInv, ReportInv, BudgetInv, TypeOK
  <2>3. Reader(r)
    BY <2>1, ReaderMovesItsOwn
  <2>4. finishFileResult(r)
    BY <2>1, <2>2, <2>3
    DEF Reader, TakeResult, TakeTimer, TakeEdgeResult, BookTimeout, WarnTimeout,
        AnnounceAbandonment, TypeOK
  <2>5. CASE done[r].err # "none"
    BY <2>1, <2>2, <2>5 DEF FailuresAreBare
  <2>6. CASE done[r].err = "none"
    BY <2>2, <2>4, <2>6 DEF finishFileResult, mergeFileResult, Merge, TypeOK
  <2>7. QED
    BY <2>5, <2>6
<1>2. QED
  BY <1>1, InitReadInv, NextReadInv, PTL DEF Spec, FinishedReadIsTaken

\* Where there are no placeholders, no worker is between the two steps of one.
NoDataless == ~Placeholders /\ \A r \in Reads : pc[r] # "dataless"

LEMMA InitNoDataless == ~Placeholders /\ Init => NoDataless
BY DEF Init, NoDataless, Goroutines

LEMMA NextNoDataless == ReadInv /\ NoDataless /\ [Next]_vars => NoDataless'
<1>1. SUFFICES ASSUME ReadInv, NoDataless, [Next]_vars, NEW q \in Reads
               PROVE  pc'[q] # "dataless"
  BY DEF NoDataless
<1>2. TypeOK /\ pc[q] # "dataless" /\ ~Placeholders /\ Reads \subseteq Goroutines
  BY <1>1 DEF ReadInv, ReportInv, BudgetInv, NoDataless, Goroutines
<1>3. ASSUME NEW r \in Reads, Reader(r) PROVE pc'[q] # "dataless"
  BY <1>2, <1>3, ReaderMoves DEF TypeOK, ReaderPC
<1>4. ASSUME NEW r \in Reads, Worker(r) \/ TimerFires(r) PROVE pc'[q] # "dataless"
  BY <1>2, <1>4
  DEF Worker, StatFile, OpenFile, ReadFile, LoadFile, InspectFile, Detect, ReturnResult,
      CountDataless, WarnDataless, TimerFires, FireTimer, Deliver, Advance, TypeOK
<1>5. CASE StartRead \/ FinishScan
  BY <1>2, <1>5 DEF StartRead, SkipRead, BeginRead, StartWorker, FinishScan, TypeOK
<1>6. CASE UNCHANGED vars
  BY <1>2, <1>6 DEF vars
<1>7. QED
  BY <1>1, <1>3, <1>4, <1>5, <1>6 DEF Next

\* Without placeholders a worker touches no scanner but its own.
LEMMA WorkerIsPrivate ==
    ASSUME TypeOK, NoDataless, NEW r \in Reads, Worker(r) \/ TimerFires(r),
           NEW g \in Goroutines, g # r
    PROVE  Untouched(g)
BY DEF Worker, StatFile, OpenFile, ReadFile, LoadFile, InspectFile, Detect, ReturnResult,
       CountDataless, WarnDataless, TimerFires, FireTimer, Deliver, Advance, TypeOK,
       NoDataless, Untouched, budgetVars

\* "A timed-out worker can never append findings after the parent has moved on"
\* (content.go, processFile) is true wherever files have no placeholders; where
\* they have, a run shows that it is not.
THEOREM LateWorkersAreSilent == ~Placeholders /\ Spec => TimedOutWorkerIsSilent
<1> DEFINE Silent == \A r \in Reads :
          cancelled[r] /\ Worker(r) =>
              /\ findings'[owner[r]] = findings[owner[r]]
              /\ unreadable'[owner[r]] = unreadable[owner[r]]
<1>1. ReadInv /\ NoDataless /\ [Next]_vars => [Silent]_vars
  <2>1. SUFFICES ASSUME ReadInv, NoDataless, NEW r \in Reads, Worker(r)
                 PROVE  /\ findings'[owner[r]] = findings[owner[r]]
                        /\ unreadable'[owner[r]] = unreadable[owner[r]]
    OBVIOUS
  <2>2. TypeOK /\ owner[r] \in Goroutines /\ owner[r] # r
    BY <2>1 DEF ReadInv, ReportInv, BudgetInv, TypeOK, NestsOnce
  <2>3. QED
    BY <2>1, <2>2, WorkerIsPrivate DEF Untouched
<1>2. QED
  BY <1>1, InitReadInv, NextReadInv, InitNoDataless, NextNoDataless, PTL
  DEF Spec, TimedOutWorkerIsSilent

-----------------------------------------------------------------------------
(* The pipeline implements ScanReport.                                     *)

LEMMA InitImplements == Init => Report!Init
BY DEF Init, Report!Init, Goroutines

LEMMA FinalizeIsClose ==
    ASSUME NEW fs \in SUBSET Finding, NEW n \in Nat, \A f \in fs : f.unread = 0
    PROVE  finalizeStalls(fs, n) =
               {IF f.kind = "abandoned" THEN [f EXCEPT !.unread = n] ELSE f : f \in fs}
<1>1. CASE n # 0
  BY <1>1 DEF finalizeStalls
<1>2. CASE n = 0
  <2>1. \A f \in fs : (IF f.kind = "abandoned" THEN [f EXCEPT !.unread = n] ELSE f) = f
    BY <1>2 DEF Finding
  <2>2. QED
    BY <1>2, <2>1 DEF finalizeStalls
<1>3. QED
  BY <1>1, <1>2

\* A step that leaves Main's scanner and its being finished alone is a stutter.
Aside ==
    /\ findings'[Main] = findings[Main]
    /\ stalls'[Main] = stalls[Main]
    /\ skipped'[Main] = skipped[Main]
    /\ pc'[Main] = "finished" <=> pc[Main] = "finished"

LEMMA AsideStutters == Aside => UNCHANGED Report!vars
BY DEF Aside, Report!vars

LEMMA ReaderImplements ==
    ASSUME ReadInv, TypeOK', NEW r \in Reads, Reader(r)
    PROVE  [Report!Next]_(Report!vars)
<1> DEFINE g == owner[r]
<1>1. /\ TypeOK /\ OneReadEach /\ WaitsWithinBudget /\ StallBudgetKept /\ ReportInv
      /\ g \in Goroutines /\ Main \in Goroutines /\ pc[g] \in ReaderPC
      /\ skipped' = skipped
  BY ReaderFindings DEF ReadInv, ReportInv, BudgetInv, TypeOK, Goroutines
<1>2. PICK to \in ReaderPC \cup {"run"} : pc' = [pc EXCEPT ![g] = to]
  BY ReaderMoves
<1>3. (pc'[Main] = "finished") <=> (pc[Main] = "finished")
  BY <1>1, <1>2 DEF TypeOK, ReaderPC
<1>4. PICK fs : FindingsGrow(g, fs)
  BY <1>1, ReaderFindings
<1>5. CASE ~BookTimeout(r)
  <2>1. stalls' = stalls
    BY <1>5 DEF Reader, TakeResult, TakeTimer, TakeEdgeResult, WarnTimeout,
                AnnounceAbandonment, finishFileResult, budgetVars
  <2>2. CASE g # Main
    <3>1. findings'[Main] = findings[Main]
      BY <1>1, <1>4, <2>2 DEF FindingsGrow, TypeOK
    <3>2. QED
      BY <1>1, <1>3, <2>1, <3>1, AsideStutters DEF Aside
  <2>3. CASE g = Main
    <3>1. /\ pc[Main] # "finished" /\ findings[Main] \subseteq findings'[Main]
          /\ findings'[Main] \in SUBSET Finding
      BY <1>1, <1>4, <2>3 DEF FindingsGrow, TypeOK, ReaderPC
    <3>2. Report!Publish
      BY <1>1, <1>3, <2>1, <3>1 DEF Report!Publish
    <3>3. QED
      BY <3>2 DEF Report!Next
  <2>4. QED
    BY <2>2, <2>3
<1>6. CASE BookTimeout(r)
  <2>1. /\ pc[g] = "expired" /\ findings' = findings
        /\ stalls' = [stalls EXCEPT ![g] = @ + 1]
    BY <1>6 DEF BookTimeout, recordTimeout
  <2>2. CASE g # Main
    BY <1>1, <1>3, <2>1, <2>2, AsideStutters DEF Aside, TypeOK
  <2>3. CASE g = Main
    <3>1. stalls[Main] \in Nat /\ stalls[Main] <= Budget /\ stalls[Main] # Budget
      BY <1>1, <2>1, <2>3 DEF WaitsWithinBudget, StallBudgetKept, TypeOK
    <3>2. stalls[Main] < Budget /\ stalls'[Main] = stalls[Main] + 1 /\ pc[Main] # "finished"
      <4>1. stalls[Main] < Budget
        BY <3>1
      <4>2. stalls'[Main] = stalls[Main] + 1
        BY <1>1, <2>1, <2>3 DEF TypeOK
      <4>3. QED
        BY <2>1, <2>3, <4>1, <4>2
    <3>3. Report!LoseTime
      BY <1>1, <1>3, <2>1, <3>2 DEF Report!LoseTime
    <3>4. QED
      BY <3>3 DEF Report!Next
  <2>4. QED
    BY <2>2, <2>3
<1>7. QED
  BY <1>5, <1>6

LEMMA WorkerImplements ==
    ASSUME ReadInv, NoDataless, NEW r \in Reads, Worker(r) \/ TimerFires(r)
    PROVE  UNCHANGED Report!vars
<1>1. TypeOK /\ Main \in Goroutines /\ Main # r
  BY DEF ReadInv, ReportInv, BudgetInv, Goroutines
<1>2. Untouched(Main)
  BY <1>1, WorkerIsPrivate
<1>3. pc'[Main] = pc[Main] /\ stalls' = stalls
  BY <1>1, WorkerMoves DEF WorkerMove, TypeOK
<1>4. QED
  BY <1>2, <1>3, AsideStutters DEF Aside, Untouched

LEMMA MainImplements ==
    ASSUME ReadInv, StartRead \/ FinishScan
    PROVE  [Report!Next]_(Report!vars)
<1>1. /\ TypeOK /\ StallBudgetKept /\ CountsComeLast
      /\ Main \in Goroutines /\ Reads \subseteq Goroutines
  BY DEF ReadInv, ReportInv, BudgetInv, Goroutines
<1>2. ASSUME NEW g \in Goroutines, NEW p \in Files, SkipRead(g, p)
      PROVE  [Report!Next]_(Report!vars)
  <2>1. /\ pc[g] = "run" /\ abandoned[g] /\ pc' = pc
        /\ skipped' = [skipped EXCEPT ![g] = @ + 1]
        /\ UNCHANGED <<findings, stalls>>
    BY <1>2 DEF SkipRead, MayRead
  <2>2. CASE g # Main
    BY <1>1, <2>1, <2>2, AsideStutters DEF Aside, TypeOK
  <2>3. CASE g = Main
    <3>1. stalls[Main] = Budget /\ skipped'[Main] = skipped[Main] + 1
      BY <1>1, <2>1, <2>3 DEF StallBudgetKept, TypeOK
    <3>2. Report!GiveUpOnFile
      BY <2>1, <2>3, <3>1 DEF Report!GiveUpOnFile
    <3>3. QED
      BY <3>2 DEF Report!Next
  <2>4. QED
    BY <2>2, <2>3
<1>3. ASSUME NEW g \in Goroutines, NEW p \in Files, NEW r \in Reads,
             NEW opt \in BOOLEAN, BeginRead(g, r, p, opt)
      PROVE  [Report!Next]_(Report!vars)
  <2>1. /\ pc[g] = "run" /\ pc' = [pc EXCEPT ![g] = "wait", ![r] = "stat"]
        /\ UNCHANGED <<findings, stalls, skipped>>
    BY <1>3 DEF BeginRead, StartWorker, MayRead, budgetVars
  <2>2. (pc'[Main] = "finished") <=> (pc[Main] = "finished")
    BY <1>1, <2>1 DEF TypeOK
  <2>3. QED
    BY <2>1, <2>2, AsideStutters DEF Aside
<1>4. CASE FinishScan
  <2>1. /\ pc[Main] = "run" /\ pc' = [pc EXCEPT ![Main] = "finished"]
        /\ findings' = [findings EXCEPT ![Main] = finalizeStalls(@, skipped[Main])]
        /\ UNCHANGED <<stalls, skipped>>
    BY <1>4 DEF FinishScan, budgetVars
  <2>2. findings[Main] \in SUBSET Finding /\ skipped[Main] \in Nat
        /\ \A f \in findings[Main] : f.unread = 0
    BY <1>1, <2>1 DEF TypeOK, CountsComeLast
  <2>3. findings'[Main] = {IF f.kind = "abandoned" THEN [f EXCEPT !.unread = skipped[Main]]
                                                   ELSE f : f \in findings[Main]}
    <3> DEFINE fs == findings[Main]
               n == skipped[Main]
    <3>1. findings'[Main] = finalizeStalls(fs, n)
      BY <1>1, <2>1 DEF TypeOK
    <3>2. fs \in SUBSET Finding /\ n \in Nat /\ \A f \in fs : f.unread = 0
      BY <2>2
    <3> HIDE DEF fs, n
    <3>3. finalizeStalls(fs, n) =
              {IF f.kind = "abandoned" THEN [f EXCEPT !.unread = n] ELSE f : f \in fs}
      BY <3>2, FinalizeIsClose
    <3>4. QED
      BY <3>1, <3>3 DEF fs, n
  <2>4. pc'[Main] = "finished" /\ pc[Main] # "finished"
    BY <1>1, <2>1 DEF TypeOK
  <2>5. Report!Close
    BY <2>1, <2>3, <2>4 DEF Report!Close, Report!counted
  <2>6. QED
    BY <2>5 DEF Report!Next
<1>5. QED
  BY <1>2, <1>3, <1>4 DEF StartRead

\* Where files have no placeholders, the pipeline implements ScanReport, for
\* every number of reads and files, every nesting and every budget: findings
\* are only added, lost time is bounded, files are given up only once the bound
\* is reached, and a report that was returned is never touched again, whatever
\* workers are left behind.
THEOREM ReportIsImplemented == ~Placeholders /\ Spec => ImplementsReport
<1>1. ReadInv /\ ReadInv' /\ NoDataless /\ [Next]_vars => [Report!Next]_(Report!vars)
  <2>1. SUFFICES ASSUME ReadInv, ReadInv', NoDataless, [Next]_vars
                 PROVE  [Report!Next]_(Report!vars)
    OBVIOUS
  <2>2. TypeOK'
    BY <2>1 DEF ReadInv, ReportInv, BudgetInv
  <2>3. CASE UNCHANGED vars
    <3>1. Aside
      BY <2>3 DEF Aside, vars, budgetVars
    <3>2. QED
      BY <3>1, AsideStutters
  <2>4. QED
    BY <2>1, <2>2, <2>3, ReaderImplements, WorkerImplements, MainImplements DEF Next
<1>2. QED
  BY <1>1, InitImplements, InitReadInv, NextReadInv, InitNoDataless, NextNoDataless, PTL
  DEF Spec, ImplementsReport, Report!Spec
=============================================================================
