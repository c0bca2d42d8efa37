SPECIFICATION Spec
CONSTANTS
    Main = Main
    Content = Content
    NoResult = NoResult
    Reads = {r1, r2, r3}
    Files = {f1}
    Budget = 2
    MaxSkips = 1
    Placeholders = FALSE
SYMMETRY Symmetry
INVARIANT StallBudgetKept
PROPERTY FinishedReadIsTaken
PROPERTY TimedOutWorkerIsSilent
PROPERTY ImplementsReport
CHECK_DEADLOCK FALSE
