SPECIFICATION FairSpec
CONSTANTS
    Main = Main
    Content = Content
    NoResult = NoResult
    Reads = {r1, r2}
    Files = {f1, f2}
    Budget = 1
    MaxSkips = 1
    Placeholders = TRUE
INVARIANT ReadIsAccounted
INVARIANT NeverLooksClean
INVARIANT MarkedIsCovered
INVARIANT CountMatchesCoverage
PROPERTY ScanEnds
CHECK_DEADLOCK FALSE
