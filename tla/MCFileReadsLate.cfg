SPECIFICATION Spec
CONSTANTS
    Main = Main
    Content = Content
    NoResult = NoResult
    Reads = {r1}
    Files = {f1}
    Budget = 2
    MaxSkips = 1
    Placeholders = TRUE
PROPERTY TimedOutWorkerIsSilent
CHECK_DEADLOCK FALSE
