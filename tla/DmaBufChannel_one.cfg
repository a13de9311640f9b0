SPECIFICATION FairSpec
CONSTANTS
    Count = 1
    Wait = TRUE
    MaxFrame = 8
INVARIANTS
    NoMissedSignal
PROPERTIES
    ExitStopsThreads
CHECK_DEADLOCK FALSE
