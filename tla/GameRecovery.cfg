SPECIFICATION PhasesSpec
CONSTANTS
    p1 = p1
    p2 = p2
    p3 = p3
    Tables <- MCTables
    MaxAttempts = 6
    MaxCrashes = 1
PROPERTIES RecordedComesBack
CHECK_DEADLOCK FALSE
