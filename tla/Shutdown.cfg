SPECIFICATION FairSpec
CONSTANTS
    main = main
    side = side
    Windows <- TwoWindows
    ClearOnExit = TRUE
    Hydrated = {main}
    MaxEdits = 1
    MaxCloses = 1
    MaxQuits = 1
    MaxRetries = 1
    MaxFaults = 1
CHECK_DEADLOCK FALSE
INVARIANTS FlushedStateKept BarriersHold
PROPERTY QuitEnds
