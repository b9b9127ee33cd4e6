SPECIFICATION Spec
CONSTANTS
    main = main
    side = side
    Windows <- TwoWindows
    ClearOnExit = TRUE
    Hydrated = {main}
    MaxEdits = 0
    MaxCloses = 0
    MaxQuits = 1
    MaxRetries = 0
    MaxFaults = 0
CHECK_DEADLOCK FALSE
INVARIANT SiteDataClearedOnExit
