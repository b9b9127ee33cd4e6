SPECIFICATION Spec
CONSTANTS
    main = main
    side = side
    Windows = {main}
    ClearOnExit = TRUE
    Hydrated = {main}
    MaxEdits = 1
    MaxCloses = 1
    MaxQuits = 1
    MaxRetries = 0
    MaxFaults = 0
CHECK_DEADLOCK FALSE
INVARIANT SavedUnlessAbandoned
