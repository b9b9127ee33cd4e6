CONSTANTS
    Payload <- MCPayload
    Items <- MCItems
    Folders <- MCFolders
    Critical <- MCCritical
    MaxRuns = 2
    MaxFailures = 1
SPECIFICATION UpdaterSpec
CHECK_DEADLOCK FALSE
INVARIANT SecondRunIsCurrent
