CONSTANTS
    Payload <- MCPayload
    Items <- MCItems
    Folders <- MCFolders
    Critical <- MCCritical
    MaxRuns = 3
    MaxFailures = 2
SPECIFICATION UpdaterSpec
CHECK_DEADLOCK FALSE
INVARIANT ReportedIsInstalled
INVARIANT LeftAsFound
PROPERTY UserDataIsSafe
