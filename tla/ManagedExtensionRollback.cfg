CONSTANTS
    MaxVersion = 2
    KeptVersions = 2
SPECIFICATION Spec
INVARIANT FailedUpdatesRollBack
