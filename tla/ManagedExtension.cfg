CONSTANTS
    MaxVersion = 3
    KeptVersions = 1
SPECIFICATION Spec
INVARIANT ReleasesKept
INVARIANT RunsCanBeStopped
INVARIANT CrashUndoesOrCompletes
PROPERTY ActiveNeverFalls
