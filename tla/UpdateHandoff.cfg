CONSTANTS
    w1 = w1
    w2 = w2
    Workers = {w1, w2}
    Latest = 3
    MaxAttempts = 2
    SafeAfter = 2
    MaxStarts = 4
    MaxFaults = 3
SPECIFICATION Spec
CHECK_DEADLOCK FALSE
INVARIANT AttemptsAreBounded
INVARIANT SafeAfterCrashesOnly
PROPERTY BrowserComesBack
