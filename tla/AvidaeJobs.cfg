CONSTANTS
    j1 = j1
    j2 = j2
    c1 = c1
    s1 = s1
    s2 = s2
    Jobs = {j1, j2}
    Slots = {s1, s2}
    Clients = {c1}
    Timed = {j1}
    MaxConcurrent = 3
    Paths <- AllPaths
    ScheduledPaths <- FewPaths
    FallbackPaths <- Fallback
    Overlap = FALSE
    MaxRequests = 2
    MaxRestarts = 1
SPECIFICATION Spec
CHECK_DEADLOCK FALSE
INVARIANT IdleMeansSettled
INVARIANT FlagsFollowThreads
PROPERTY ScheduledJobsStart
