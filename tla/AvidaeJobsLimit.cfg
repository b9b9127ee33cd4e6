CONSTANTS
    j1 = j1
    j2 = j2
    c1 = c1
    s1 = s1
    Jobs = {j1, j2}
    Slots = {s1}
    Clients = {c1}
    Timed = {j1}
    MaxConcurrent = 1
    Paths <- FewPaths
    ScheduledPaths <- FewPaths
    FallbackPaths <- Fallback
    Overlap = TRUE
    MaxRequests = 2
    MaxRestarts = 0
SPECIFICATION Spec
CHECK_DEADLOCK FALSE
INVARIANT ConcurrencyIsLimited
