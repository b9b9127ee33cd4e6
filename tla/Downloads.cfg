CONSTANTS
    d1 = d1
    p1 = p1
    Ids = {d1, p1}
    Private = {p1}
    MaxUpdates = 1
    MaxClears = 1
    MaxReplaces = 1
    MaxFaults = 2
    Outcomes = {"scanning", "interrupted"}
SPECIFICATION Spec
CHECK_DEADLOCK FALSE
INVARIANT ListsAgree
INVARIANT ScansGoOn
INVARIANT QuietScreenIsTrue
PROPERTY StoreNeverGoesBack
CONSTRAINT Apart
