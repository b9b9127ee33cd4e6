CONSTANTS
    a1 = a1
    a2 = a2
    None = None
    Actors = {a1, a2}
    MaxVersion = 2
    MaxOpen = 2
    MaxUploads = 2
    MaxFaults = 2
SPECIFICATION FairSpec
CHECK_DEADLOCK FALSE
INVARIANT ObjectsAreThere
INVARIANT StatusesAgree
INVARIANT OnlySubmittedIsPublished
PROPERTY VersionsOnlyRise
PROPERTY ReviewsEnd
