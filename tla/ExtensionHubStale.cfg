CONSTANTS
    a1 = a1
    a2 = a2
    None = None
    Actors = {a1, a2}
    MaxVersion = 2
    MaxOpen = 2
    MaxUploads = 2
    MaxFaults = 2
SPECIFICATION Spec
CHECK_DEADLOCK FALSE
INVARIANT PublishedAsStaged
SYMMETRY ActorSymmetry
