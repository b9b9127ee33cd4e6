CONSTANTS
    a1 = a1
    a2 = a2
    b1 = b1
    v1 = v1
    x1 = x1
    Nothing = Nothing
    Admins = {a1, a2}
    Broadcasts = {b1}
    Releases = {v1}
    Assets = {x1}
    MaxEdits = 3
    MaxFailures = 1
SPECIFICATION WorkerSpec
SYMMETRY AdminSymmetry
CHECK_DEADLOCK FALSE
INVARIANT ImagesAreKept
PROPERTY ChangesAreOfWhatWasSeen
