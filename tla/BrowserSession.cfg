SPECIFICATION SessionSpec
CONSTANTS
    p1 = p1
    p2 = p2
    setup = setup
    Pages = {p1, setup}
    NewTabPage = p1
    OnboardingPage = setup
    Addresses = {p1}
    Lenders = {2}
    MaxTabs = 4
    MaxSpaces = 3
    MaxGroups = 3
    ClosedLimit = 1
    SnapshotLimit = 1
INVARIANT SessionIsConsistent
PROPERTY KeepsShowing
PROPERTY RestartKeepsSession
