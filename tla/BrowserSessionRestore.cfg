SPECIFICATION SessionSpec
CONSTANTS
    p1 = p1
    p2 = p2
    setup = setup
    Pages = {p1, p2, setup}
    NewTabPage = p1
    OnboardingPage = setup
    Addresses = {p1, p2}
    Lenders = {2}
    MaxTabs = 4
    MaxSpaces = 2
    MaxGroups = 2
    ClosedLimit = 1
    SnapshotLimit = 2
PROPERTY RestoreIsCaptured
