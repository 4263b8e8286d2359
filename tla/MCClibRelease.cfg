SPECIFICATION FairSpec
CONSTANTS
    Runs = {r1, r2}
    NumVersions = 2
INVARIANTS
    PublishedHasManifest
    NoStraysLeft
PROPERTIES
    BackfillIsNeverLatest
    DraftsAreFinished
CHECK_DEADLOCK FALSE
