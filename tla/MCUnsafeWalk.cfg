SPECIFICATION FairSpec
CONSTANTS
    c1 = c1
    c2 = c2
    c3 = c3
    Cells = {c1, c2, c3}
    Values <- MCValues
INVARIANTS
    PathIsTheStack
    WalkClears
    ValueIffSaidTruly
    ReasonIsTheFirst
PROPERTY WalkEnds
CHECK_DEADLOCK FALSE
