SPECIFICATION Spec
CONSTANTS
  Runs = {r1, r2}
  MaxCommits = 2
  MaxVersion = 1
  Versions <- MCVersions
  Orchestrated = FALSE
  ByHand = FALSE
SYMMETRY Symmetry
INVARIANTS
  TagsNameTheRelease
CHECK_DEADLOCK FALSE
