SPECIFICATION Spec
CONSTANTS
  Runs = {r1, r2}
  MaxCommits = 3
  MaxVersion = 2
  Versions <- MCVersions
  Orchestrated = TRUE
  ByHand = TRUE
SYMMETRY Symmetry
INVARIANTS
  TagsNameOneCommit
  TagsNameTheirVersion
  GoTagsAreOnNpm
  CratesAreTheTags
CHECK_DEADLOCK FALSE
