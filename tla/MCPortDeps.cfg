SPECIFICATION DepsSpec
CONSTANTS
  None = None
  NotAnObject = NotAnObject
  NotAString = NotAString
  NpmIds <- MCNpmIds
  CrateIds <- MCCrateIds
  Elements <- MCElements
  Dotted <- MCDotted
  Repos <- MCRepos
  CargoLength = 3
  HeaderLength = 3
  ImportLength = 2
INVARIANTS
  NpmDependenciesAreTheDeclared
  CargoDependenciesAreTheDeclared
  GoDependenciesAreTheDeclared
  ExitTellsTheTruth
  VerdictIsAgreement
