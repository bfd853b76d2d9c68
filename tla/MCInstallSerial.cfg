SPECIFICATION Spec
CONSTANTS
  Installers = {p1, p2}
  Someone = Someone
  Nothing = Nothing
  Manifest <- MCManifest
  Cli = "cli"
  Dirs <- MCDirs
  Root = "root"
  Path <- MCPath
  Up <- MCUp
  Versions = {"v1"}
  Foreign = "foreign"
  Homes <- MCHomes
  MaxTroubles = 0
INVARIANTS
  RollbackFailsOnlyOnTrouble
CHECK_DEADLOCK FALSE
