SPECIFICATION Spec
CONSTANTS
  Installers = {p1, p2}
  Someone = Someone
  Nothing = Nothing
  Manifest <- MCManifest
  Cli = "cli"
  Dirs <- MCDirs
  Root = "root"
  Path <- MCPath
  Up <- MCUp
  Versions = {"v1", "v2"}
  Foreign = "foreign"
  Homes <- MCHomes
  MaxTroubles = 1
INVARIANTS
  TypeOK
  InstalledStays
  LeavesNothing
PROPERTIES
  WritesUnderLocks
  OthersFilesKept
CHECK_DEADLOCK FALSE
