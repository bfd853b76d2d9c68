SPECIFICATION Spec
CONSTANTS
  Callers = {c1, c2}
  Stranger = Stranger
  NoMission = NoMission
  MaxRevision = 2
  MaxCrashes = 1
  MaxFaults = 1
  MaxThefts = 1
INVARIANTS
  TypeOK
  PublishedWhole
  ExitTellsWhoPublished
  NothingLeftBehind
  OneBuilder
PROPERTIES
  ImplementsPublication
  InitLockFreed
