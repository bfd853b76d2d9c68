SPECIFICATION Spec
SYMMETRY StageSymmetry
CONSTANTS
  Stagers = {s1, s2}
  Stranger = Stranger
  Nothing = Nothing
  LeafCount = 2
  Contents = {x, y}
  Missing = Missing
  Checkouts <- Branches
  MaxEdits = 3
  MaxCrashes = 1
  MaxFaults = 1
  MaxThefts = 1
  MaxEvents = 4
INVARIANTS
  TypeOK
  PublishedIsSnapshot
  StageExitHonest
  StageLeavesNothing
PROPERTIES
  ImplementsPublication
