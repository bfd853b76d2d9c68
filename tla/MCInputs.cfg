SPECIFICATION Spec
CONSTANTS
  Chain <- ChainValue
  Overlay <- OverlayValue
  Recipes <- RecipesValue
  Targets <- TargetsValue
  NoDigest = NoDigest
  MaxAttempts = 3
  MaxTime = 4
  MaxRevision = 2
  MaxEdits = 1
INVARIANTS
  TypeOK
  NoFallThrough
  SelfTargetStuck
  ShortLeadWaitedOut
PROPERTIES
  OwnWritesUnseen
  CallEnds
