SPECIFICATION Spec
CONSTANTS
  h1 = h1
  h2 = h2
  NoBase = NoBase
  Shas <- MCShas
  Fps <- MCFps
  Receipts <- MCReceipts
  Genesis <- MCGenesis
  MaxRevision = 8
INVARIANTS
  TypeOK
  GateOrder
  NoPhaseSkipped
CHECK_DEADLOCK FALSE
