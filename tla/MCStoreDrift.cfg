SPECIFICATION Spec
CONSTANTS
  Writers = {w1}
  Readers = {r1}
  Inputs = {"i1", "i2"}
  Traces = {"t1", "bad"}
  BadTraces = {"bad"}
  Receipts <- GateReceipts
  Drafts <- GateDrafts
  MaxRevision = 3
  MaxCrashes = 1
  MaxThefts = 0
  MaxFaults = 0
  Founder = init
  Foreigner = intruder
  NoBase = NoBase
  NoOwner = NoOwner
  NoPin = NoPin
  NoReceipt = NoReceipt
  Founding <- Now
INVARIANTS
  FingerprintsFrozen
PROPERTIES
  StaleMeansRace
  ImplementsLedger
