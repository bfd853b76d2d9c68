SPECIFICATION Spec
CONSTANTS
  Writers = {w1}
  Readers = {}
  Inputs = {"i1", "i2"}
  Traces = {"t1", "t2"}
  BadTraces = {}
  Receipts <- GateReceipts
  Drafts <- GateDrafts
  MaxRevision = 3
  MaxCrashes = 0
  MaxThefts = 0
  MaxFaults = 0
  Founder = init
  Foreigner = intruder
  NoBase = NoBase
  NoOwner = NoOwner
  NoPin = NoPin
  NoReceipt = NoReceipt
  Founding <- Now
PROPERTIES
  DocumentedCandidateAdmitted
