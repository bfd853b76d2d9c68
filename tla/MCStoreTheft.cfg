SPECIFICATION Spec
CONSTANTS
  Writers = {w1, w2}
  Readers = {}
  Inputs = {"i1"}
  Traces = {"t1"}
  BadTraces = {}
  Receipts <- ShortReceipts
  Drafts <- ShortDrafts
  MaxRevision = 3
  MaxCrashes = 0
  MaxThefts = 2
  MaxFaults = 0
  Founder = init
  Foreigner = intruder
  NoBase = NoBase
  NoOwner = NoOwner
  NoPin = NoPin
  NoReceipt = NoReceipt
  Founding <- Now
INVARIANTS
  RobbedNeverCommits
  PinnedCommitFollowsBase
SYMMETRY WriterSymmetry
