SPECIFICATION Spec
CONSTANTS
  Callers = {c1}
  Stranger = Stranger
  NoMission = NoMission
  MaxRevision = 2
  MaxCrashes = 0
  MaxFaults = 0
  MaxThefts = 0
PROPERTIES
  InterruptExits130
