SPECIFICATION Spec
CONSTANTS
  parent = parent  child = child  session = session
  None = None
  Ids = {parent, child}
  SessionOf <- MCSessionOf
  ParentOf <- MCParentOf
  Attributed = {parent, child}
  Keys = {k1, k2}
  MaxCalls = 2
  MaxConcurrency = 2
  RunCalls = 2
  RunSlots = 1
  Evidence <- MCEvidence
  MaxLate = 1
  MaxTime = 2
  MaxFence = 2
INVARIANTS
  TypeOK HistoryReadsBack WorkStartsOnce SlotsNeedEvidence
PROPERTIES
  DecisionsStand
CHECK_DEADLOCK FALSE
CONSTRAINT MCLeaf
SYMMETRY MCSymmetry
