SPECIFICATION Spec
CONSTANTS
  parent = parent  child = child  session = session
  None = None
  Ids = {parent}
  SessionOf <- MCSessionOf
  ParentOf <- MCParentOf
  Attributed = {}
  Keys = {k1}
  MaxCalls = 1
  MaxConcurrency = 1
  RunCalls = 1
  RunSlots = 1
  Evidence <- MCEvidence
  MaxLate = 1
  MaxTime = 2
  MaxFence = 1
INVARIANTS
  FactsInOrder
CHECK_DEADLOCK FALSE
