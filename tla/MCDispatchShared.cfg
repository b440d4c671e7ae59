SPECIFICATION Spec
CONSTANTS
  ledger = ledger
  None = None
  Nodes = {n1, n2}
  MaxAttempts = 1
  RetryOn = {"transport", "rejected", "descriptor"}
  Ledgers = {ledger}
  Charged <- MCCharged
  calls = 2
  slots = 1
  MaxCalls <- MCMaxCalls
  MaxConcurrency <- MCMaxConcurrency
  MaxFence = 2
INVARIANTS LedgersAddUp
CHECK_DEADLOCK FALSE
SYMMETRY MCSymmetry
