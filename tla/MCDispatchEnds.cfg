SPECIFICATION FairSpec
CONSTANTS
  ledger = ledger
  None = None
  Nodes = {n1}
  MaxAttempts = 2
  RetryOn = {"transport", "rejected", "descriptor"}
  Ledgers = {ledger}
  Charged <- MCCharged
  calls = 2
  slots = 1
  MaxCalls <- MCMaxCalls
  MaxConcurrency <- MCMaxConcurrency
  MaxFence = 2
PROPERTIES RunEnds
CHECK_DEADLOCK FALSE
