SPECIFICATION Spec
CONSTANTS
  ledger = ledger
  None = None
  Nodes = {n1}
  MaxAttempts = 2
  RetryOn = {"transport", "rejected", "descriptor"}
  Ledgers = {ledger}
  Charged <- MCCharged
  calls = 2
  slots = 2
  MaxCalls <- MCMaxCalls
  MaxConcurrency <- MCMaxConcurrency
  MaxFence = 3
INVARIANTS TypeOK NoBlindReplay OutcomesAreTrue
PROPERTIES RecordsStand
CHECK_DEADLOCK FALSE
