SPECIFICATION LiveUsageSpec
CONSTANTS
  paid = paid
  trial = trial
  free = free
  Callers = {worker, handler, operator}
  Operators = {operator}
  Keys = {paid, trial, free}
  NoKey = NoKey
  Scope <- MCScope
  Units <- MCUnits
  FaultKinds = {"crash", "redis", "database"}
  MaxFaults = 2
INVARIANTS
  RefundedAtMostOnce
  ReleasedMeansRefunded
  CounterIsExact
PROPERTIES
  TrialSettlementIsFinal
  PendingIsReconciledOrStranded
