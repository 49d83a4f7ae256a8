SPECIFICATION LiveQueueSpec
CONSTANTS
  sharedWorker = sharedWorker
  Jobs = {j1, j2}
  Processes = {p1, p2}
  WorkerId <- MCSharedWorkerId
  NoProcess = NoProcess
  NoJob = NoJob
  MaxAttempts = 2
  FaultKinds = {"crash", "heartbeat", "database"}
  MaxFaults = 2
INVARIANTS
  QueueInvariant
  LeaseIsLatestClaim
  AttemptBudget
PROPERTIES
  OutcomeIsFinal
  ImplementsService
  EveryJobSettles
