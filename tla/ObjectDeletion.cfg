SPECIFICATION LiveOutboxSpec
CONSTANTS
  sharedWorker = sharedWorker
  document = document
  staleReport = staleReport
  Objects = {document, staleReport}
  Owned <- MCOwned
  Workers = {w1, w2}
  WorkerId <- MCSharedWorkerId
  NoWorker = NoWorker
  MaxAttempts = 2
  MaxRequests = 2
  FaultKinds = {"crash", "stall", "database", "storage"}
  MaxFaults = 3
CHECK_DEADLOCK FALSE
INVARIANTS
  CompletedMeansGone
  OnlyDeletedObjectsVanish
  NoEarlyEscalation
PROPERTIES
  ImplementsDeletion
