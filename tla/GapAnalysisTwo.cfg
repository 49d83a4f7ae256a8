SPECIFICATION Spec
CONSTANTS
  alice = alice
  ben = ben
  quickPaid = quickPaid
  deepPaid = deepPaid
  onTrial = onTrial
  unlimited = unlimited
  None = None
  NoProcess = NoProcess
  Submissions = {s1, s2}
  Deletions = {d1}
  Identities = {quickPaid, deepPaid}
  UserOf <- MCTwoUsers
  Processes = {p1}
  WorkerId <- MCWorkerId
  MaxAttempts = 1
  FaultKinds = {"crash", "heartbeat", "database", "storage", "redis"}
  MaxFaults = 1
  Limit <- MCLimit
  Scope <- MCScope
  Units <- MCUnits
INVARIANTS
  OneLiveExecution
  HeldWithinLimit
  QuotaIsCovered
