SPECIFICATION LiveSpec
CONSTANTS
  alice = alice
  ben = ben
  quickPaid = quickPaid
  deepPaid = deepPaid
  onTrial = onTrial
  unlimited = unlimited
  None = None
  NoProcess = NoProcess
  Submissions = {s1}
  Deletions = {}
  Identities = {quickPaid, onTrial, unlimited}
  UserOf <- MCOneUser
  Processes = {p1, p2}
  WorkerId <- MCWorkerId
  MaxAttempts = 2
  FaultKinds = {"crash", "heartbeat", "database", "storage", "redis"}
  MaxFaults = 1
  Limit <- MCLimit
  Scope <- MCScope
  Units <- MCUnits
PROPERTIES
  DeadLetterIsRefunded
  EveryAnalysisConcludes
