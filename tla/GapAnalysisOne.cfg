SPECIFICATION Spec
CONSTANTS
  alice = alice
  ben = ben
  quickPaid = quickPaid
  deepPaid = deepPaid
  onTrial = onTrial
  unlimited = unlimited
  None = None
  NoProcess = NoProcess
  Submissions = {s1}
  Deletions = {d1}
  Identities = {quickPaid, onTrial}
  UserOf <- MCOneUser
  Processes = {p1, p2}
  WorkerId <- MCWorkerId
  MaxAttempts = 2
  FaultKinds = {"crash", "heartbeat", "database", "storage", "redis"}
  MaxFaults = 2
  Limit <- MCLimit
  Scope <- MCScope
  Units <- MCUnits
SYMMETRY MCProcesses
INVARIANTS
  AnalysisInvariant
  ResultIsAtomic
  WorkerRefundsOnlyFailures
PROPERTIES
  NoResurrection
  OnlyLatestClaimWrites
