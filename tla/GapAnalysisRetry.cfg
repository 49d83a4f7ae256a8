SPECIFICATION Spec
CONSTANTS
  alice = alice
  ben = ben
  quickPaid = quickPaid
  deepPaid = deepPaid
  onTrial = onTrial
  unlimited = unlimited
  None = None
  NoProcess = NoProcess
  Submissions = {s1}
  Deletions = {}
  Identities = {quickPaid}
  UserOf <- MCOneUser
  Processes = {p1, p2}
  WorkerId <- MCWorkerId
  MaxAttempts = 2
  FaultKinds = {}
  MaxFaults = 0
  Limit <- MCLimit
  Scope <- MCScope
  Units <- MCUnits
INVARIANTS
  RetryCanProceed
