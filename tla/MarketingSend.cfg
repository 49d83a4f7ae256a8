SPECIFICATION SendSpec
CONSTANTS
  ada = ada
  ben = ben
  Contacts = {ada, ben}
  Leavers = {ada}
  Executions = {e1, e2}
  CronRuns = {d1, d2}
  AsyncThreshold = 1
  BatchSize = 1
  Nobody = Nobody
  NoToken = NoToken
  FaultKinds = {"crash", "stall", "day", "mail", "database"}
  MaxFaults = 1
SYMMETRY MCSymmetry
CHECK_DEADLOCK FALSE
INVARIANTS
  OncePerExecution
  TwiceNeedsRace
  NothingIsForgotten
  OptOutIsRespected
