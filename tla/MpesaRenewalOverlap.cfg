SPECIFICATION BillingSpec
CONSTANTS
  starter = starter
  business = business
  Payments = {p1, p2, p3}
  NoPayment = NoPayment
  Plans = {business}
  CronPlans = {}
  NoPlan = NoPlan
  Handlers = {web}
  Reconcilers = {}
  Batch = 1
  Period = 1
  Grace = 1
  Empty = Empty
  MaxNow = 0
SYMMETRY MCSymmetry
INVARIANTS
  RenewalAddsTime
CHECK_DEADLOCK FALSE
