SPECIFICATION BillingSpec
CONSTANTS
  starter = starter
  business = business
  Payments = {p1, p2}
  NoPayment = NoPayment
  Plans = {starter, business}
  CronPlans = {business}
  NoPlan = NoPlan
  Handlers = {web, job}
  Reconcilers = {job}
  Batch = 1
  Period = 1
  Grace = 1
  Empty = Empty
  MaxNow = 3
SYMMETRY MCSymmetry
INVARIANTS
  PrepaidIsPaid
  ServiceWasBought
  VerdictsAgree
  EarlyEndHasCause
CHECK_DEADLOCK FALSE
