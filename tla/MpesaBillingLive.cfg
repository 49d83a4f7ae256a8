SPECIFICATION LiveBillingSpec
CONSTANTS
  starter = starter
  business = business
  Payments = {p1, p2}
  NoPayment = NoPayment
  Plans = {business}
  CronPlans = {business}
  NoPlan = NoPlan
  Handlers = {job}
  Reconcilers = {job}
  Batch = 1
  Period = 1
  Grace = 0
  Empty = Empty
  MaxNow = 2
PROPERTIES
  PaidIsRecorded
  LapsedServiceEnds
CHECK_DEADLOCK FALSE
