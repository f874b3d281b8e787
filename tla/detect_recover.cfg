SPECIFICATION FairSpec
CONSTANTS
  Null = Null
  e1 = e1
  e2 = e2
  e3 = e3
  e4 = e4
  a1 = a1
  a2 = a2
  Events = {e1, e2}
  Alerts = {a1}
  QueueOf <- PairQueues
  Stamp <- PairStamps
  Ident <- PairReversed
  AlertOf <- PairAlerts
  Collections = {}
  ClaimLimit = 2
  Lease = 1
  MaxTime = 2
  MaxCrashes = 2
CHECK_DEADLOCK FALSE
PROPERTIES EventuallySettled
