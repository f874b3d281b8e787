SPECIFICATION Spec
CONSTANTS
  Null = Null
  e1 = e1
  e2 = e2
  e3 = e3
  e4 = e4
  a1 = a1
  a2 = a2
  Events = {e1, e2, e3, e4}
  Alerts = {a1, a2}
  QueueOf <- MixedQueues
  Stamp <- MixedStamps
  Ident <- Reversed
  AlertOf <- MixedAlerts
  Collections = {"COLLECT_FILE"}
  ClaimLimit = 2
  Lease = 1
  MaxTime = 2
  MaxCrashes = 1
CHECK_DEADLOCK FALSE
INVARIANTS RespondOnce AlertsAreJustified
PROPERTIES TwinsInOrder SettledOnce FairShare
