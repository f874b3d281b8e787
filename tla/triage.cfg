SPECIFICATION Spec
CONSTANTS
  Null = Null
  a1 = a1
  a2 = a2
  r1 = r1
  r2 = r2
  h1 = h1
  proc = proc
  net = net
  Alerts = {a1, a2}
  Rules = {r1, r2}
  Hosts = {h1}
  RuleOf <- TwoRules
  HostOf <- OneHost
  Actions <- TwoActions
  Policies <- SomePolicies
  Labels = {"standard"}
  q1 = q1
  q2 = q2
  q3 = q3
  Requests = {q1, q2, q3}
  ActionTTL = 1
  MaxTime = 1
SYMMETRY Symmetry
CHECK_DEADLOCK FALSE
INVARIANTS OneInFlight PlansHold
PROPERTIES CancelledRunIsQuiet PermissionIsFresh
