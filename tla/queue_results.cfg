SPECIFICATION Spec
CONSTANTS
  Null = Null
  Commands = {c1, c2}
  Agents = {a1}
  ResultIds = {r1, r2}
  Collect = {"COLLECT_FILE"}
  Disrupt = {"KILL_PROCESS"}
  Outcomes = {"succeeded", "failed"}
  Reports <- NoReports
  Signers = {"off"}
  Lifetimes = {1}
  Offsets = {0}
  CommandTTL = 1
  SigningLimit = 2
  ProfileTTL = 1
  BatchLimit = 2
  MaxTime = 1
SYMMETRY Symmetry
CHECK_DEADLOCK FALSE
INVARIANTS OneOutcome DeliveryHistory CollectionGrantIsLive
PROPERTIES LifecycleSpec RevokedAgentIsInert
