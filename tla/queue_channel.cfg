SPECIFICATION FairSpec
CONSTANTS
  Null = Null
  Commands = {c1, c2}
  Agents = {a1}
  ResultIds = {}
  Collect = {"COLLECT_FILE"}
  Disrupt = {"KILL_PROCESS"}
  Outcomes = {"succeeded"}
  Reports <- ChannelReports
  Signers = {"off", "ready", "unavailable"}
  Lifetimes = {2}
  Offsets = {0}
  CommandTTL = 1
  SigningLimit = 1
  ProfileTTL = 1
  BatchLimit = 1
  MaxTime = 2
INVARIANTS BlockedWorkDoesNotStarve
PROPERTIES SignatureDemandIsKept EventuallyClosed
CHECK_DEADLOCK FALSE
