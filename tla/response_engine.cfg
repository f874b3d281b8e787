SPECIFICATION Spec
CONSTANTS
  Null = Null
  Bad = Bad
  a1 = a1
  a2 = a2
  a3 = a3
  kill = kill
  info = info
  q1 = q1
  Responses = {r1, r2, r3}
  Alerts = {a1, a2, a3}
  Keys = {kill, info}
  AutoSafe = {info}
  Recommends <- MixedRecommendations
  RecordOnly = {a2}
  Analysts = {ana, bob}
  Requests = {}
  Campaigns = {}
  CampaignItems <- NoCampaigns
  SeparateApprover = TRUE
  ActionTTL = 1
  CommandTTL = 1
  MaxTime = 1
SYMMETRY Interchangeable
CHECK_DEADLOCK FALSE
INVARIANTS NeverStacked OneDecision Approved
PROPERTIES DecisionsAreFinal
