SPECIFICATION FairSpec
CONSTANTS
  Null = Null
  Bad = Bad
  a1 = a1
  a2 = a2
  a3 = a3
  kill = kill
  info = info
  q1 = q1
  Responses = {r1, r2}
  Alerts = {a1}
  Keys = {kill, info}
  AutoSafe = {info}
  Recommends <- OneRecommendation
  RecordOnly = {}
  Analysts = {ana}
  Requests <- SomeRequests
  Campaigns = {c1}
  CampaignItems <- SomeCampaigns
  SeparateApprover = FALSE
  ActionTTL = 1
  CommandTTL = 1
  MaxTime = 2
CHECK_DEADLOCK FALSE
INVARIANTS RetriesFindTheirRow
PROPERTIES EventuallyDecided
