SPECIFICATION Spec
CONSTANTS
  Null = Null
  None = None
  Absent = Absent
  b1 = b1
  d1 = d1
  d2 = d2
  ruleA = ruleA
  ruleB = ruleB
  inc = inc
  i1 = i1
  i2 = i2
  e1 = e1
  e2 = e2
  r1 = r1
  r2 = r2
  r3 = r3
  r4 = r4
  r5 = r5
  r6 = r6
  Agents = {a1, a2}
  Streams = {b1}
  MaxSeq = 5
  Digests = {d1, d2}
  Records <- SensorRecords
  Batches <- SensorBatches
  MaxRanges = 1
  RuleAlerts = {ruleA, ruleB}
  Incidents = {inc}
  Revisions = {0, 1, 2, 3}
  Reports <- IncidentReports
  Statuses = {"open", "resolved"}
  MaxTrail = 5
  Ids = {r1, r2, r3, r4, r5, r6}
  NameOf <- WindowsNames
  Body <- WindowsBody
  Timed = {r1, r2}
  Packets <- WindowsPackets
  Manifest <- WindowsManifest
  Installs = {i1, i2}
  Epochs = {e1, e2}
  MaxGen = 2
  MaxRecSeq = 3
  Categories = {"health"}
  Nonces = {n1, n2}
  Quantum = 2
  Guard = 2
  ChallengeTTL = 2
  MaxSends = 1
  MaxBoots = 2
  MaxRestarts = 1
  MaxClock = 3
SYMMETRY Symmetry
CHECK_DEADLOCK FALSE
INVARIANTS AccountingExact DetectedOnce IncidentsAddUp AgeNeverUnderstated ProjectionIsHead
PROPERTIES EvidenceStays ProofsAreKept
