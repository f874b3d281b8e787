SPECIFICATION Spec
CONSTANTS
  Null = Null
  a1 = a1
  a2 = a2
  h1 = h1
  k1 = k1
  k2 = k2
  c1 = c1
  x1 = x1
  x2 = x2
  x3 = x3
  Agents = {a1, a2}
  Hosts = {h1}
  Keys = {k1, k2}
  Nonces = {n1, n2, n3}
  Requests = {r1, r2}
  Decisions = {d1, d2}
  NonceTTL = 1
  MaxTime = 2
  Artifacts = {x1, x2, x3}
  Commands = {c1}
  Manifests <- Some
  Target <- OneTarget
  Legacy <- Unsigned
  Lifetime = 2
  MaxAgentOpen = 2
  MaxOpen = 2
  MaxCount = 3
  MaxBytes = 4
  MaxCommandCount = 3
  MaxCommandBytes = 3
SYMMETRY Interchangeable
CHECK_DEADLOCK FALSE
INVARIANTS IdentitiesSound UsageExact ReservationsSuffice NoHalfCommit KeyVouchedInTime
