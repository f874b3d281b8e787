SPECIFICATION Spec
CONSTANTS
  Null = Null
  x1 = x1
  x2 = x2
  c1 = c1
  Artifacts = {x1, x2}
  Unsigned = {x2}
  Intake <- InOrder
  Keyholders <- Keys
  MaxLedger = 8
  Analysts = {ada, bob}
  Roles = {"artifact_admin", "approver"}
  Permissions <- RolePermissions
  Cases = {c1}
  CaseOf <- OneCase
  Grants = {g1, g2}
  Requests = {q1, q2}
  MaxTokens = 3
  MaxRefusals = 1
SYMMETRY Symmetry
CHECK_DEADLOCK FALSE
INVARIANTS DeliveriesAreJustified OneEffectPerRequest ChainVerifies
