-------------------------- MODULE MCEvidenceAccess --------------------------
(* A small instance of EvidenceAccess for TLC: an administrator's and an   *)
(* analyst's identity, one signed and one unsigned artifact of a case.     *)
EXTENDS EvidenceAccess, TLC

CONSTANTS x1, x2, c1

RolePermissions ==
  "artifact_admin" :> {"manage", "read"} @@ "approver" :> {"read", "decide"}
OneCase == x1 :> c1 @@ x2 :> c1
InOrder == <<x2, x1>>
Keys == Analysts \X {"monthly"}

Symmetry == Permutations(Grants) \cup Permutations(Analysts) \cup Permutations(Requests)
=============================================================================
