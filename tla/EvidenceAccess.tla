--------------------------- MODULE EvidenceAccess ---------------------------
(***************************************************************************)
(* Who may read retained evidence (manager/artifact_access.py and its      *)
(* router, enroll_analyst and require_analyst_permission of auth.py,       *)
(* artifact_delivery.py and the reads of routers/response_artifacts.py),   *)
(* composed with the ledger of AuditChain that records it.                 *)
(*                                                                         *)
(* A request carries a bearer token; it acts as the analyst whose current  *)
(* credential that is.  A request with an older token, or without the      *)
(* permission its route asks for first, changes nothing and is no step.    *)
(* Each action is one transaction, or a refused one that was rolled back   *)
(* and the one that records the refusal, with no await in between.         *)
(***************************************************************************)
EXTENDS AuditChain

CONSTANTS
  Analysts,
  Roles,         \* AnalystRole
  Permissions,   \* permissions_for: the permissions of a role
  Cases,         \* (host, alert) pairs that match
  CaseOf,        \* the case an artifact belongs to
  Grants,        \* grant ids uuid4 may mint
  Requests,      \* request ids
  MaxTokens,     \* bound on enrollments
  MaxRefusals    \* bound on the refusals that are recorded

Administrators == {"artifact_admin", "triage_admin"}

ASSUME AccessAssumption ==
  /\ Permissions \in [Roles -> SUBSET {"read", "manage", "decide"}]
  /\ CaseOf \in [Artifacts -> Cases]
  /\ {MaxTokens, MaxRefusals} \subseteq Nat

VARIABLES
  issued,       \* number of credentials issued so far
  credential,   \* analyst_credentials
  grant,        \* artifact_access_grants
  op,           \* artifact_access_operations, by (actor, request_id)
  receipt,      \* artifact_view_receipts, by (analyst, credential, request_id)
  compromised,  \* artifacts whose signing key was found compromised
  damaged       \* artifacts whose stored bytes or manifest no longer verify

accessVars == <<issued, credential, grant, op, receipt, compromised, damaged>>
vars == <<chainVars, accessVars>>

Tokens == 1..MaxTokens

GrantRow == [analyst: Analysts, token: Tokens, case: Cases, revoked: BOOLEAN]

\* The payload an operation is bound to, and the grant its result names.
Operation == [payload: (Analysts \X Cases) \cup Grants, grant: Grants]

Refusals ==
  {"artifact_access_refused", "artifact_access_denied", "retrieval_blocked_unsigned_legacy",
   "retrieval_blocked_compromised_key", "integrity_check_failed"}

\* Null stands for the absence of a row or of a reason, and the payload of a
\* grant names an analyst, that of a revocation a grant.
ASSUME NullAssumption ==
  /\ Null \notin Refusals
  /\ Null \notin GrantRow /\ Null \notin Operation
  /\ Null \notin [token: Tokens, role: Roles]
  /\ Grants \cap (Analysts \X Cases) = {}

TypeOK ==
  /\ issued \in 0..MaxTokens
  /\ credential \in [Analysts -> [token: Tokens, role: Roles] \cup {Null}]
  /\ grant \in [Grants -> GrantRow \cup {Null}]
  /\ op \in [Analysts \X Requests -> Operation \cup {Null}]
  /\ receipt \in [Analysts \X Tokens \X Requests -> Artifacts \cup {Null}]
  /\ compromised \subseteq Artifacts
  /\ damaged \subseteq Artifacts

Init ==
  /\ ChainInit
  /\ issued = 0
  /\ credential = [a \in Analysts |-> Null]
  /\ grant = [g \in Grants |-> Null]
  /\ op = [k \in Analysts \X Requests |-> Null]
  /\ receipt = [k \in Analysts \X Tokens \X Requests |-> Null]
  /\ compromised = {}
  /\ damaged = {}

----------------------------------------------------------------------------
\* require_analyst_permission for the holder of a's current token.
Holds(a, p) == credential[a] # Null /\ p \in Permissions[credential[a].role]

\* Mutant: a grant outlives the credential it was given to.
LiveForAnyone(a, c) ==
  {g \in Grants : /\ grant[g] # Null /\ ~grant[g].revoked
                  /\ grant[g].analyst = a /\ grant[g].case = c}

LiveFor(a, c) ==
  {g \in Grants : /\ grant[g] # Null /\ ~grant[g].revoked
                  /\ grant[g].analyst = a /\ grant[g].case = c
                  /\ credential[a] # Null /\ grant[g].token = credential[a].token}

\* can_read: the role is eligible and the live credential holds a grant.
CanRead(a, x) == Holds(a, "read") /\ LiveFor(a, CaseOf[x]) # {}

\* verified: what stops evidence from leaving, Null if nothing does.
Blocked(x, kind) ==
  IF x \in Unsigned THEN "retrieval_blocked_unsigned_legacy"
  ELSE IF x \in compromised /\ kind # "artifact_context_viewed"
         THEN "retrieval_blocked_compromised_key"
  ELSE IF x \in damaged THEN "integrity_check_failed"
  ELSE Null

Refusable ==
  Cardinality({n \in DOMAIN ledger : ledger[n].row.event \in Refusals}) < MaxRefusals

----------------------------------------------------------------------------
\* enroll_analyst: a new credential replaces the old one; an administrator
\* keeps the role.
EnrollAnalyst(a, role) ==
  /\ issued < MaxTokens
  /\ credential[a] # Null /\ credential[a].role \in Administrators =>
       role = credential[a].role
  /\ issued' = issued + 1
  /\ credential' = [credential EXCEPT ![a] = [token |-> issued + 1, role |-> role]]
  /\ LogSecurity(Entry("artifact_access_identity_enrolled", Null, <<a, role>>, Null, Null))
  /\ UNCHANGED <<grant, op, receipt, compromised, damaged>>

\* operate "grant": a live grant of the same scope is reused.
Grant(actor, q, a, c) ==
  /\ Holds(actor, "manage")
  /\ op[<<actor, q>>] = Null
  /\ Holds(a, "read")
  /\ \E g \in Grants :
       /\ IF LiveFor(a, c) # {} THEN g \in LiveFor(a, c) /\ grant' = grant
          ELSE /\ grant[g] = Null
               /\ grant' = [grant EXCEPT ![g] =
                    [analyst |-> a, token |-> credential[a].token, case |-> c,
                     revoked |-> FALSE]]
       /\ op' = [op EXCEPT ![<<actor, q>>] = [payload |-> <<a, c>>, grant |-> g]]
       /\ LogSecurity(Entry("artifact_access_granted", actor, <<a, c>>, g, q))
  /\ UNCHANGED <<issued, credential, receipt, compromised, damaged>>

\* operate "revoke": once, and for good.
Revoke(actor, q, g) ==
  /\ Holds(actor, "manage")
  /\ op[<<actor, q>>] = Null
  /\ grant[g] # Null
  /\ grant' = [grant EXCEPT ![g].revoked = TRUE]
  /\ op' = [op EXCEPT ![<<actor, q>>] = [payload |-> g, grant |-> g]]
  /\ LogSecurity(Entry("artifact_access_revoked", actor, g, g, q))
  /\ UNCHANGED <<issued, credential, receipt, compromised, damaged>>

\* change, refused: a request id bound to another payload, a recipient who is
\* no reader, or a grant that is not there.  (Exact retries are answered from
\* op.)
RefuseChange(actor, q) ==
  /\ Refusable
  /\ Holds(actor, "manage")
  /\ \/ \E a \in Analysts, c \in Cases :
          IF op[<<actor, q>>] = Null THEN ~Holds(a, "read")
                                     ELSE op[<<actor, q>>].payload # <<a, c>>
     \/ \E g \in Grants :
          IF op[<<actor, q>>] = Null THEN grant[g] = Null
                                     ELSE op[<<actor, q>>].payload # g
  /\ LogSecurity(Entry("artifact_access_refused", actor, Null, Null, q))
  /\ UNCHANGED accessVars

----------------------------------------------------------------------------
\* content, chunks and context: delivered with their custody event.
Deliver(a, x, kind) ==
  /\ CanRead(a, x)
  /\ Blocked(x, kind) = Null
  /\ LogCustody(x, Entry(kind, a, x, Null, Null))
  /\ UNCHANGED accessVars

\* Mutant: an acknowledgement that is on file is counted again.
AcknowledgeAgain(a, x, q) ==
  /\ CanRead(a, x)
  /\ Blocked(x, "artifact_viewed") = Null
  /\ receipt' = [receipt EXCEPT ![<<a, credential[a].token, q>>] = x]
  /\ LogCustody(x, Entry("artifact_viewed", a, x, Null, q))
  /\ UNCHANGED <<issued, credential, grant, op, compromised, damaged>>

\* viewed: an acknowledgement counts once per credential and request id.
Acknowledge(a, x, q) ==
  /\ CanRead(a, x)
  /\ Blocked(x, "artifact_viewed") = Null
  /\ receipt[<<a, credential[a].token, q>>] = Null
  /\ receipt' = [receipt EXCEPT ![<<a, credential[a].token, q>>] = x]
  /\ LogCustody(x, Entry("artifact_viewed", a, x, Null, q))
  /\ UNCHANGED <<issued, credential, grant, op, compromised, damaged>>

\* A read that is refused, with what audit_read_refusal records of it.
RefuseRead(a, x, kind) ==
  LET denied == Entry("artifact_access_denied", a, x, Null, Null)
      blocked == Entry(Blocked(x, kind), a, x, Null, Null)
  IN /\ Refusable
     /\ credential[a] # Null
     /\ \/ ~CanRead(a, x) /\ LogSecurity(denied)
        \/ CanRead(a, x) /\ Blocked(x, kind) = "retrieval_blocked_compromised_key"
                         /\ LogBoth(x, blocked, denied)
        \/ CanRead(a, x) /\ Blocked(x, kind) \notin {Null, "retrieval_blocked_compromised_key"}
                         /\ LogCustody(x, blocked)
     /\ UNCHANGED accessVars

----------------------------------------------------------------------------
\* The key that signed x is found compromised (_identity_operation).
MarkCompromised(actor, x) ==
  /\ Holds(actor, "decide")
  /\ x \notin compromised \cup Unsigned
  /\ compromised' = compromised \cup {x}
  /\ LogSecurity(Entry("artifact_key_compromised", actor, x, Null, Null))
  /\ UNCHANGED <<issued, credential, grant, op, receipt, damaged>>

\* A fault of the storage; evidence that never leaves is left alone.
Damage(x) ==
  /\ x \notin damaged \cup Unsigned
  /\ damaged' = damaged \cup {x}
  /\ UNCHANGED <<chainVars, issued, credential, grant, op, receipt, compromised>>

\* checkpoint of the router, under a request id of the caller's.
Checkpoint(a) ==
  /\ Holds(a, "decide")
  /\ \E k \in Keyholders : k[1] = a /\ SignCheckpoint(k)
  /\ UNCHANGED accessVars

Kinds == {"download_requested", "artifact_context_viewed"}

Next ==
  \/ \E a \in Analysts, r \in Roles : EnrollAnalyst(a, r)
  \/ \E actor, a \in Analysts, q \in Requests, c \in Cases :
       Grant(actor, q, a, c)
  \/ \E a \in Analysts, q \in Requests : RefuseChange(a, q)
  \/ \E a \in Analysts, q \in Requests, g \in Grants : Revoke(a, q, g)
  \/ \E a \in Analysts, x \in Artifacts, k \in Kinds : Deliver(a, x, k) \/ RefuseRead(a, x, k)
  \/ \E a \in Analysts, x \in Artifacts, q \in Requests : Acknowledge(a, x, q)
  \/ \E a \in Analysts, x \in Artifacts : MarkCompromised(a, x)
  \/ \E x \in Artifacts : Damage(x)
  \/ \E a \in Analysts : Checkpoint(a)

Spec == Init /\ [][Next]_vars

----------------------------------------------------------------------------
\* The ledger alone justifies every delivery of evidence: before it stands a
\* grant of that case to that analyst, given by an administrator, that was
\* not revoked and not voided by a new credential in between, and content
\* never leaves after its key was reported compromised.
DeliveriesAreJustified ==
  LET row(n) == ledger[n].row
      enrolled(a, n) == row(n).event = "artifact_access_identity_enrolled" /\ row(n).about[1] = a
      admin(a, m) == \E j \in 1..(m - 1) :
                       /\ enrolled(a, j) /\ "manage" \in Permissions[row(j).about[2]]
                       /\ \A k \in (j + 1)..(m - 1) : ~enrolled(a, k)
      justified(a, c, n) ==
        \E m \in 1..(n - 1) :
          /\ row(m).event = "artifact_access_granted" /\ row(m).about = <<a, c>>
          /\ admin(row(m).actor, m)
          /\ \A k \in (m + 1)..(n - 1) :
               /\ ~enrolled(a, k)
               /\ row(k).event = "artifact_access_revoked" => row(k).grant # row(m).grant
  IN \A n \in DOMAIN ledger :
       row(n).event \in Kinds \cup {"artifact_viewed"} =>
         /\ justified(row(n).actor, CaseOf[row(n).about], n)
         /\ row(n).event # "artifact_context_viewed" =>
              \A k \in 1..(n - 1) :
                row(k).event = "artifact_key_compromised" => row(k).about # row(n).about

\* A request has one effect however often it is sent: one audit row per
\* stored operation and per receipt, a revocation that was answered stays in
\* force, and no credential ever holds two live grants of one scope, which
\* the unique index would refuse.
OneEffectPerRequest ==
  LET rows(E, a, q) ==
        {n \in DOMAIN ledger : /\ ledger[n].row.event \in E
                               /\ ledger[n].row.actor = a /\ ledger[n].row.request = q}
  IN /\ TypeOK
     /\ \A a \in Analysts, q \in Requests :
          /\ Cardinality(rows({"artifact_access_granted", "artifact_access_revoked"}, a, q))
               = (IF op[a, q] = Null THEN 0 ELSE 1)
          /\ op[a, q] # Null /\ op[a, q].payload \in Grants => grant[op[a, q].payload].revoked
          /\ Cardinality(rows({"artifact_viewed"}, a, q))
               = Cardinality({t \in Tokens : receipt[a, t, q] # Null})
     /\ \A a \in Analysts, c \in Cases : Cardinality(LiveFor(a, c)) <= 1
=============================================================================
