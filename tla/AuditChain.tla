----------------------------- MODULE AuditChain -----------------------------
(***************************************************************************)
(* The audit ledger of the Manager (manager/audit_chain.py, the custody    *)
(* events of manager/response_artifacts.py, routers/response_audit.py).    *)
(* A trigger on every source table copies each new row into one chained    *)
(* ledger in the transaction that wrote it; checkpoints sign the head.     *)
(*                                                                         *)
(* A hash of the chain stands for everything before it, so the hash of row *)
(* n is read as the rows 1 .. n, and two hashes agree when the rows do.    *)
(* Of the four sources the two that evidence access writes are kept.       *)
(***************************************************************************)
EXTENDS Integers, Sequences, FiniteSets

CONSTANTS
  Artifacts,    \* retained artifacts
  Unsigned,     \* those retained before signing and before the ledger
  Intake,       \* the order they were retained in
  Keyholders,   \* (actor, request_id) pairs of checkpoints
  MaxLedger,    \* bound on the rows of the ledger
  Null

ASSUME ChainAssumption ==
  /\ Unsigned \subseteq Artifacts
  /\ Intake \in Seq(Artifacts)
  /\ {Intake[i] : i \in DOMAIN Intake} = Artifacts
  /\ \A i, j \in DOMAIN Intake : Intake[i] = Intake[j] => i = j
  /\ MaxLedger \in Nat
  /\ Null \notin Artifacts

VARIABLES
  custody,     \* response_artifact_custody, by artifact, in order of sequence
  security,    \* response_security_audit
  ledger,      \* response_audit_ledger
  checkpoint   \* response_audit_checkpoints, by request_key

chainVars == <<custody, security, ledger, checkpoint>>

\* The ledger row of the source row e, whose source_id is (table, n).
Chained(table, n, e, legacy) == [source |-> table, id |-> n, row |-> e, legacy |-> legacy]

\* What an audit row tells: who did what, to whom or what, under which grant
\* and request.
Entry(event, actor, about, grant, request) ==
  [event |-> event, actor |-> actor, about |-> about, grant |-> grant, request |-> request]

Received == Entry("received", Null, Null, Null, Null)

\* install imports what was there before; later rows came through the trigger.
ChainInit ==
  /\ custody = [x \in Artifacts |-> <<Received>>]
  /\ security = <<>>
  /\ ledger = [i \in DOMAIN Intake |->
                 Chained(Intake[i], 1, Received, Intake[i] \in Unsigned)]
  /\ checkpoint = [k \in Keyholders |-> Null]

----------------------------------------------------------------------------
(* The writers: custody_event and record, with the triggers they fire.     *)

LogSecurity(e) ==
  /\ Len(ledger) < MaxLedger
  /\ security' = Append(security, e)
  /\ ledger' = Append(ledger, Chained(Null, Len(security) + 1, e, FALSE))
  /\ UNCHANGED <<custody, checkpoint>>

LogCustody(x, e) ==
  /\ Len(ledger) < MaxLedger
  /\ custody' = [custody EXCEPT ![x] = Append(@, e)]
  /\ ledger' = Append(ledger, Chained(x, Len(custody[x]) + 1, e, FALSE))
  /\ UNCHANGED <<security, checkpoint>>

\* Mutant: the trigger of the second source is missing.
LogBothOnce(x, e, s) ==
  /\ Len(ledger) + 1 < MaxLedger
  /\ custody' = [custody EXCEPT ![x] = Append(@, e)]
  /\ security' = Append(security, s)
  /\ ledger' = Append(ledger, Chained(x, Len(custody[x]) + 1, e, FALSE))
  /\ UNCHANGED checkpoint

\* A refusal that leaves both, in one transaction.
LogBoth(x, e, s) ==
  /\ Len(ledger) + 1 < MaxLedger
  /\ custody' = [custody EXCEPT ![x] = Append(@, e)]
  /\ security' = Append(security, s)
  /\ ledger' = ledger \o <<Chained(x, Len(custody[x]) + 1, e, FALSE),
                           Chained(Null, Len(security) + 1, s, FALSE)>>
  /\ UNCHANGED checkpoint

----------------------------------------------------------------------------
HashAt(n) == SubSeq(ledger, 1, n)

Source(r) == IF r.source = Null THEN security ELSE custody[r.source]

\* verify: every ledger row is the row its source holds, and no source row
\* is missing from the ledger.
Verifies ==
  /\ \A n \in DOMAIN ledger :
       LET r == ledger[n] IN r.id \in DOMAIN Source(r) /\ Source(r)[r.id] = r.row
  /\ \A t \in Artifacts \cup {Null} :
       Cardinality({n \in DOMAIN ledger : ledger[n].source = t}) =
         Len(IF t = Null THEN security ELSE custody[t])

LegacyCount == Cardinality({n \in DOMAIN ledger : ledger[n].legacy})

\* checkpoint under a new request_key, with a signing key configured; a retry
\* is answered from the stored document.
SignCheckpoint(k) ==
  /\ checkpoint[k] = Null
  /\ Verifies
  /\ checkpoint' = [checkpoint EXCEPT ![k] =
       [sequence |-> Len(ledger), head |-> HashAt(Len(ledger)), legacy |-> LegacyCount]]
  /\ UNCHANGED <<custody, security, ledger>>

\* verify_checkpoint, with a document that was exported.
CheckpointVerifies(c) ==
  /\ Verifies
  /\ c.sequence <= Len(ledger)
  /\ HashAt(c.sequence) = c.head

----------------------------------------------------------------------------
\* The ledger always verifies against its sources, and so does every
\* checkpoint ever signed, whichever writers ran since, in whatever order,
\* and whether their requests were granted or refused; what a checkpoint says
\* of unauthenticated history stays true of its rows.
ChainVerifies ==
  /\ Verifies
  /\ \A k \in Keyholders : checkpoint[k] # Null =>
       /\ CheckpointVerifies(checkpoint[k])
       /\ checkpoint[k].legacy = LegacyCount
=============================================================================
