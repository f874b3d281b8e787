-------------------------- MODULE ArtifactTransfers --------------------------
(***************************************************************************)
(* Resumable uploads of signed artifacts and their retention               *)
(* (manager/artifact_transfers.py, routers/artifact_transfers.py, the      *)
(* retention half of manager/response_artifacts.py, upload_signed of       *)
(* routers/response_artifacts.py and the triggers of migrations 26 and     *)
(* 29), composed with the endpoint identities of ArtifactKeys.             *)
(*                                                                         *)
(* Content is measured in chunks; a chunk is TRUE when its bytes are the   *)
(* ones the signed manifest's SHA-256 covers.                              *)
(***************************************************************************)
EXTENDS ArtifactKeys, Sequences, FiniteSetsExt

CONSTANTS
  Artifacts,      \* artifact ids
  Commands,       \* collection commands that were delivered
  Manifests,      \* the signed manifests endpoints produce
  Target,         \* Target[c] = [agent, host] a command was queued for
  Legacy,         \* unsigned rows retained before signing existed
  Lifetime,       \* SESSION_LIFETIME
  MaxAgentOpen,   \* MAX_AGENT_OPEN
  MaxOpen,        \* MAX_OPEN
  MaxCount,       \* MAX_GLOBAL_COUNT
  MaxBytes,       \* storage_quota(), which the process reads from its environment
  MaxCommandCount,
  MaxCommandBytes

Manifest ==
  [artifact: Artifacts, agent: Agents, host: Hosts, key: Keys,
   command: Commands, size: Nat \ {0}]

\* response_artifacts joined with artifact_manifest_attestations; manifest is
\* Null for unsigned evidence.
RetainedRow ==
  [command: Commands, size: Nat \ {0}, manifest: Manifests \cup {Null},
   verified: Stamp, content: Seq(BOOLEAN)]

ASSUME TransfersAssumption ==
  /\ IsFiniteSet(Artifacts)
  /\ Manifests \subseteq Manifest
  /\ Null \notin Manifests
  /\ Target \in [Commands -> [agent: Agents, host: Hosts]]
  /\ DOMAIN Legacy \subseteq Artifacts
  /\ \A x \in DOMAIN Legacy :
       Legacy[x] \in RetainedRow /\ Legacy[x].manifest = Null /\ Legacy[x].verified = Null
  /\ {Lifetime, MaxAgentOpen, MaxOpen, MaxCount, MaxBytes,
      MaxCommandCount, MaxCommandBytes} \subseteq Nat

VARIABLES
  session,    \* response_artifact_transfers with their response_artifact_chunks
  retained,   \* response_artifacts and their attestations
  usage       \* response_artifact_transfer_usage and response_artifact_usage

transferVars == <<session, retained, usage>>
vars == <<keyVars, transferVars>>

SessionRow ==
  [manifest: Manifests, state: {"OPEN", "COMPLETE", "EXPIRED"},
   chunks: Seq(BOOLEAN), admitted: Time, expires: Nat]

\* No row is the missing row.
ASSUME SessionsAssumption == Null \notin SessionRow /\ Null \notin RetainedRow

UsageRow ==
  [open: Int, reserved: Int, sessions: Nat, artifacts: Nat, bytes: Nat]

TypeOK ==
  /\ KeysTypeOK
  /\ session \in [Artifacts -> SessionRow \cup {Null}]
  /\ retained \in [Artifacts -> RetainedRow \cup {Null}]
  /\ usage \in UsageRow

----------------------------------------------------------------------------
Stored == {x \in Artifacts : retained[x] # Null}

InState(s) == {x \in Artifacts : session[x] # Null /\ session[x].state = s}

Open == InState("OPEN")

\* SUM(content_bytes) over sessions and over retained rows.
ReservedBytes(S) == MapThenSumSet(LAMBDA x : session[x].manifest.size, S)
StoredBytes(S) == MapThenSumSet(LAMBDA x : retained[x].size, S)

OpenOf(c) == {x \in Open : session[x].manifest.command = c}
StoredOf(c) == {x \in Stored : retained[x].command = c}

Init ==
  /\ KeysInit
  /\ session = [x \in Artifacts |-> Null]
  /\ retained = [x \in Artifacts |-> IF x \in DOMAIN Legacy THEN Legacy[x] ELSE Null]
  /\ usage = [open |-> 0, reserved |-> 0, sessions |-> 0,
              artifacts |-> Cardinality(DOMAIN Legacy),
              bytes |-> MapThenSumSet(LAMBDA x : Legacy[x].size, DOMAIN Legacy)]

----------------------------------------------------------------------------
\* validate_binding: the agent owns the delivered command, and the manifest's
\* host is the one it is enrolled for and the one the command was aimed at.
Bound(m) ==
  /\ Active(m.agent)
  /\ Target[m.command] = [agent |-> m.agent, host |-> m.host]
  /\ agent[m.agent].host = m.host

\* Mutant: any key that is not compromised signs.
VerifiedUnretired(m, admitted) ==
  Active(m.agent) /\ key[m.agent][m.key] # Null /\ key[m.agent][m.key].compromised = Null

\* verify_manifest: a compromised key never signs; a retired key signs only
\* what was admitted no later than its retirement.
Verified(m, admitted) ==
  LET k == key[m.agent][m.key] IN
    /\ Active(m.agent)
    /\ k # Null
    /\ k.compromised = Null
    /\ k.retired # Null => admitted # Null /\ admitted <= k.retired

----------------------------------------------------------------------------
(* The tables after the writes of one transaction, threaded through the    *)
(* calls an operation makes: S and U are session and usage so far.         *)

Overdue == {x \in Open : session[x].expires <= now}

\* expire: every overdue session gives its reservation back and loses its
\* partial chunks.
Swept ==
  [x \in Artifacts |->
     IF x \in Overdue THEN [session[x] EXCEPT !.state = "EXPIRED", !.chunks = <<>>]
                      ELSE session[x]]

\* Mutant: the bytes of a session that closes stay reserved.
ReleasedCount(X) == [usage EXCEPT !.open = @ - Cardinality(X)]

\* The trigger artifact_transfer_usage_state, for the sessions in X that close.
Released(X) ==
  [usage EXCEPT !.open = @ - Cardinality(X), !.reserved = @ - ReservedBytes(X)]

\* Mutant: the quotas of retention forget what open sessions reserved.
RetainableNow(m, u, O) ==
  /\ Cardinality(StoredOf(m.command)) < MaxCommandCount
  /\ StoredBytes(StoredOf(m.command)) + m.size <= MaxCommandBytes
  /\ u.artifacts < MaxCount
  /\ u.bytes + m.size <= MaxBytes

\* Retention quotas of `retain`, with the usage u and the open sessions O the
\* transaction sees.
Retainable(m, u, O) ==
  LET mine == {x \in O : session[x].manifest.command = m.command} IN
    /\ Cardinality(StoredOf(m.command)) + Cardinality(mine) < MaxCommandCount
    /\ StoredBytes(StoredOf(m.command)) + ReservedBytes(mine) + m.size <= MaxCommandBytes
    /\ u.artifacts + u.open < MaxCount
    /\ u.bytes + u.reserved + m.size <= MaxBytes

\* Budgets of _reserve for an admission, after the sweep.
Reservable(m, u, O, existing) ==
  /\ Cardinality({x \in O : session[x].manifest.agent = m.agent}) < MaxAgentOpen
  /\ u.open < MaxOpen
  /\ existing \/ u.sessions < MaxCount
  /\ Retainable(m, u, O)

\* retain_signed for evidence that is not on file: one row, one attestation.
Retain(m, content, u) ==
  /\ retained' = [retained EXCEPT ![m.artifact] =
       [command |-> m.command, size |-> m.size, manifest |-> m,
        verified |-> now, content |-> content]]
  /\ usage' = [u EXCEPT !.artifacts = @ + 1, !.bytes = @ + m.size]

----------------------------------------------------------------------------
\* admit, for a manifest that gets a session: the first one of the artifact,
\* or the one that expired.  An open session of the same manifest is
\* answered with its progress, evidence on file with `complete`; both only
\* sweep (Answer).
Admit(m) ==
  LET x == m.artifact
      u == Released(Overdue)
      prior == session[x]
  IN /\ Bound(m)
     /\ prior # Null => prior.manifest = m /\ Swept[x].state = "EXPIRED"
     /\ retained[x] = Null
     /\ Verified(m, Null)
     /\ Reservable(m, u, Open \ Overdue, prior # Null)
     /\ session' = [Swept EXCEPT ![x] =
          [manifest |-> m, state |-> "OPEN", chunks |-> <<>>,
           admitted |-> now, expires |-> now + Lifetime]]
     /\ usage' = [u EXCEPT !.open = @ + 1, !.reserved = @ + m.size,
                           !.sessions = @ + (IF prior = Null THEN 1 ELSE 0)]
     /\ UNCHANGED <<keyVars, retained>>

\* A request that stores nothing: an admission that is a retry, or any
\* transfer request that is refused, whose transaction is rolled back and
\* followed by one that sweeps (routers' operation).  Its agent was active
\* when the request came in, and may be revoked by now.
Answer ==
  /\ \E a \in Agents : agent[a] # Null
  /\ Overdue # {}
  /\ session' = Swept
  /\ usage' = Released(Overdue)
  /\ UNCHANGED <<keyVars, retained>>

\* _load: the session may be used by its owner, under its key, in time.
Loaded(x) ==
  /\ session[x] # Null
  /\ Bound(session[x].manifest)
  /\ Verified(session[x].manifest, session[x].admitted)
  /\ session[x].state # "EXPIRED"
  /\ session[x].state = "OPEN" => session[x].expires > now

\* put_chunk at the durable offset.  Each chunk is checked against its own
\* digest only, so bytes the manifest does not cover are accepted here, and
\* an accepted chunk cannot be replaced.
PutChunk(x, good) ==
  /\ Loaded(x)
  /\ session[x].state = "OPEN"
  /\ Len(session[x].chunks) < session[x].manifest.size
  /\ session' = [session EXCEPT ![x].chunks = Append(@, good)]
  /\ UNCHANGED <<keyVars, retained, usage>>

\* complete: the reservation is released and the evidence retained in one
\* transaction.  The whole-content digest decides.
Complete(x) ==
  LET s == session[x]
      m == s.manifest
      u == Released({x})
  IN /\ Loaded(x)
     /\ s.state = "OPEN"
     /\ Len(s.chunks) = m.size
     /\ retained[x] = Null
     /\ \A i \in DOMAIN s.chunks : s.chunks[i]
     /\ Retainable(m, u, Open \ {x})
     /\ Retain(m, s.chunks, u)
     /\ session' = [session EXCEPT ![x].state = "COMPLETE", ![x].chunks = <<>>]
     /\ UNCHANGED keyVars

\* Mutant: an upload in one body does not look for an open session.
UploadSignedAnyway(m) ==
  /\ Bound(m)
  /\ retained[m.artifact] = Null
  /\ Verified(m, Null)
  /\ Retainable(m, usage, Open)
  /\ Retain(m, [i \in 1..m.size |-> TRUE], usage)
  /\ UNCHANGED <<keyVars, session>>

\* upload_signed: evidence sent in one body, only while no session is open.
UploadSigned(m) ==
  LET x == m.artifact IN
    /\ Bound(m)
    /\ retained[x] = Null
    /\ Verified(m, Null)
    /\ x \notin Open
    /\ Retainable(m, usage, Open)
    /\ Retain(m, [i \in 1..m.size |-> TRUE], usage)
    /\ UNCHANGED <<keyVars, session>>

KeyStep == KeysNext /\ UNCHANGED transferVars

Next ==
  \/ KeyStep
  \/ \E m \in Manifests : Admit(m) \/ UploadSigned(m)
  \/ Answer
  \/ \E x \in Artifacts : Complete(x)
  \/ \E x \in Artifacts, good \in BOOLEAN : PutChunk(x, good)

Spec == Init /\ [][Next]_vars

----------------------------------------------------------------------------
\* The counters the triggers keep are the sums over the tables, through
\* admissions, expiry, readmission, completion and one-shot uploads: no
\* reservation is leaked or given back twice.
UsageExact ==
  /\ TypeOK
  /\ usage.open = Cardinality(Open)
  /\ usage.reserved = ReservedBytes(Open)
  /\ usage.sessions = Cardinality({x \in Artifacts : session[x] # Null})
  /\ usage.artifacts = Cardinality(Stored)
  /\ usage.bytes = StoredBytes(Stored)

\* A reservation is worth something: whatever else was uploaded meanwhile, an
\* open session can be retained within every quota once its own reservation
\* is released (the comment in `complete` and the quotas of `retain`).
ReservationsSuffice ==
  \A x \in Open : Retainable(session[x].manifest, Released({x}), Open \ {x})

\* No half commit: the evidence of a COMPLETE session is on file under that
\* session's manifest, an open session has nothing on file, and what is
\* retained is whole and is what its manifest covers.  Evidence on file may
\* also belong to no session or to an EXPIRED one, when it was sent in one
\* body instead (complete, put_chunk, upload_signed).
NoHalfCommit ==
  \A x \in Artifacts :
    /\ session[x] # Null /\ session[x].state = "COMPLETE" =>
         retained[x] # Null /\ retained[x].manifest = session[x].manifest
    /\ x \in Open => retained[x] = Null /\ Len(session[x].chunks) <= session[x].manifest.size
    /\ retained[x] # Null /\ retained[x].manifest # Null =>
         /\ Len(retained[x].content) = retained[x].manifest.size
         /\ \A i \in DOMAIN retained[x].content : retained[x].content[i]

\* Whenever a key is retired or found compromised, evidence under it was
\* verified before a compromise, and before the retirement unless its session
\* had been admitted by then (verify_manifest).
KeyVouchedInTime ==
  \A x \in Artifacts :
    retained[x] # Null /\ retained[x].manifest # Null =>
      LET m == retained[x].manifest  k == key[m.agent][m.key] IN
        /\ k # Null /\ k.from <= retained[x].verified
        /\ k.compromised # Null => retained[x].verified <= k.compromised
        /\ k.retired # Null =>
             \/ retained[x].verified <= k.retired
             \/ session[x] # Null /\ session[x].state = "COMPLETE"
                                  /\ session[x].admitted <= k.retired
=============================================================================
