---------------------------- MODULE ArtifactKeys ----------------------------
(***************************************************************************)
(* Endpoint identities of the Manager: one-use enrollment challenges, the  *)
(* enrollment of agents, the history of their artifact signing keys,       *)
(* two-step key rotation, and the operator's identity decisions            *)
(* (manager/auth.py, manager/artifact_keys.py, routers/artifact_keys.py    *)
(* and the enrollment trigger of migration 28).  Each action is one        *)
(* BEGIN IMMEDIATE transaction; a refused request rolls back, which leaves *)
(* these tables alone, and is no step.                                     *)
(***************************************************************************)
EXTENDS Integers, FiniteSets

CONSTANTS
  Agents,      \* agent ids
  Hosts,       \* host ids
  Keys,        \* public keys, named by their key_id
  Nonces,      \* challenges secrets.token_bytes may mint
  Requests,    \* request_ids of rotation proposals
  Decisions,   \* (actor, request_id) pairs of identity decisions
  NonceTTL,    \* _NONCE_TTL_SECONDS
  MaxTime,     \* bound on the clock
  Null

ASSUME KeysAssumption ==
  /\ NonceTTL \in Nat
  /\ MaxTime \in Nat
  /\ Null \notin Agents \cup Hosts \cup Keys \cup Nonces \cup Requests \cup Nat

VARIABLES
  now,        \* the clock, in the milliseconds of iso_now
  nonce,      \* enrollment_nonces
  agent,      \* enrolled_agents
  key,        \* artifact_signing_keys, PRIMARY KEY (agent_id, key_id)
  rotation,   \* artifact_key_rotations, PRIMARY KEY (agent_id, request_id)
  decision    \* artifact_identity_operations, PRIMARY KEY (actor, request_id)

keyVars == <<now, nonce, agent, key, rotation, decision>>

Time == 0..MaxTime

Stamp == Time \cup {Null}

NonceRow == [expires: Nat, consumed: BOOLEAN]

\* proof is the challenge the agent answered; the row itself forgets it.
AgentRow == [host: Hosts, revoked: Stamp, proof: Nonces]

KeyRow == [version: Nat \ {0}, from: Time, retired: Stamp, compromised: Stamp]

RotationRow ==
  [old: Keys, new: Keys, nonce: Nonces, expires: Nat, approved: BOOLEAN]

\* The payload a decision is bound to and the result it stored; key is Null
\* for the revocation of the whole enrollment.
DecisionRow == [agent: Agents, key: Keys \cup {Null}, changed: BOOLEAN]

\* No row is the missing row.
ASSUME RowsAssumption ==
  Null \notin NonceRow /\ Null \notin AgentRow /\ Null \notin KeyRow
  /\ Null \notin RotationRow /\ Null \notin DecisionRow

KeysTypeOK ==
  /\ now \in Time
  /\ nonce \in [Nonces -> NonceRow \cup {Null}]
  /\ agent \in [Agents -> AgentRow \cup {Null}]
  /\ key \in [Agents -> [Keys -> KeyRow \cup {Null}]]
  /\ rotation \in [Agents -> [Requests -> RotationRow \cup {Null}]]
  /\ decision \in [Decisions -> DecisionRow \cup {Null}]

KeysInit ==
  /\ now = 0
  /\ nonce = [n \in Nonces |-> Null]
  /\ agent = [a \in Agents |-> Null]
  /\ key = [a \in Agents |-> [k \in Keys |-> Null]]
  /\ rotation = [a \in Agents |-> [r \in Requests |-> Null]]
  /\ decision = [d \in Decisions |-> Null]

----------------------------------------------------------------------------
\* A bearer token is good while its agent is enrolled and not revoked.
Active(a) == agent[a] # Null /\ agent[a].revoked = Null

\* The key of agent a that may sign new work: not retired, not compromised.
Live(a, k) ==
  /\ key[a][k] # Null
  /\ key[a][k].retired = Null
  /\ key[a][k].compromised = Null

\* current(conn, agent_id): the newest live key of an active agent.
Current(a, k) ==
  /\ Active(a)
  /\ Live(a, k)
  /\ \A j \in Keys : Live(a, j) => key[a][j].version <= key[a][k].version

\* A key row as it is created.
FreshKey(v) == [version |-> v, from |-> now, retired |-> Null, compromised |-> Null]

----------------------------------------------------------------------------
IssueChallenge(n) ==
  /\ nonce[n] = Null
  /\ nonce' = [nonce EXCEPT ![n] = [expires |-> now + NonceTTL, consumed |-> FALSE]]
  /\ UNCHANGED <<now, agent, key, rotation, decision>>

\* enroll: the challenge is consumed in the transaction that inserts the
\* agent, so a refused enrollment does not spend it.  The comparison is on
\* ISO strings and refuses only a nonce that expired before this instant.
\* The trigger artifact_key_enrollment stores the key as version 1.
Enroll(a, h, k, n) ==
  /\ nonce[n] # Null /\ ~nonce[n].consumed /\ nonce[n].expires >= now
  /\ agent[a] = Null
  /\ \A b \in Agents : Active(b) => agent[b].host # h
  /\ nonce' = [nonce EXCEPT ![n].consumed = TRUE]
  /\ agent' = [agent EXCEPT ![a] = [host |-> h, revoked |-> Null, proof |-> n]]
  /\ key' = [key EXCEPT ![a][k] = FreshKey(1)]
  /\ UNCHANGED <<now, rotation, decision>>

\* request_rotation by the authenticated agent; the retry of a proposal that
\* is on file is answered from it.  The expiry test is on instants and
\* refuses the instant of expiry too.
RequestRotation(a, r, old, new, n) ==
  /\ rotation[a][r] = Null
  /\ Current(a, old)
  /\ key[a][new] = Null
  /\ nonce[n] # Null /\ ~nonce[n].consumed /\ nonce[n].expires > now
  /\ nonce' = [nonce EXCEPT ![n].consumed = TRUE]
  /\ rotation' = [rotation EXCEPT ![a][r] =
       [old |-> old, new |-> new, nonce |-> n,
        expires |-> nonce[n].expires, approved |-> FALSE]]
  /\ UNCHANGED <<now, agent, key, decision>>

\* Mutant: a proposal is approved although its key is no longer the current one.
ApproveRotationStale(a, r) ==
  /\ rotation[a][r] # Null /\ ~rotation[a][r].approved
  /\ rotation[a][r].expires > now
  /\ LET old == rotation[a][r].old  new == rotation[a][r].new IN
       key' = [key EXCEPT ![a] = [@ EXCEPT
         ![old].retired = now, ![new] = FreshKey(key[a][old].version + 1)]]
  /\ rotation' = [rotation EXCEPT ![a][r].approved = TRUE]
  /\ UNCHANGED <<now, nonce, agent, decision>>

\* approve_rotation by an operator with response:decide.
ApproveRotation(a, r) ==
  /\ rotation[a][r] # Null /\ ~rotation[a][r].approved
  /\ rotation[a][r].expires > now
  /\ LET old == rotation[a][r].old  new == rotation[a][r].new IN
       /\ Current(a, old)
       /\ key' = [key EXCEPT ![a] = [@ EXCEPT
            ![old].retired = now,
            ![new] = FreshKey(key[a][old].version + 1)]]
  /\ rotation' = [rotation EXCEPT ![a][r].approved = TRUE]
  /\ UNCHANGED <<now, nonce, agent, decision>>

\* _identity_operation naming a key: mark it compromised, once.
RevokeKey(d, a, k) ==
  /\ decision[d] = Null
  /\ agent[a] # Null
  /\ key[a][k] # Null
  /\ LET changed == key[a][k].compromised = Null IN
       /\ key' = [key EXCEPT ![a][k].compromised = IF changed THEN now ELSE @]
       /\ decision' = [decision EXCEPT ![d] =
            [agent |-> a, key |-> k, changed |-> changed]]
  /\ UNCHANGED <<now, nonce, agent, rotation>>

\* _identity_operation naming no key: revoke the enrollment, once, and
\* retire every key of the agent that is not retired yet.
RevokeEnrollment(d, a) ==
  /\ decision[d] = Null
  /\ agent[a] # Null
  /\ LET changed == agent[a].revoked = Null IN
       /\ agent' = [agent EXCEPT ![a].revoked = IF changed THEN now ELSE @]
       /\ key' = [key EXCEPT ![a] = [k \in Keys |->
            IF changed /\ @[k] # Null /\ @[k].retired = Null
              THEN [@[k] EXCEPT !.retired = now] ELSE @[k]]]
       /\ decision' = [decision EXCEPT ![d] =
            [agent |-> a, key |-> Null, changed |-> changed]]
  /\ UNCHANGED <<now, nonce, rotation>>

Tick ==
  /\ now < MaxTime
  /\ now' = now + 1
  /\ UNCHANGED <<nonce, agent, key, rotation, decision>>

KeysNext ==
  \/ Tick
  \/ \E n \in Nonces : IssueChallenge(n)
  \/ \E a \in Agents, h \in Hosts, k \in Keys, n \in Nonces : Enroll(a, h, k, n)
  \/ \E a \in Agents, r \in Requests, j, k \in Keys, n \in Nonces :
       RequestRotation(a, r, j, k, n)
  \/ \E a \in Agents, r \in Requests : ApproveRotation(a, r)
  \/ \E d \in Decisions, a \in Agents, k \in Keys : RevokeKey(d, a, k)
  \/ \E d \in Decisions, a \in Agents : RevokeEnrollment(d, a)

KeysSpec == KeysInit /\ [][KeysNext]_keyVars

----------------------------------------------------------------------------
\* Whatever the order of rotations, approvals, retries and revocations, the
\* keys of an agent form one line: versions are distinct, every key that has
\* a successor is retired, and a revoked agent has no key left to sign with.
\* So `current` never has two candidates and the unique index on live keys
\* never refuses an approval.
KeyLine ==
  \A a \in Agents :
    /\ \A j, k \in Keys :
         j # k /\ key[a][j] # Null /\ key[a][k] # Null =>
           /\ key[a][j].version # key[a][k].version
           /\ key[a][j].version < key[a][k].version =>
                key[a][j].retired # Null /\ key[a][j].retired <= key[a][k].from
    /\ \A k \in Keys :
         key[a][k] # Null /\ ~Active(a) => key[a][k].retired # Null

\* Two agents that may act never claim the same host, across reimages,
\* revocations and racing enrollments (auth.enroll).
OneAgentPerHost ==
  \A a, b \in Agents :
    Active(a) /\ Active(b) /\ agent[a].host = agent[b].host => a = b

\* A challenge proves possession once: no two enrollments or rotation
\* proposals ever rest on the same nonce (_consume_nonce, request_rotation).
NonceSpentOnce ==
  \A n \in Nonces :
    LET enrollments == {a \in Agents : agent[a] # Null /\ agent[a].proof = n}
        proposals == {x \in Agents \X Requests :
                        rotation[x[1]][x[2]] # Null /\ rotation[x[1]][x[2]].nonce = n}
    IN /\ \A a, b \in enrollments : a = b
       /\ \A x, y \in proposals : x = y
       /\ enrollments = {} \/ proposals = {}

\* The identities evidence is attributed to are sound: one line of keys per
\* agent, one agent per host, one proof per challenge.
IdentitiesSound == KeyLine /\ OneAgentPerHost /\ NonceSpentOnce
=============================================================================
