------------------------- MODULE ArtifactKeysProofs -------------------------
(***************************************************************************)
(* Proofs about ArtifactKeys: its types and IdentitiesSound, for any       *)
(* number of agents, hosts, keys, challenges and requests.                 *)
(***************************************************************************)
EXTENDS ArtifactKeys, TLAPS

\* What the line of keys rests on: an agent has keys only once it enrolled,
\* nothing is dated later than now, and a proposal whose new key exists by
\* now has lost its old one.
Pedigree ==
  \A a \in Agents :
    /\ \A k \in Keys : key[a][k] # Null =>
         /\ agent[a] # Null
         /\ key[a][k].from <= now
         /\ key[a][k].retired # Null => key[a][k].retired <= now
    /\ \A r \in Requests : rotation[a][r] # Null =>
         /\ agent[a] # Null
         /\ rotation[a][r].old # rotation[a][r].new
         /\ key[a][rotation[a][r].old] # Null
         /\ ~rotation[a][r].approved /\ key[a][rotation[a][r].new] # Null =>
              ~Live(a, rotation[a][r].old)

\* Every challenge something rests on was consumed.
Spent ==
  /\ \A a \in Agents : agent[a] # Null => nonce[agent[a].proof] # Null /\ nonce[agent[a].proof].consumed
  /\ \A a \in Agents, r \in Requests : rotation[a][r] # Null =>
       nonce[rotation[a][r].nonce] # Null /\ nonce[rotation[a][r].nonce].consumed

KeysInv == KeysTypeOK /\ Pedigree /\ Spent /\ KeyLine /\ OneAgentPerHost /\ NonceSpentOnce

----------------------------------------------------------------------------
\* The initial tables are typed.
LEMMA KeysInitTyped == KeysInit => KeysTypeOK
  BY KeysAssumption DEF KeysInit, KeysTypeOK, Time

\* A key row that is retired is a key row.
LEMMA KeyRowUpdates ==
  ASSUME NEW x \in KeyRow, NEW t \in Time
  PROVE  [x EXCEPT !.retired = t] \in KeyRow
  BY DEF KeyRow, Stamp

\* Every step keeps the types.
LEMMA KeysStepTyped == KeysTypeOK /\ [KeysNext]_keyVars => KeysTypeOK'
<1> SUFFICES ASSUME KeysTypeOK, [KeysNext]_keyVars PROVE KeysTypeOK'
  OBVIOUS
<1> USE KeysAssumption
<1>0. now \in Time /\ now \in Nat /\ Time \subseteq Nat
  BY DEF KeysTypeOK, Time
<1>1. CASE Tick
  BY <1>1 DEF Tick, KeysTypeOK, Time
<1>2. CASE \E n \in Nonces : IssueChallenge(n)
  <2> PICK n \in Nonces : IssueChallenge(n)
    BY <1>2
  <2>1. [expires |-> now + NonceTTL, consumed |-> FALSE] \in NonceRow
    BY <1>0 DEF NonceRow
  <2> QED BY <2>1 DEF IssueChallenge, KeysTypeOK
<1>3. CASE \E a \in Agents, h \in Hosts, k \in Keys, n \in Nonces : Enroll(a, h, k, n)
  <2> PICK a \in Agents, h \in Hosts, k \in Keys, n \in Nonces : Enroll(a, h, k, n)
    BY <1>3
  <2>1. nonce' \in [Nonces -> NonceRow \cup {Null}]
    <3>1. nonce[n] \in NonceRow
      BY DEF Enroll, KeysTypeOK
    <3>2. [nonce[n] EXCEPT !.consumed = TRUE] \in NonceRow
      BY <3>1 DEF NonceRow
    <3> QED BY <3>1, <3>2 DEF Enroll, KeysTypeOK
  <2>2. agent' \in [Agents -> AgentRow \cup {Null}]
    <3>1. [host |-> h, revoked |-> Null, proof |-> n] \in AgentRow
      BY DEF AgentRow, Stamp
    <3> QED BY <3>1 DEF Enroll, KeysTypeOK
  <2>3. key' \in [Agents -> [Keys -> KeyRow \cup {Null}]]
    <3>1. FreshKey(1) \in KeyRow
      BY <1>0 DEF FreshKey, KeyRow, Stamp
    <3> QED BY <3>1 DEF Enroll, KeysTypeOK
  <2> QED BY <2>1, <2>2, <2>3 DEF Enroll, KeysTypeOK
<1>4. CASE \E a \in Agents, r \in Requests, j, k \in Keys, n \in Nonces :
             RequestRotation(a, r, j, k, n)
  <2> PICK a \in Agents, r \in Requests, j \in Keys, k \in Keys, n \in Nonces :
        RequestRotation(a, r, j, k, n)
    BY <1>4
  <2>1. nonce' \in [Nonces -> NonceRow \cup {Null}]
    <3>1. nonce[n] \in NonceRow
      BY DEF RequestRotation, KeysTypeOK
    <3>2. [nonce[n] EXCEPT !.consumed = TRUE] \in NonceRow
      BY <3>1 DEF NonceRow
    <3> QED BY <3>1, <3>2 DEF RequestRotation, KeysTypeOK
  <2>2. rotation' \in [Agents -> [Requests -> RotationRow \cup {Null}]]
    <3>1. nonce[n] \in NonceRow
      BY DEF RequestRotation, KeysTypeOK
    <3>2. [old |-> j, new |-> k, nonce |-> n, expires |-> nonce[n].expires,
           approved |-> FALSE] \in RotationRow
      BY <3>1 DEF RotationRow, NonceRow
    <3> QED BY <3>2 DEF RequestRotation, KeysTypeOK
  <2> QED BY <2>1, <2>2 DEF RequestRotation, KeysTypeOK
<1>5. CASE \E a \in Agents, r \in Requests : ApproveRotation(a, r)
  <2> PICK a \in Agents, r \in Requests : ApproveRotation(a, r)
    BY <1>5
  <2>1. rotation[a][r] \in RotationRow
    BY DEF ApproveRotation, KeysTypeOK
  <2> DEFINE old == rotation[a][r].old
             new == rotation[a][r].new
  <2>2. old \in Keys /\ new \in Keys
    BY <2>1 DEF RotationRow
  <2>3. key[a][old] \in KeyRow
    BY <2>2 DEF ApproveRotation, Current, Live, KeysTypeOK
  <2>4. [key[a][old] EXCEPT !.retired = now] \in KeyRow
    BY <1>0, <2>3, KeyRowUpdates
  <2>5. FreshKey(key[a][old].version + 1) \in KeyRow
    BY <1>0, <2>3 DEF FreshKey, KeyRow, Stamp
  <2>6. key[a] \in [Keys -> KeyRow \cup {Null}]
    BY DEF KeysTypeOK
  <2>7. key' = [key EXCEPT ![a] = [@ EXCEPT ![old] = [key[a][old] EXCEPT !.retired = now],
                                            ![new] = FreshKey(key[a][old].version + 1)]]
    BY <2>2, <2>6 DEF ApproveRotation, KeysTypeOK
  <2>8. key' \in [Agents -> [Keys -> KeyRow \cup {Null}]]
    BY <2>2, <2>4, <2>5, <2>6, <2>7 DEF KeysTypeOK
  <2>9. rotation' \in [Agents -> [Requests -> RotationRow \cup {Null}]]
    <3>1. [rotation[a][r] EXCEPT !.approved = TRUE] \in RotationRow
      BY <2>1 DEF RotationRow
    <3> QED BY <3>1 DEF ApproveRotation, KeysTypeOK
  <2> QED BY <2>8, <2>9 DEF ApproveRotation, KeysTypeOK
<1>6. CASE \E d \in Decisions, a \in Agents, k \in Keys : RevokeKey(d, a, k)
  <2> PICK d \in Decisions, a \in Agents, k \in Keys : RevokeKey(d, a, k)
    BY <1>6
  <2>1. key[a][k] \in KeyRow
    BY DEF RevokeKey, KeysTypeOK
  <2>2. key' \in [Agents -> [Keys -> KeyRow \cup {Null}]]
    <3> DEFINE changed == key[a][k].compromised = Null
               after == [key[a][k] EXCEPT !.compromised = IF changed THEN now ELSE @]
    <3>1. after \in KeyRow
      <4>1. CASE changed
        BY <1>0, <2>1, <4>1 DEF KeyRow, Stamp
      <4>2. CASE ~changed
        BY <1>0, <2>1, <4>2 DEF KeyRow, Stamp
      <4> QED BY <4>1, <4>2
    <3>2. key' = [key EXCEPT ![a] = [key[a] EXCEPT ![k] = after]]
      BY DEF RevokeKey, KeysTypeOK
    <3>3. key[a] \in [Keys -> KeyRow \cup {Null}]
      BY DEF KeysTypeOK
    <3> HIDE DEF after
    <3> QED BY <3>1, <3>2, <3>3 DEF KeysTypeOK
  <2>3. decision' \in [Decisions -> DecisionRow \cup {Null}]
    BY DEF RevokeKey, KeysTypeOK, DecisionRow
  <2> QED BY <2>2, <2>3 DEF RevokeKey, KeysTypeOK
<1>7. CASE \E d \in Decisions, a \in Agents : RevokeEnrollment(d, a)
  <2> PICK d \in Decisions, a \in Agents : RevokeEnrollment(d, a)
    BY <1>7
  <2>1. agent' \in [Agents -> AgentRow \cup {Null}]
    <3>1. agent[a] \in AgentRow
      BY DEF RevokeEnrollment, KeysTypeOK
    <3>2. [agent[a] EXCEPT !.revoked = now] \in AgentRow
      BY <1>0, <3>1 DEF AgentRow, Stamp
    <3>3. agent' = [agent EXCEPT ![a] = [agent[a] EXCEPT !.revoked = now]]
          \/ agent' = [agent EXCEPT ![a] = agent[a]]
      <4>1. [agent[a] EXCEPT !.revoked = @] = agent[a]
        BY <3>1 DEF AgentRow
      <4> QED BY <4>1 DEF RevokeEnrollment, KeysTypeOK
    <3> QED BY <3>1, <3>2, <3>3 DEF KeysTypeOK
  <2>2. key' \in [Agents -> [Keys -> KeyRow \cup {Null}]]
    <3> DEFINE after == [k \in Keys |->
                 IF agent[a].revoked = Null /\ key[a][k] # Null /\ key[a][k].retired = Null
                   THEN [key[a][k] EXCEPT !.retired = now] ELSE key[a][k]]
    <3>1. key' = [key EXCEPT ![a] = after]
      BY DEF RevokeEnrollment, KeysTypeOK
    <3>2. \A k \in Keys : key[a][k] # Null => [key[a][k] EXCEPT !.retired = now] \in KeyRow
      BY <1>0, KeyRowUpdates DEF KeysTypeOK
    <3>3. after \in [Keys -> KeyRow \cup {Null}]
      BY <3>2 DEF KeysTypeOK
    <3> HIDE DEF after
    <3> QED BY <3>1, <3>3 DEF KeysTypeOK
  <2>3. decision' \in [Decisions -> DecisionRow \cup {Null}]
    BY DEF RevokeEnrollment, KeysTypeOK, DecisionRow
  <2> QED BY <2>1, <2>2, <2>3 DEF RevokeEnrollment, KeysTypeOK
<1>8. CASE UNCHANGED keyVars
  BY <1>8 DEF keyVars, KeysTypeOK
<1> QED BY <1>1, <1>2, <1>3, <1>4, <1>5, <1>6, <1>7, <1>8 DEF KeysNext

----------------------------------------------------------------------------
\* Until an agent enrolls it has neither keys nor proposals.
LEMMA EnrollEffect ==
  ASSUME KeysTypeOK, Pedigree, NEW a \in Agents, NEW h \in Hosts, NEW k \in Keys,
         NEW n \in Nonces, Enroll(a, h, k, n)
  PROVE  /\ \A j \in Keys : key[a][j] = Null
         /\ \A r \in Requests : rotation[a][r] = Null
         /\ agent'[a] # Null /\ agent'[a].host = h /\ agent'[a].revoked = Null
         /\ agent'[a].proof = n
         /\ \A b \in Agents \ {a} : agent'[b] = agent[b] /\ key'[b] = key[b]
         /\ \A j \in Keys \ {k} : key'[a][j] = Null
         /\ key'[a][k].from = now /\ key'[a][k].retired = Null
         /\ rotation' = rotation /\ now' = now
<1>1. agent[a] = Null
  BY DEF Enroll
<1>2. [host |-> h, revoked |-> Null, proof |-> n] # Null
  BY RowsAssumption DEF AgentRow, Stamp
<1>3. agent' = [agent EXCEPT ![a] = [host |-> h, revoked |-> Null, proof |-> n]]
  BY DEF Enroll
<1>4. key' = [key EXCEPT ![a] = [key[a] EXCEPT ![k] = FreshKey(1)]]
  BY DEF Enroll
<1> QED BY <1>1, <1>2, <1>3, <1>4 DEF Pedigree, KeysTypeOK, Enroll, FreshKey

\* An approval retires the last key of the line and appends a new one.
LEMMA ApproveEffect ==
  ASSUME KeysTypeOK, Pedigree, KeyLine, NEW a \in Agents, NEW r \in Requests,
         ApproveRotation(a, r),
         NEW old, NEW new, old = rotation[a][r].old, new = rotation[a][r].new
  PROVE  /\ old \in Keys /\ new \in Keys /\ old # new
         /\ key[a][old] \in KeyRow /\ key[a][old].retired = Null /\ key[a][new] = Null
         /\ Active(a)
         /\ \A j \in Keys \ {old} : key[a][j] # Null =>
              /\ key[a][j].version < key[a][old].version
              /\ key[a][j].retired # Null /\ key[a][j].retired <= now
         /\ key'[a][old].version = key[a][old].version
         /\ key'[a][old].from = key[a][old].from
         /\ key'[a][old].compromised = key[a][old].compromised
         /\ key'[a][old].retired = now /\ key'[a][old] # Null
         /\ key'[a][new].version = key[a][old].version + 1
         /\ key'[a][new].from = now /\ key'[a][new].retired = Null
         /\ \A j \in Keys \ {old, new} : key'[a][j] = key[a][j]
         /\ \A b \in Agents \ {a} : key'[b] = key[b]
         /\ now' = now /\ agent' = agent
<1>1. rotation[a][r] \in RotationRow /\ rotation[a][r] # Null /\ ~rotation[a][r].approved
  BY DEF ApproveRotation, KeysTypeOK
<1>2. old \in Keys /\ new \in Keys /\ old # new
  BY <1>1 DEF RotationRow, Pedigree
<1>3. Active(a) /\ key[a][old] # Null /\ key[a][old].retired = Null /\ Live(a, old)
  BY DEF ApproveRotation, Current, Live
<1>4. key[a][old] \in KeyRow /\ key[a] \in [Keys -> KeyRow \cup {Null}]
  BY <1>2, <1>3 DEF KeysTypeOK
<1>5. key[a][new] = Null
  BY <1>1, <1>2, <1>3 DEF Pedigree
<1>6. ASSUME NEW j \in Keys \ {old}, key[a][j] # Null
      PROVE  /\ key[a][j].version < key[a][old].version
             /\ key[a][j].retired # Null /\ key[a][j].retired <= now
  <2>1. key[a][j] \in KeyRow
    BY <1>4, <1>6
  <2>2. key[a][j].version \in Nat /\ key[a][old].version \in Nat
    BY <2>1, <1>4 DEF KeyRow
  <2>3. key[a][j].version < key[a][old].version
    BY <2>2, <1>2, <1>3, <1>6 DEF KeyLine
  <2>4. key[a][j].retired # Null
    BY <2>3, <1>2, <1>3, <1>6 DEF KeyLine
  <2> QED BY <2>3, <2>4, <1>6 DEF Pedigree
<1>7. key' = [key EXCEPT ![a] = [key[a] EXCEPT
                 ![old] = [key[a][old] EXCEPT !.retired = now],
                 ![new] = FreshKey(key[a][old].version + 1)]]
  BY <1>2, <1>4 DEF ApproveRotation, KeysTypeOK
<1>8. key'[a] = [key[a] EXCEPT ![old] = [key[a][old] EXCEPT !.retired = now],
                               ![new] = FreshKey(key[a][old].version + 1)]
  BY <1>7 DEF KeysTypeOK
<1>9. [key[a][old] EXCEPT !.retired = now] \in KeyRow
  BY <1>4, KeyRowUpdates DEF KeysTypeOK
<1>10. key'[a][old] = [key[a][old] EXCEPT !.retired = now] /\ key'[a][old] # Null
  BY <1>2, <1>4, <1>8, <1>9, RowsAssumption
<1>11. key'[a][new] = FreshKey(key[a][old].version + 1)
  BY <1>2, <1>4, <1>8
<1>12. /\ key'[a][old].version = key[a][old].version
       /\ key'[a][old].from = key[a][old].from
       /\ key'[a][old].compromised = key[a][old].compromised
       /\ key'[a][old].retired = now
  BY <1>4, <1>10 DEF KeyRow
<1>13. /\ key'[a][new].version = key[a][old].version + 1
       /\ key'[a][new].from = now /\ key'[a][new].retired = Null
  BY <1>11 DEF FreshKey
<1>14. \A j \in Keys \ {old, new} : key'[a][j] = key[a][j]
  BY <1>4, <1>8
<1>15. \A b \in Agents \ {a} : key'[b] = key[b]
  BY <1>7 DEF KeysTypeOK
<1>16. now' = now /\ agent' = agent
  BY DEF ApproveRotation
<1> QED BY <1>2, <1>3, <1>4, <1>5, <1>6, <1>10, <1>12, <1>13, <1>14, <1>15, <1>16

\* The other steps leave every key row as it was but for its two marks.
LEMMA MarkEffect ==
  ASSUME KeysTypeOK, Pedigree,
         \/ \E d \in Decisions, a \in Agents, k \in Keys : RevokeKey(d, a, k)
         \/ \E d \in Decisions, a \in Agents : RevokeEnrollment(d, a)
  PROVE  /\ now' = now /\ rotation' = rotation
         /\ \A b \in Agents :
              /\ agent'[b] = Null <=> agent[b] = Null
              /\ Active(b)' => Active(b)
              /\ agent'[b] # Null => agent'[b].host = agent[b].host /\ agent'[b].proof = agent[b].proof
         /\ \A b \in Agents, j \in Keys :
              /\ key'[b][j] = Null <=> key[b][j] = Null
              /\ key[b][j] # Null =>
                   /\ key'[b][j].version = key[b][j].version
                   /\ key'[b][j].from = key[b][j].from
                   /\ key[b][j].retired # Null => key'[b][j].retired = key[b][j].retired
                   /\ key'[b][j].retired \in {key[b][j].retired, now}
                   /\ key[b][j].compromised # Null => key'[b][j].compromised = key[b][j].compromised
                   /\ key'[b][j].compromised \in {key[b][j].compromised, now}
                   /\ Live(b, j)' => Live(b, j)
                   /\ Active(b) /\ ~Active(b)' => key'[b][j].retired # Null
<1> USE KeysAssumption, RowsAssumption
<1>0. now \in Time /\ now # Null
  BY DEF KeysTypeOK, Time
<1>1. CASE \E d \in Decisions, a \in Agents, k \in Keys : RevokeKey(d, a, k)
  <2> PICK d \in Decisions, a \in Agents, k \in Keys : RevokeKey(d, a, k)
    BY <1>1
  <2>1. now' = now /\ rotation' = rotation /\ agent' = agent
    BY DEF RevokeKey
  <2>2. key[a][k] \in KeyRow /\ key[a] \in [Keys -> KeyRow \cup {Null}]
    BY DEF RevokeKey, KeysTypeOK
  <2> DEFINE mark == IF key[a][k].compromised = Null THEN now ELSE key[a][k].compromised
             after == [key[a][k] EXCEPT !.compromised = mark]
  <2>3. key' = [key EXCEPT ![a] = [key[a] EXCEPT ![k] = after]]
    BY DEF RevokeKey, KeysTypeOK
  <2>4. mark # Null /\ mark \in Stamp
    BY <1>0, <2>2 DEF KeyRow, Stamp
  <2>5. /\ after.version = key[a][k].version /\ after.from = key[a][k].from
        /\ after.retired = key[a][k].retired /\ after.compromised = mark
        /\ after \in KeyRow
    BY <2>2, <2>4 DEF KeyRow
  <2> HIDE DEF after, mark
  <2>51. mark \in {key[a][k].compromised, now}
         /\ (key[a][k].compromised # Null => mark = key[a][k].compromised)
    BY DEF mark
  <2>6. key'[a][k] = after /\ \A b \in Agents, j \in Keys : b # a \/ j # k => key'[b][j] = key[b][j]
    BY <2>2, <2>3 DEF KeysTypeOK
  <2>7. \A b \in Agents : Active(b)' <=> Active(b)
    BY <2>1 DEF Active
  <2>8. ASSUME NEW b \in Agents, NEW j \in Keys
        PROVE  /\ key'[b][j] = Null <=> key[b][j] = Null
               /\ key[b][j] # Null =>
                    /\ key'[b][j].version = key[b][j].version
                    /\ key'[b][j].from = key[b][j].from
                    /\ key'[b][j].retired = key[b][j].retired
                    /\ key[b][j].compromised # Null => key'[b][j].compromised = key[b][j].compromised
                    /\ key'[b][j].compromised \in {key[b][j].compromised, now}
                    /\ Live(b, j)' => Live(b, j)
    <3>1. CASE b = a /\ j = k
      BY <3>1, <2>2, <2>4, <2>5, <2>51, <2>6 DEF Live
    <3>2. CASE b # a \/ j # k
      BY <3>2, <2>6 DEF Live
    <3> QED BY <3>1, <3>2
  <2> QED BY <2>1, <2>7, <2>8
<1>2. CASE \E d \in Decisions, a \in Agents : RevokeEnrollment(d, a)
  <2> PICK d \in Decisions, a \in Agents : RevokeEnrollment(d, a)
    BY <1>2
  <2>1. now' = now /\ rotation' = rotation
    BY DEF RevokeEnrollment
  <2>2. agent[a] \in AgentRow /\ key[a] \in [Keys -> KeyRow \cup {Null}]
    BY DEF RevokeEnrollment, KeysTypeOK
  <2> DEFINE changed == agent[a].revoked = Null
             mark == IF changed THEN now ELSE agent[a].revoked
             row == [agent[a] EXCEPT !.revoked = mark]
             after == [j \in Keys |->
                         IF changed /\ key[a][j] # Null /\ key[a][j].retired = Null
                           THEN [key[a][j] EXCEPT !.retired = now] ELSE key[a][j]]
  <2>3. agent' = [agent EXCEPT ![a] = row]
    BY DEF RevokeEnrollment, KeysTypeOK
  <2>4. key' = [key EXCEPT ![a] = after]
    BY DEF RevokeEnrollment, KeysTypeOK
  <2>5. mark # Null /\ mark \in Stamp
    BY <1>0, <2>2 DEF AgentRow, Stamp
  <2>6. /\ row.host = agent[a].host /\ row.proof = agent[a].proof /\ row.revoked = mark
        /\ row # Null
    BY <2>2, <2>5 DEF AgentRow
  <2>7. \A j \in Keys :
          /\ after[j] = Null <=> key[a][j] = Null
          /\ key[a][j] # Null =>
               /\ after[j].version = key[a][j].version
               /\ after[j].from = key[a][j].from
               /\ after[j].compromised = key[a][j].compromised
               /\ key[a][j].retired # Null => after[j].retired = key[a][j].retired
               /\ after[j].retired \in {key[a][j].retired, now}
               /\ changed => after[j].retired # Null
    <3> SUFFICES ASSUME NEW j \in Keys
                 PROVE /\ after[j] = Null <=> key[a][j] = Null
                       /\ key[a][j] # Null =>
                            /\ after[j].version = key[a][j].version
                            /\ after[j].from = key[a][j].from
                            /\ after[j].compromised = key[a][j].compromised
                            /\ key[a][j].retired # Null => after[j].retired = key[a][j].retired
                            /\ after[j].retired \in {key[a][j].retired, now}
                            /\ changed => after[j].retired # Null
      OBVIOUS
    <3>1. CASE changed /\ key[a][j] # Null /\ key[a][j].retired = Null
      <4>1. after[j] = [key[a][j] EXCEPT !.retired = now] /\ key[a][j] \in KeyRow
        BY <3>1, <2>2
      <4>2. after[j] \in KeyRow
        BY <4>1, <1>0, KeyRowUpdates
      <4>3. /\ after[j].version = key[a][j].version /\ after[j].from = key[a][j].from
            /\ after[j].compromised = key[a][j].compromised /\ after[j].retired = now
        BY <4>1 DEF KeyRow
      <4> HIDE DEF after
      <4> QED BY <3>1, <4>2, <4>3, <1>0
    <3>2. CASE ~(changed /\ key[a][j] # Null /\ key[a][j].retired = Null)
      <4>1. after[j] = key[a][j]
        BY <3>2
      <4> HIDE DEF after
      <4> QED BY <4>1, <3>2
    <3> QED BY <3>1, <3>2
  <2>8. changed <=> agent[a].revoked = Null
    OBVIOUS
  <2> HIDE DEF after, row, mark, changed
  <2>9. /\ agent'[a] = row /\ key'[a] = after
        /\ \A b \in Agents \ {a} : agent'[b] = agent[b] /\ key'[b] = key[b]
    BY <2>3, <2>4 DEF KeysTypeOK
  <2>10. agent[a] # Null /\ ~Active(a)'
    BY <2>5, <2>6, <2>9 DEF Active, RevokeEnrollment
  <2>11. \A b \in Agents : b # a => (Active(b)' <=> Active(b))
    BY <2>9 DEF Active
  <2>12. Active(a) => changed
    BY <2>8 DEF Active
  <2>13. ASSUME NEW b \in Agents, NEW j \in Keys
         PROVE  /\ key'[b][j] = Null <=> key[b][j] = Null
                /\ key[b][j] # Null =>
                     /\ key'[b][j].version = key[b][j].version
                     /\ key'[b][j].from = key[b][j].from
                     /\ key[b][j].retired # Null => key'[b][j].retired = key[b][j].retired
                     /\ key'[b][j].retired \in {key[b][j].retired, now}
                     /\ key'[b][j].compromised = key[b][j].compromised
                     /\ Live(b, j)' => Live(b, j)
                     /\ Active(b) /\ ~Active(b)' => key'[b][j].retired # Null
    <3>1. CASE b = a
      BY <3>1, <2>7, <2>9, <2>12 DEF Live
    <3>2. CASE b # a
      BY <3>2, <2>9, <2>11 DEF Live
    <3> QED BY <3>1, <3>2
  <2> QED BY <2>1, <2>6, <2>9, <2>10, <2>11, <2>13
<1> QED BY <1>1, <1>2

----------------------------------------------------------------------------
\* Every step keeps the pedigree and the line of keys.
LEMMA KeyLineStep ==
  KeysTypeOK /\ KeysTypeOK' /\ Pedigree /\ KeyLine /\ [KeysNext]_keyVars => Pedigree' /\ KeyLine'
<1> SUFFICES ASSUME KeysTypeOK, KeysTypeOK', Pedigree, KeyLine, [KeysNext]_keyVars
             PROVE  Pedigree' /\ KeyLine'
  OBVIOUS
<1> USE KeysAssumption, RowsAssumption
<1>0. now \in Nat /\ now # Null /\ \A b \in Agents, j \in Keys : key[b][j] # Null =>
        /\ key[b][j].version \in Nat /\ key[b][j].from \in Nat
        /\ key[b][j].retired # Null => key[b][j].retired \in Nat
  BY DEF KeysTypeOK, Time, KeyRow, Stamp
<1>1. CASE Tick
  <2>1. now' = now + 1 /\ agent' = agent /\ key' = key /\ rotation' = rotation
    BY <1>1 DEF Tick
  <2>2. Pedigree'
    BY <1>0, <2>1 DEF Pedigree, Live
  <2>3. KeyLine'
    BY <2>1 DEF KeyLine, Active
  <2> QED BY <2>2, <2>3
<1>2. CASE \E n \in Nonces : IssueChallenge(n)
  BY <1>2 DEF IssueChallenge, Pedigree, KeyLine, Active, Live
<1>3. CASE \E a \in Agents, h \in Hosts, k \in Keys, n \in Nonces : Enroll(a, h, k, n)
  <2> PICK a \in Agents, h \in Hosts, k \in Keys, n \in Nonces : Enroll(a, h, k, n)
    BY <1>3
  <2>1. /\ \A j \in Keys : key[a][j] = Null
        /\ \A r \in Requests : rotation[a][r] = Null
        /\ agent'[a] # Null /\ agent'[a].revoked = Null
        /\ \A b \in Agents \ {a} : agent'[b] = agent[b] /\ key'[b] = key[b]
        /\ \A j \in Keys \ {k} : key'[a][j] = Null
        /\ key'[a][k].from = now /\ key'[a][k].retired = Null
        /\ rotation' = rotation /\ now' = now
    BY EnrollEffect
  <2>2. Pedigree'
    <3> SUFFICES ASSUME NEW b \in Agents
                 PROVE  /\ \A j \in Keys : key'[b][j] # Null =>
                             /\ agent'[b] # Null
                             /\ key'[b][j].from <= now'
                             /\ key'[b][j].retired # Null => key'[b][j].retired <= now'
                        /\ \A r \in Requests : rotation'[b][r] # Null =>
                             /\ agent'[b] # Null
                             /\ rotation'[b][r].old # rotation'[b][r].new
                             /\ key'[b][rotation'[b][r].old] # Null
                             /\ ~rotation'[b][r].approved /\ key'[b][rotation'[b][r].new] # Null =>
                                  ~Live(b, rotation[b][r].old)'
      BY DEF Pedigree
    <3>1. CASE b = a
      BY <1>0, <2>1, <3>1
    <3>2. CASE b # a
      BY <2>1, <3>2 DEF Pedigree, Live
    <3> QED BY <3>1, <3>2
  <2>3. KeyLine'
    <3> SUFFICES ASSUME NEW b \in Agents
                 PROVE /\ \A i, j \in Keys : i # j /\ key'[b][i] # Null /\ key'[b][j] # Null =>
                            /\ key'[b][i].version # key'[b][j].version
                            /\ key'[b][i].version < key'[b][j].version =>
                                 key'[b][i].retired # Null /\ key'[b][i].retired <= key'[b][j].from
                       /\ \A j \in Keys : key'[b][j] # Null /\ ~Active(b)' => key'[b][j].retired # Null
      BY DEF KeyLine
    <3>1. CASE b = a
      BY <2>1, <3>1 DEF Active
    <3>2. CASE b # a
      BY <2>1, <3>2 DEF KeyLine, Active
    <3> QED BY <3>1, <3>2
  <2> QED BY <2>2, <2>3
<1>4. CASE \E a \in Agents, r \in Requests, j, k \in Keys, n \in Nonces :
             RequestRotation(a, r, j, k, n)
  <2> PICK a \in Agents, r \in Requests, j \in Keys, k \in Keys, n \in Nonces :
        RequestRotation(a, r, j, k, n)
    BY <1>4
  <2>1. /\ now' = now /\ agent' = agent /\ key' = key
        /\ agent[a] # Null /\ key[a][j] # Null /\ key[a][k] = Null
    BY DEF RequestRotation, Current, Active, Live
  <2> DEFINE row == [old |-> j, new |-> k, nonce |-> n, expires |-> nonce[n].expires,
                     approved |-> FALSE]
  <2>2. rotation' = [rotation EXCEPT ![a] = [rotation[a] EXCEPT ![r] = row]]
    BY DEF RequestRotation, KeysTypeOK
  <2>3. row.old = j /\ row.new = k
    OBVIOUS
  <2> HIDE DEF row
  <2>4. /\ rotation'[a][r] = row
        /\ \A b \in Agents, q \in Requests : b # a \/ q # r => rotation'[b][q] = rotation[b][q]
    BY <2>2 DEF KeysTypeOK
  <2>5. KeyLine'
    BY <2>1 DEF KeyLine, Active
  <2>6. Pedigree'
    <3>1. ASSUME NEW b \in Agents, NEW q \in Requests, rotation'[b][q] # Null
          PROVE  /\ agent'[b] # Null
                 /\ rotation'[b][q].old # rotation'[b][q].new
                 /\ key'[b][rotation'[b][q].old] # Null
                 /\ ~rotation'[b][q].approved /\ key'[b][rotation'[b][q].new] # Null =>
                      ~Live(b, rotation[b][q].old)'
      <4>1. CASE b = a /\ q = r
        BY <4>1, <2>1, <2>3, <2>4
      <4>2. CASE b # a \/ q # r
        BY <4>2, <2>1, <2>4, <3>1 DEF Pedigree, Live
      <4> QED BY <4>1, <4>2
    <3> QED BY <3>1, <2>1 DEF Pedigree
  <2> QED BY <2>5, <2>6
<1>5. CASE \E a \in Agents, r \in Requests : ApproveRotation(a, r)
  <2> PICK a \in Agents, r \in Requests : ApproveRotation(a, r)
    BY <1>5
  <2>0. PICK old, new : old = rotation[a][r].old /\ new = rotation[a][r].new
    OBVIOUS
  <2>1. /\ old \in Keys /\ new \in Keys /\ old # new
        /\ key[a][old] \in KeyRow /\ key[a][old].retired = Null /\ key[a][new] = Null
        /\ Active(a)
        /\ \A j \in Keys \ {old} : key[a][j] # Null =>
             /\ key[a][j].version < key[a][old].version
             /\ key[a][j].retired # Null /\ key[a][j].retired <= now
        /\ key'[a][old].version = key[a][old].version
        /\ key'[a][old].from = key[a][old].from
        /\ key'[a][old].retired = now /\ key'[a][old] # Null
        /\ key'[a][new].version = key[a][old].version + 1
        /\ key'[a][new].from = now /\ key'[a][new].retired = Null
        /\ \A j \in Keys \ {old, new} : key'[a][j] = key[a][j]
        /\ \A b \in Agents \ {a} : key'[b] = key[b]
        /\ now' = now /\ agent' = agent
    BY <2>0, ApproveEffect
  <2>2. rotation' = [rotation EXCEPT ![a] = [rotation[a] EXCEPT ![r].approved = TRUE]]
    BY DEF ApproveRotation, KeysTypeOK
  <2>3. rotation[a][r] \in RotationRow /\ rotation[a][r] # Null
    BY DEF ApproveRotation, KeysTypeOK
  <2>4. /\ rotation'[a][r] = [rotation[a][r] EXCEPT !.approved = TRUE]
        /\ \A b \in Agents, q \in Requests : b # a \/ q # r => rotation'[b][q] = rotation[b][q]
    BY <2>2 DEF KeysTypeOK
  <2>5. rotation'[a][r].old = old /\ rotation'[a][r].new = new /\ rotation'[a][r].approved
    BY <2>0, <2>3, <2>4 DEF RotationRow
  <2>6. ~Live(a, old)'
    BY <2>1, <1>0 DEF Live
  <2>7. key[a][old] # Null
    BY <2>1
  <2>8. KeyLine'
    <3>1. ASSUME NEW i \in Keys, NEW j \in Keys, i # j, key'[a][i] # Null, key'[a][j] # Null
          PROVE  /\ key'[a][i].version # key'[a][j].version
                 /\ key'[a][i].version < key'[a][j].version =>
                      key'[a][i].retired # Null /\ key'[a][i].retired <= key'[a][j].from
      <4>1. CASE i = old /\ j = new
        BY <4>1, <2>1, <2>7, <1>0
      <4>2. CASE i = new /\ j = old
        BY <4>2, <2>1, <2>7, <1>0
      <4>3. CASE i = old /\ j # new
        BY <4>3, <3>1, <2>1, <2>7, <1>0
      <4>4. CASE i # new /\ j = old
        <5>1. key'[a][i] = key[a][i] /\ key[a][i] # Null
          BY <4>4, <3>1, <2>1
        <5>2. /\ key[a][i].version # key[a][old].version
              /\ key[a][i].version < key[a][old].version =>
                   key[a][i].retired # Null /\ key[a][i].retired <= key[a][old].from
          BY <5>1, <4>4, <3>1, <2>1, <2>7 DEF KeyLine
        <5> QED BY <5>1, <5>2, <4>4, <2>1
      <4>5. CASE i = new /\ j # old
        BY <4>5, <3>1, <2>1, <2>7, <1>0
      <4>6. CASE i # old /\ i # new /\ j = new
        BY <4>6, <3>1, <2>1, <2>7, <1>0
      <4>7. CASE i \notin {old, new} /\ j \notin {old, new}
        BY <4>7, <3>1, <2>1 DEF KeyLine
      <4> QED BY <4>1, <4>2, <4>3, <4>4, <4>5, <4>6, <4>7, <3>1
    <3>2. ASSUME NEW b \in Agents, b # a, NEW i \in Keys, NEW j \in Keys, i # j,
                 key'[b][i] # Null, key'[b][j] # Null
          PROVE  /\ key'[b][i].version # key'[b][j].version
                 /\ key'[b][i].version < key'[b][j].version =>
                      key'[b][i].retired # Null /\ key'[b][i].retired <= key'[b][j].from
      BY <3>2, <2>1 DEF KeyLine
    <3>3. ASSUME NEW b \in Agents, NEW j \in Keys, key'[b][j] # Null, ~Active(b)'
          PROVE  key'[b][j].retired # Null
      <4>1. ~Active(b) /\ b # a
        BY <3>3, <2>1 DEF Active
      <4> QED BY <4>1, <3>3, <2>1 DEF KeyLine
    <3> QED BY <3>1, <3>2, <3>3 DEF KeyLine
  <2>9. Pedigree'
    <3>1. ASSUME NEW b \in Agents, NEW j \in Keys, key'[b][j] # Null
          PROVE  /\ agent'[b] # Null
                 /\ key'[b][j].from <= now'
                 /\ key'[b][j].retired # Null => key'[b][j].retired <= now'
      <4>1. CASE b # a
        BY <4>1, <3>1, <2>1 DEF Pedigree
      <4>2. CASE b = a /\ j \in {old, new}
        BY <4>2, <2>1, <2>7, <1>0 DEF Active, Pedigree
      <4>3. CASE b = a /\ j \notin {old, new}
        BY <4>3, <3>1, <2>1 DEF Pedigree
      <4> QED BY <4>1, <4>2, <4>3
    <3>2. ASSUME NEW b \in Agents, NEW q \in Requests, rotation'[b][q] # Null
          PROVE  /\ agent'[b] # Null
                 /\ rotation'[b][q].old # rotation'[b][q].new
                 /\ key'[b][rotation'[b][q].old] # Null
                 /\ ~rotation'[b][q].approved /\ key'[b][rotation'[b][q].new] # Null =>
                      ~Live(b, rotation[b][q].old)'
      <4>1. CASE b # a
        BY <4>1, <3>2, <2>1, <2>4 DEF Pedigree, Live
      <4>2. CASE b = a /\ q = r
        BY <4>2, <2>1, <2>5 DEF Active
      <4>3. CASE b = a /\ q # r
        <5>0. PICK o, n : o = rotation[a][q].old /\ n = rotation[a][q].new
          OBVIOUS
        <5>1. rotation'[a][q] = rotation[a][q] /\ rotation[a][q] # Null /\ rotation[a][q] \in RotationRow
          BY <4>3, <3>2, <2>4 DEF KeysTypeOK
        <5>2. /\ o \in Keys /\ n \in Keys /\ o # n /\ key[a][o] # Null
              /\ ~rotation[a][q].approved /\ key[a][n] # Null => ~Live(a, o)
          BY <5>0, <5>1 DEF Pedigree, RotationRow
        <5>3. o # new /\ key'[a][o] # Null
          BY <5>2, <2>1
        <5>4. o # old => ~Live(a, o)'
          BY <5>2, <5>3, <2>1 DEF Live
        <5>5. ~Live(a, o)'
          BY <5>4, <2>6
        <5> QED BY <5>1, <5>2, <5>3, <5>5, <5>0, <4>3, <2>1 DEF Active
      <4> QED BY <4>1, <4>2, <4>3
    <3> QED BY <3>1, <3>2 DEF Pedigree
  <2> QED BY <2>8, <2>9
<1>6. CASE \/ \E d \in Decisions, a \in Agents, k \in Keys : RevokeKey(d, a, k)
           \/ \E d \in Decisions, a \in Agents : RevokeEnrollment(d, a)
  <2>1. /\ now' = now /\ rotation' = rotation
        /\ \A b \in Agents :
             /\ agent'[b] = Null <=> agent[b] = Null
             /\ Active(b)' => Active(b)
        /\ \A b \in Agents, j \in Keys :
             /\ key'[b][j] = Null <=> key[b][j] = Null
             /\ key[b][j] # Null =>
                  /\ key'[b][j].version = key[b][j].version
                  /\ key'[b][j].from = key[b][j].from
                  /\ key[b][j].retired # Null => key'[b][j].retired = key[b][j].retired
                  /\ key'[b][j].retired \in {key[b][j].retired, now}
                  /\ Live(b, j)' => Live(b, j)
                  /\ Active(b) /\ ~Active(b)' => key'[b][j].retired # Null
    BY <1>6, MarkEffect
  <2>2. KeyLine'
    <3>1. ASSUME NEW b \in Agents, NEW i \in Keys, NEW j \in Keys, i # j,
                 key'[b][i] # Null, key'[b][j] # Null
          PROVE  /\ key'[b][i].version # key'[b][j].version
                 /\ key'[b][i].version < key'[b][j].version =>
                      key'[b][i].retired # Null /\ key'[b][i].retired <= key'[b][j].from
      <4>1. key[b][i] # Null /\ key[b][j] # Null
        BY <3>1, <2>1
      <4>2. /\ key[b][i].version # key[b][j].version
            /\ key[b][i].version < key[b][j].version =>
                 key[b][i].retired # Null /\ key[b][i].retired <= key[b][j].from
        BY <3>1, <4>1 DEF KeyLine
      <4> QED BY <4>1, <4>2, <2>1
    <3>2. ASSUME NEW b \in Agents, NEW j \in Keys, key'[b][j] # Null, ~Active(b)'
          PROVE  key'[b][j].retired # Null
      <4>1. key[b][j] # Null
        BY <3>2, <2>1
      <4>2. CASE Active(b)
        BY <4>1, <4>2, <3>2, <2>1
      <4>3. CASE ~Active(b)
        BY <4>1, <4>3, <2>1 DEF KeyLine
      <4> QED BY <4>2, <4>3
    <3> QED BY <3>1, <3>2 DEF KeyLine
  <2>3. Pedigree'
    <3>1. ASSUME NEW b \in Agents, NEW j \in Keys, key'[b][j] # Null
          PROVE  /\ agent'[b] # Null
                 /\ key'[b][j].from <= now'
                 /\ key'[b][j].retired # Null => key'[b][j].retired <= now'
      <4>1. key[b][j] # Null
        BY <3>1, <2>1
      <4>2. /\ agent[b] # Null /\ key[b][j].from <= now
            /\ key[b][j].retired # Null => key[b][j].retired <= now
        BY <4>1 DEF Pedigree
      <4> QED BY <4>1, <4>2, <2>1, <1>0
    <3>2. ASSUME NEW b \in Agents, NEW q \in Requests, rotation'[b][q] # Null
          PROVE  /\ agent'[b] # Null
                 /\ rotation'[b][q].old # rotation'[b][q].new
                 /\ key'[b][rotation'[b][q].old] # Null
                 /\ ~rotation'[b][q].approved /\ key'[b][rotation'[b][q].new] # Null =>
                      ~Live(b, rotation[b][q].old)'
      <4>0. PICK o, n : o = rotation[b][q].old /\ n = rotation[b][q].new
        OBVIOUS
      <4>1. rotation'[b][q] = rotation[b][q] /\ rotation[b][q] # Null /\ rotation[b][q] \in RotationRow
        BY <3>2, <2>1 DEF KeysTypeOK
      <4>2. /\ agent[b] # Null /\ o # n /\ key[b][o] # Null /\ o \in Keys /\ n \in Keys
            /\ ~rotation[b][q].approved /\ key[b][n] # Null => ~Live(b, o)
        BY <4>0, <4>1 DEF Pedigree, RotationRow
      <4>3. /\ key'[b][o] # Null /\ (key'[b][n] = Null <=> key[b][n] = Null)
            /\ Live(b, o)' => Live(b, o)
        BY <4>2, <2>1
      <4> QED BY <4>0, <4>1, <4>2, <4>3, <2>1
    <3> QED BY <3>1, <3>2 DEF Pedigree
  <2> QED BY <2>2, <2>3
<1>7. CASE UNCHANGED keyVars
  BY <1>7 DEF keyVars, Pedigree, KeyLine, Active, Live
<1> QED BY <1>1, <1>2, <1>3, <1>4, <1>5, <1>6, <1>7 DEF KeysNext

\* Only an enrollment gives a host to an agent, and it looks first.
LEMMA HostStep ==
  KeysTypeOK /\ Pedigree /\ OneAgentPerHost /\ [KeysNext]_keyVars => OneAgentPerHost'
<1> SUFFICES ASSUME KeysTypeOK, Pedigree, OneAgentPerHost, [KeysNext]_keyVars
             PROVE  OneAgentPerHost'
  OBVIOUS
<1>1. CASE \E a \in Agents, h \in Hosts, k \in Keys, n \in Nonces : Enroll(a, h, k, n)
  <2> PICK a \in Agents, h \in Hosts, k \in Keys, n \in Nonces : Enroll(a, h, k, n)
    BY <1>1
  <2>1. agent'[a].host = h /\ \A b \in Agents \ {a} : agent'[b] = agent[b]
    BY EnrollEffect
  <2>2. \A b \in Agents : Active(b) => agent[b].host # h
    BY DEF Enroll
  <2>3. \A b \in Agents \ {a} : Active(b)' => Active(b)
    BY <2>1 DEF Active
  <2>4. ASSUME NEW b \in Agents, NEW c \in Agents, Active(b)', Active(c)',
               agent'[b].host = agent'[c].host
        PROVE  b = c
    <3>1. CASE b # a /\ c # a
      BY <3>1, <2>1, <2>3, <2>4 DEF OneAgentPerHost
    <3>2. CASE b = a /\ c # a
      BY <3>2, <2>1, <2>2, <2>3, <2>4
    <3>3. CASE b # a /\ c = a
      BY <3>3, <2>1, <2>2, <2>3, <2>4
    <3> QED BY <3>1, <3>2, <3>3
  <2> QED BY <2>4 DEF OneAgentPerHost
<1>2. CASE \/ \E d \in Decisions, a \in Agents, k \in Keys : RevokeKey(d, a, k)
           \/ \E d \in Decisions, a \in Agents : RevokeEnrollment(d, a)
  <2>1. \A b \in Agents :
          /\ Active(b)' => Active(b)
          /\ agent'[b] # Null => agent'[b].host = agent[b].host
    BY <1>2, MarkEffect
  <2>2. \A b \in Agents : Active(b)' => Active(b) /\ agent'[b].host = agent[b].host
    BY <2>1 DEF Active
  <2> QED BY <2>2 DEF OneAgentPerHost
<1>3. CASE UNCHANGED agent
  BY <1>3 DEF OneAgentPerHost, Active
<1>4. Tick \/ (\E n \in Nonces : IssueChallenge(n)) \/ UNCHANGED keyVars
      \/ (\E a \in Agents, r \in Requests, j, k \in Keys, n \in Nonces :
            RequestRotation(a, r, j, k, n))
      \/ (\E a \in Agents, r \in Requests : ApproveRotation(a, r)) => UNCHANGED agent
  BY DEF Tick, IssueChallenge, keyVars, RequestRotation, ApproveRotation
<1> QED BY <1>1, <1>2, <1>3, <1>4 DEF KeysNext

\* A challenge that was issued is never issued again, and a spent one stays
\* spent.
LEMMA NoncesLast ==
  ASSUME KeysTypeOK, [KeysNext]_keyVars, NEW n \in Nonces, nonce[n] # Null
  PROVE  nonce'[n] # Null /\ (nonce[n].consumed => nonce'[n].consumed)
<1> USE RowsAssumption
<1>1. nonce[n] \in NonceRow
  BY DEF KeysTypeOK
<1>2. ASSUME NEW m \in Nonces, nonce' = [nonce EXCEPT ![m].consumed = TRUE],
             nonce[m] # Null
      PROVE  nonce'[n] # Null /\ (nonce[n].consumed => nonce'[n].consumed)
  <2>1. CASE m = n
    <3>1. nonce'[n] = [nonce[n] EXCEPT !.consumed = TRUE]
      BY <1>2, <2>1 DEF KeysTypeOK
    <3>2. nonce'[n] \in NonceRow /\ nonce'[n].consumed
      BY <1>1, <3>1 DEF NonceRow
    <3> QED BY <3>2
  <2>2. CASE m # n
    BY <1>2, <2>2 DEF KeysTypeOK
  <2> QED BY <2>1, <2>2
<1>3. CASE \E m \in Nonces : IssueChallenge(m)
  BY <1>3 DEF IssueChallenge, KeysTypeOK
<1>4. CASE \E a \in Agents, h \in Hosts, k \in Keys, m \in Nonces : Enroll(a, h, k, m)
  <2> PICK a \in Agents, h \in Hosts, k \in Keys, m \in Nonces : Enroll(a, h, k, m)
    BY <1>4
  <2>1. nonce' = [nonce EXCEPT ![m].consumed = TRUE] /\ nonce[m] # Null
    BY DEF Enroll
  <2> QED BY <2>1, <1>2
<1>5. CASE \E a \in Agents, r \in Requests, j, k \in Keys, m \in Nonces :
             RequestRotation(a, r, j, k, m)
  <2> PICK a \in Agents, r \in Requests, j \in Keys, k \in Keys, m \in Nonces :
        RequestRotation(a, r, j, k, m)
    BY <1>5
  <2>1. nonce' = [nonce EXCEPT ![m].consumed = TRUE] /\ nonce[m] # Null
    BY DEF RequestRotation
  <2> QED BY <2>1, <1>2
<1>6. CASE UNCHANGED nonce
  BY <1>6
<1>7. Tick \/ UNCHANGED keyVars
      \/ (\E a \in Agents, r \in Requests : ApproveRotation(a, r))
      \/ (\E d \in Decisions, a \in Agents, k \in Keys : RevokeKey(d, a, k))
      \/ (\E d \in Decisions, a \in Agents : RevokeEnrollment(d, a)) => UNCHANGED nonce
  BY DEF Tick, keyVars, ApproveRotation, RevokeKey, RevokeEnrollment
<1> QED BY <1>3, <1>4, <1>5, <1>6, <1>7 DEF KeysNext

\* The challenges that agents and proposals rest on, spelled out.
LEMMA SpentOnceUnfolded ==
  NonceSpentOnce <=>
    /\ \A a, b \in Agents :
         agent[a] # Null /\ agent[b] # Null /\ agent[a].proof \in Nonces
           /\ agent[a].proof = agent[b].proof => a = b
    /\ \A x, y \in Agents \X Requests :
         rotation[x[1]][x[2]] # Null /\ rotation[y[1]][y[2]] # Null
           /\ rotation[x[1]][x[2]].nonce \in Nonces
           /\ rotation[x[1]][x[2]].nonce = rotation[y[1]][y[2]].nonce => x = y
    /\ \A a \in Agents, y \in Agents \X Requests :
         agent[a] # Null /\ rotation[y[1]][y[2]] # Null /\ agent[a].proof \in Nonces =>
           agent[a].proof # rotation[y[1]][y[2]].nonce
  BY DEF NonceSpentOnce

\* A step that changes at most who rests on the unspent challenge n keeps
\* NonceSpentOnce: E are the agents, P the proposals, that come to rest on it.
LEMMA OneNewProof ==
  ASSUME Spent, NonceSpentOnce, NEW n \in Nonces, NEW E \in SUBSET Agents,
         NEW P \in SUBSET (Agents \X Requests),
         E # {} \/ P # {} => nonce[n] # Null /\ ~nonce[n].consumed,
         \A b, c \in E : b = c,
         \A x, y \in P : x = y,
         E = {} \/ P = {},
         \A b \in E : agent'[b].proof = n,
         \A x \in P : rotation'[x[1]][x[2]].nonce = n,
         \A b \in Agents \ E : agent'[b] # Null => agent[b] # Null /\ agent'[b].proof = agent[b].proof,
         \A x \in (Agents \X Requests) \ P : rotation'[x[1]][x[2]] # Null =>
            /\ rotation[x[1]][x[2]] # Null
            /\ rotation'[x[1]][x[2]].nonce = rotation[x[1]][x[2]].nonce
  PROVE  NonceSpentOnce'
<1>1. \A b \in Agents : E # {} \/ P # {} => (agent[b] # Null => agent[b].proof # n)
  BY DEF Spent
<1>2. \A x \in Agents \X Requests : E # {} \/ P # {} =>
        (rotation[x[1]][x[2]] # Null => rotation[x[1]][x[2]].nonce # n)
  BY DEF Spent
<1>3. /\ \A a, b \in Agents :
           agent[a] # Null /\ agent[b] # Null /\ agent[a].proof \in Nonces
             /\ agent[a].proof = agent[b].proof => a = b
      /\ \A x, y \in Agents \X Requests :
           rotation[x[1]][x[2]] # Null /\ rotation[y[1]][y[2]] # Null
             /\ rotation[x[1]][x[2]].nonce \in Nonces
             /\ rotation[x[1]][x[2]].nonce = rotation[y[1]][y[2]].nonce => x = y
      /\ \A a \in Agents, y \in Agents \X Requests :
           agent[a] # Null /\ rotation[y[1]][y[2]] # Null /\ agent[a].proof \in Nonces =>
             agent[a].proof # rotation[y[1]][y[2]].nonce
  BY SpentOnceUnfolded
<1>4. ASSUME NEW a \in Agents, NEW b \in Agents, agent'[a] # Null, agent'[b] # Null,
             agent'[a].proof \in Nonces, agent'[a].proof = agent'[b].proof
      PROVE  a = b
  <2>1. CASE a \in E /\ b \in E
    BY <2>1
  <2>2. CASE a \in E /\ b \notin E
    BY <2>2, <1>1, <1>4
  <2>3. CASE a \notin E /\ b \in E
    BY <2>3, <1>1, <1>4
  <2>4. CASE a \notin E /\ b \notin E
    BY <2>4, <1>3, <1>4
  <2> QED BY <2>1, <2>2, <2>3, <2>4
<1>5. ASSUME NEW x \in Agents \X Requests, NEW y \in Agents \X Requests,
             rotation'[x[1]][x[2]] # Null, rotation'[y[1]][y[2]] # Null,
             rotation'[x[1]][x[2]].nonce \in Nonces,
             rotation'[x[1]][x[2]].nonce = rotation'[y[1]][y[2]].nonce
      PROVE  x = y
  <2>1. CASE x \in P /\ y \in P
    BY <2>1
  <2>2. CASE x \in P /\ y \notin P
    BY <2>2, <1>2, <1>5
  <2>3. CASE x \notin P /\ y \in P
    BY <2>3, <1>2, <1>5
  <2>4. CASE x \notin P /\ y \notin P
    BY <2>4, <1>3, <1>5
  <2> QED BY <2>1, <2>2, <2>3, <2>4
<1>6. ASSUME NEW a \in Agents, NEW y \in Agents \X Requests,
             agent'[a] # Null, rotation'[y[1]][y[2]] # Null, agent'[a].proof \in Nonces
      PROVE  agent'[a].proof # rotation'[y[1]][y[2]].nonce
  <2>1. CASE a \in E
    BY <2>1, <1>2, <1>6
  <2>2. CASE a \notin E /\ y \in P
    BY <2>2, <1>1, <1>6
  <2>3. CASE a \notin E /\ y \notin P
    BY <2>3, <1>3, <1>6
  <2> QED BY <2>1, <2>2, <2>3
<1> QED BY <1>4, <1>5, <1>6 DEF NonceSpentOnce

\* Every step keeps the challenges spent, and spent once.
LEMMA NonceStep ==
  KeysTypeOK /\ KeysTypeOK' /\ Pedigree /\ Spent /\ NonceSpentOnce /\ [KeysNext]_keyVars =>
    Spent' /\ NonceSpentOnce'
<1> SUFFICES ASSUME KeysTypeOK, KeysTypeOK', Pedigree, Spent, NonceSpentOnce, [KeysNext]_keyVars
             PROVE  Spent' /\ NonceSpentOnce'
  OBVIOUS
<1> USE RowsAssumption
<1>0. \A n \in Nonces : nonce[n] # Null => nonce'[n] # Null /\ (nonce[n].consumed => nonce'[n].consumed)
  BY NoncesLast
<1>1. /\ \A b \in Agents : agent[b] # Null => agent[b].proof \in Nonces
      /\ \A b \in Agents, q \in Requests : rotation[b][q] # Null => rotation[b][q].nonce \in Nonces
  BY DEF KeysTypeOK, AgentRow, RotationRow
\* A step that adds no proof.
<1>2. ASSUME \A b \in Agents : agent'[b] # Null => agent[b] # Null /\ agent'[b].proof = agent[b].proof,
             \A b \in Agents, q \in Requests : rotation'[b][q] # Null =>
               rotation[b][q] # Null /\ rotation'[b][q].nonce = rotation[b][q].nonce
      PROVE  Spent' /\ NonceSpentOnce'
  <2>1. Spent'
    BY <1>0, <1>1, <1>2 DEF Spent
  <2>2. NonceSpentOnce'
    BY <1>2, SpentOnceUnfolded, SMTT(30) DEF NonceSpentOnce
  <2> QED BY <2>1, <2>2
<1>3. CASE Tick \/ (\E n \in Nonces : IssueChallenge(n)) \/ UNCHANGED keyVars
  <2>1. agent' = agent /\ rotation' = rotation
    BY <1>3 DEF Tick, IssueChallenge, keyVars
  <2> QED BY <1>2, <2>1
<1>4. CASE \/ \E d \in Decisions, a \in Agents, k \in Keys : RevokeKey(d, a, k)
           \/ \E d \in Decisions, a \in Agents : RevokeEnrollment(d, a)
  <2>1. /\ rotation' = rotation
        /\ \A b \in Agents :
             /\ agent'[b] = Null <=> agent[b] = Null
             /\ agent'[b] # Null => agent'[b].proof = agent[b].proof
    BY <1>4, MarkEffect
  <2> QED BY <1>2, <2>1
<1>5. CASE \E a \in Agents, r \in Requests : ApproveRotation(a, r)
  <2> PICK a \in Agents, r \in Requests : ApproveRotation(a, r)
    BY <1>5
  <2>1. rotation[a][r] \in RotationRow /\ rotation[a][r] # Null /\ agent' = agent
    BY DEF ApproveRotation, KeysTypeOK
  <2>2. rotation' = [rotation EXCEPT ![a] = [rotation[a] EXCEPT ![r] =
                       [rotation[a][r] EXCEPT !.approved = TRUE]]]
    BY DEF ApproveRotation, KeysTypeOK
  <2>3. [rotation[a][r] EXCEPT !.approved = TRUE].nonce = rotation[a][r].nonce
    BY <2>1 DEF RotationRow
  <2>4. /\ rotation'[a][r].nonce = rotation[a][r].nonce
        /\ \A b \in Agents, q \in Requests : b # a \/ q # r => rotation'[b][q] = rotation[b][q]
    BY <2>2, <2>3 DEF KeysTypeOK
  <2> QED BY <1>2, <2>1, <2>4
<1>6. CASE \E a \in Agents, h \in Hosts, k \in Keys, n \in Nonces : Enroll(a, h, k, n)
  <2> PICK a \in Agents, h \in Hosts, k \in Keys, n \in Nonces : Enroll(a, h, k, n)
    BY <1>6
  <2>1. /\ agent'[a].proof = n /\ rotation' = rotation
        /\ \A b \in Agents \ {a} : agent'[b] = agent[b]
    BY EnrollEffect
  <2>2. nonce[n] # Null /\ ~nonce[n].consumed /\ nonce[n] \in NonceRow
        /\ nonce' = [nonce EXCEPT ![n].consumed = TRUE]
    BY DEF Enroll, KeysTypeOK
  <2>3. nonce'[n] # Null /\ nonce'[n].consumed
    <3>1. nonce'[n] = [nonce[n] EXCEPT !.consumed = TRUE]
      BY <2>2 DEF KeysTypeOK
    <3>2. nonce'[n] \in NonceRow /\ nonce'[n].consumed
      BY <2>2, <3>1 DEF NonceRow
    <3> QED BY <3>2
  <2>4. Spent'
    BY <1>0, <1>1, <2>1, <2>3 DEF Spent
  <2>5. NonceSpentOnce'
    <3> DEFINE E == {a}
               P == {}
    <3>1. /\ E \in SUBSET Agents /\ P \in SUBSET (Agents \X Requests)
          /\ \A b, c \in E : b = c
          /\ \A x, y \in P : x = y
          /\ E = {} \/ P = {}
          /\ \A b \in E : agent'[b].proof = n
          /\ \A x \in P : rotation'[x[1]][x[2]].nonce = n
          /\ \A b \in Agents \ E : agent'[b] # Null => agent[b] # Null /\ agent'[b].proof = agent[b].proof
      BY <2>1
    <3>2. \A x \in (Agents \X Requests) \ P : rotation'[x[1]][x[2]] # Null =>
            /\ rotation[x[1]][x[2]] # Null
            /\ rotation'[x[1]][x[2]].nonce = rotation[x[1]][x[2]].nonce
      BY <2>1
    <3> HIDE DEF E, P
    <3> QED BY <2>2, <3>1, <3>2, OneNewProof
  <2> QED BY <2>4, <2>5
<1>7. CASE \E a \in Agents, r \in Requests, j, k \in Keys, n \in Nonces :
             RequestRotation(a, r, j, k, n)
  <2> PICK a \in Agents, r \in Requests, j \in Keys, k \in Keys, n \in Nonces :
        RequestRotation(a, r, j, k, n)
    BY <1>7
  <2>1. nonce[n] # Null /\ ~nonce[n].consumed /\ nonce[n] \in NonceRow
        /\ nonce' = [nonce EXCEPT ![n].consumed = TRUE] /\ agent' = agent
    BY DEF RequestRotation, KeysTypeOK
  <2>2. nonce'[n] # Null /\ nonce'[n].consumed
    <3>1. nonce'[n] = [nonce[n] EXCEPT !.consumed = TRUE]
      BY <2>1 DEF KeysTypeOK
    <3>2. nonce'[n] \in NonceRow /\ nonce'[n].consumed
      BY <2>1, <3>1 DEF NonceRow
    <3> QED BY <3>2
  <2>3. rotation' = [rotation EXCEPT ![a] = [rotation[a] EXCEPT ![r] =
                       [old |-> j, new |-> k, nonce |-> n, expires |-> nonce[n].expires,
                        approved |-> FALSE]]]
    BY DEF RequestRotation, KeysTypeOK
  <2>4. /\ rotation'[a][r].nonce = n
        /\ \A b \in Agents, q \in Requests : b # a \/ q # r => rotation'[b][q] = rotation[b][q]
    BY <2>3 DEF KeysTypeOK
  <2>5. Spent'
    <3>1. \A b \in Agents : agent'[b] # Null => nonce'[agent'[b].proof] # Null /\ nonce'[agent'[b].proof].consumed
      BY <1>0, <1>1, <2>1 DEF Spent
    <3>2. ASSUME NEW b \in Agents, NEW q \in Requests, rotation'[b][q] # Null
          PROVE  nonce'[rotation'[b][q].nonce] # Null /\ nonce'[rotation'[b][q].nonce].consumed
      <4>1. CASE b = a /\ q = r
        BY <4>1, <2>2, <2>4
      <4>2. CASE b # a \/ q # r
        BY <4>2, <3>2, <1>0, <1>1, <2>4 DEF Spent
      <4> QED BY <4>1, <4>2
    <3> QED BY <3>1, <3>2 DEF Spent
  <2>6. NonceSpentOnce'
    <3> DEFINE E == {}
               P == {<<a, r>>}
    <3>1. /\ E \in SUBSET Agents /\ P \in SUBSET (Agents \X Requests)
          /\ \A b, c \in E : b = c
          /\ \A x, y \in P : x = y
          /\ E = {} \/ P = {}
          /\ \A b \in E : agent'[b].proof = n
          /\ \A b \in Agents \ E : agent'[b] # Null => agent[b] # Null /\ agent'[b].proof = agent[b].proof
      BY <2>1
    <3>2. \A x \in P : rotation'[x[1]][x[2]].nonce = n
      BY <2>4
    <3>3. \A x \in (Agents \X Requests) \ P : rotation'[x[1]][x[2]] # Null =>
            /\ rotation[x[1]][x[2]] # Null
            /\ rotation'[x[1]][x[2]].nonce = rotation[x[1]][x[2]].nonce
      <4>1. \A x \in (Agents \X Requests) \ P : x[1] \in Agents /\ x[2] \in Requests /\ (x[1] # a \/ x[2] # r)
        OBVIOUS
      <4> QED BY <4>1, <2>4
    <3> HIDE DEF E, P
    <3> QED BY <2>1, <3>1, <3>2, <3>3, OneNewProof
  <2> QED BY <2>5, <2>6
<1> QED BY <1>3, <1>4, <1>5, <1>6, <1>7 DEF KeysNext

\* A key row stays, and each of its two marks is set once, to the current
\* time.
LEMMA KeyRowsAge ==
  ASSUME KeysTypeOK, Pedigree, KeyLine, [KeysNext]_keyVars,
         NEW b \in Agents, NEW j \in Keys, key[b][j] # Null
  PROVE  /\ key'[b][j] # Null
         /\ key'[b][j].from = key[b][j].from
         /\ \/ key'[b][j].retired = key[b][j].retired
            \/ key[b][j].retired = Null /\ key'[b][j].retired = now
         /\ \/ key'[b][j].compromised = key[b][j].compromised
            \/ key[b][j].compromised = Null /\ key'[b][j].compromised = now
         /\ now' \in Nat /\ now <= now'
<1> USE KeysAssumption
<1>0. now \in Nat
  BY DEF KeysTypeOK, Time
<1>1. CASE \E a \in Agents, h \in Hosts, k \in Keys, n \in Nonces : Enroll(a, h, k, n)
  <2> PICK a \in Agents, h \in Hosts, k \in Keys, n \in Nonces : Enroll(a, h, k, n)
    BY <1>1
  <2>1. /\ \A i \in Keys : key[a][i] = Null
        /\ \A c \in Agents \ {a} : key'[c] = key[c]
        /\ now' = now
    BY EnrollEffect
  <2> QED BY <1>0, <2>1
<1>2. CASE \E a \in Agents, r \in Requests : ApproveRotation(a, r)
  <2> PICK a \in Agents, r \in Requests : ApproveRotation(a, r)
    BY <1>2
  <2>0. PICK old, new : old = rotation[a][r].old /\ new = rotation[a][r].new
    OBVIOUS
  <2>1. /\ key[a][old].retired = Null /\ key[a][new] = Null
        /\ key'[a][old].from = key[a][old].from
        /\ key'[a][old].compromised = key[a][old].compromised
        /\ key'[a][old].retired = now /\ key'[a][old] # Null
        /\ \A i \in Keys \ {old, new} : key'[a][i] = key[a][i]
        /\ \A c \in Agents \ {a} : key'[c] = key[c]
        /\ now' = now
    BY <2>0, ApproveEffect
  <2> QED BY <1>0, <2>1
<1>3. CASE \/ \E d \in Decisions, a \in Agents, k \in Keys : RevokeKey(d, a, k)
           \/ \E d \in Decisions, a \in Agents : RevokeEnrollment(d, a)
  <2>1. /\ now' = now
        /\ key'[b][j] # Null
        /\ key'[b][j].from = key[b][j].from
        /\ key[b][j].retired # Null => key'[b][j].retired = key[b][j].retired
        /\ key'[b][j].retired \in {key[b][j].retired, now}
        /\ key[b][j].compromised # Null => key'[b][j].compromised = key[b][j].compromised
        /\ key'[b][j].compromised \in {key[b][j].compromised, now}
    BY <1>3, MarkEffect
  <2> QED BY <1>0, <2>1
<1>4. CASE key' = key /\ (now' = now \/ now' = now + 1)
  BY <1>0, <1>4
<1>5. Tick \/ (\E n \in Nonces : IssueChallenge(n)) \/ UNCHANGED keyVars
      \/ (\E a \in Agents, r \in Requests, i, k \in Keys, n \in Nonces :
            RequestRotation(a, r, i, k, n)) => key' = key /\ (now' = now \/ now' = now + 1)
  BY DEF Tick, IssueChallenge, keyVars, RequestRotation
<1> QED BY <1>1, <1>2, <1>3, <1>4, <1>5 DEF KeysNext

----------------------------------------------------------------------------
\* The initial tables are empty.
LEMMA KeysInitInv == KeysInit => KeysInv
<1> SUFFICES ASSUME KeysInit PROVE KeysInv
  OBVIOUS
<1>1. KeysTypeOK
  BY KeysInitTyped
<1>2. /\ \A b \in Agents : agent[b] = Null
      /\ \A b \in Agents, k \in Keys : key[b][k] = Null
      /\ \A b \in Agents, q \in Requests : rotation[b][q] = Null
  BY DEF KeysInit
<1>3. Pedigree /\ Spent /\ KeyLine
  BY <1>2 DEF Pedigree, Spent, KeyLine
<1>4. OneAgentPerHost
  BY <1>2 DEF OneAgentPerHost, Active
<1>5. NonceSpentOnce
  BY <1>2, SpentOnceUnfolded
<1> QED BY <1>1, <1>3, <1>4, <1>5 DEF KeysInv

\* Every step keeps the inductive invariant.
LEMMA KeysStepInv == KeysInv /\ [KeysNext]_keyVars => KeysInv'
<1> SUFFICES ASSUME KeysInv, [KeysNext]_keyVars PROVE KeysInv'
  OBVIOUS
<1>1. KeysTypeOK /\ Pedigree /\ Spent /\ KeyLine /\ OneAgentPerHost /\ NonceSpentOnce
  BY DEF KeysInv
<1>2. KeysTypeOK'
  BY <1>1, KeysStepTyped
<1>3. Pedigree' /\ KeyLine'
  BY <1>1, <1>2, KeyLineStep
<1>4. OneAgentPerHost'
  BY <1>1, HostStep
<1>5. Spent' /\ NonceSpentOnce'
  BY <1>1, <1>2, NonceStep
<1> QED BY <1>2, <1>3, <1>4, <1>5 DEF KeysInv

\* The identity tables (artifact_keys.py, auth.py) stay typed, and the
\* identities stay sound.
THEOREM IdentitiesAreSound == KeysSpec => [](KeysTypeOK /\ IdentitiesSound)
<1>1. KeysInv => KeysTypeOK /\ IdentitiesSound
  BY DEF KeysInv, IdentitiesSound
<1> QED BY KeysInitInv, KeysStepInv, <1>1, PTL DEF KeysSpec
=============================================================================
