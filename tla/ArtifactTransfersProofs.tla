----------------------- MODULE ArtifactTransfersProofs -----------------------
(***************************************************************************)
(* Proofs about ArtifactTransfers: the identities of ArtifactKeys stay     *)
(* sound when uploads run beside them, nothing is half committed, and the  *)
(* key of all evidence vouched for it in time; the usage counters are the  *)
(* sums over the tables, and every open session fits the quotas.           *)
(***************************************************************************)
EXTENDS ArtifactTransfers, ArtifactKeysProofs, SequenceTheorems, FiniteSetTheorems,
        WellFoundedInduction

\* The tables of uploads are typed, and a session is filed under the artifact
\* its manifest names.
UploadsTyped ==
  /\ session \in [Artifacts -> SessionRow \cup {Null}]
  /\ retained \in [Artifacts -> RetainedRow \cup {Null}]
  /\ \A x \in Artifacts : session[x] # Null => session[x].manifest.artifact = x

\* Signed evidence was verified at some time that has passed.
VerifiedPast ==
  \A x \in Artifacts :
    retained[x] # Null /\ retained[x].manifest # Null =>
      retained[x].verified \in Nat /\ retained[x].verified <= now

Inv == KeysInv /\ UploadsTyped /\ VerifiedPast /\ NoHalfCommit /\ KeyVouchedInTime

----------------------------------------------------------------------------
(* What a step does to one artifact.                                       *)

\* Nothing but opening, filling or expiring a session that is not complete.
Kept(x) ==
  /\ retained'[x] = retained[x]
  /\ \/ session'[x] = session[x]
     \/ /\ session'[x] \in SessionRow
        /\ session'[x].state # "COMPLETE"
        /\ session'[x].manifest.artifact = x
        /\ session[x] # Null => session[x].state # "COMPLETE"
        /\ session'[x].state = "OPEN" =>
             retained[x] = Null /\ Len(session'[x].chunks) <= session'[x].manifest.size

\* The evidence is retained, out of its session or in one body.
Gained(x, m) ==
  /\ m.artifact = x
  /\ retained[x] = Null
  /\ retained'[x] \in RetainedRow
  /\ retained'[x].manifest = m
  /\ retained'[x].verified = now
  /\ Len(retained'[x].content) = m.size
  /\ \A i \in DOMAIN retained'[x].content : retained'[x].content[i]
  /\ \/ /\ session'[x] \in SessionRow
        /\ session'[x].state = "COMPLETE"
        /\ session'[x].manifest = m
        /\ Verified(m, session'[x].admitted)
     \/ /\ session'[x] = session[x]
        /\ session[x] # Null => session[x].state # "OPEN"
        /\ Verified(m, Null)

UploadStep ==
  /\ session' \in [Artifacts -> SessionRow \cup {Null}]
  /\ retained' \in [Artifacts -> RetainedRow \cup {Null}]
  /\ \A x \in Artifacts : Kept(x) \/ \E m \in Manifests : Gained(x, m)

----------------------------------------------------------------------------
\* Manifests name agents and keys, and have a size.
LEMMA ManifestFields ==
  ASSUME NEW m \in Manifests
  PROVE  /\ m.artifact \in Artifacts /\ m.agent \in Agents /\ m.key \in Keys
         /\ m.command \in Commands /\ m.size \in Nat /\ m # Null
  BY TransfersAssumption DEF Manifest

\* The sweep of overdue sessions, one artifact at a time.
LEMMA SweptEffect ==
  ASSUME UploadsTyped, NoHalfCommit, NEW x \in Artifacts
  PROVE  \/ Swept[x] = session[x]
         \/ /\ session[x] # Null /\ session[x].state = "OPEN"
            /\ Swept[x] \in SessionRow /\ Swept[x].state = "EXPIRED"
            /\ Swept[x].manifest = session[x].manifest
<1>1. CASE x \in Overdue
  <2>1. session[x] # Null /\ session[x].state = "OPEN" /\ session[x] \in SessionRow
    BY <1>1 DEF Overdue, Open, InState, UploadsTyped
  <2>2. PICK closed : closed = [session[x] EXCEPT !.state = "EXPIRED"]
    OBVIOUS
  <2>3. closed \in SessionRow /\ closed.state = "EXPIRED" /\ closed.manifest = session[x].manifest
    BY <2>1, <2>2 DEF SessionRow
  <2>4. Swept[x] = [closed EXCEPT !.chunks = <<>>]
    BY <1>1, <2>2 DEF Swept
  <2>5. <<>> \in Seq(BOOLEAN)
    OBVIOUS
  <2>6. Swept[x] \in SessionRow /\ Swept[x].state = "EXPIRED" /\ Swept[x].manifest = closed.manifest
    BY <2>3, <2>4, <2>5 DEF SessionRow
  <2> QED BY <2>1, <2>3, <2>6
<1>2. CASE x \notin Overdue
  BY <1>2 DEF Swept
<1> QED BY <1>1, <1>2

\* The sweep is a table of sessions.
LEMMA SweptTyped ==
  ASSUME UploadsTyped, NoHalfCommit
  PROVE  Swept \in [Artifacts -> SessionRow \cup {Null}]
<1>1. \A x \in Artifacts : Swept[x] \in SessionRow \cup {Null}
  BY SweptEffect DEF UploadsTyped
<1>2. Swept = [x \in Artifacts |-> Swept[x]]
  BY DEF Swept
<1> QED BY <1>1, <1>2

\* Sweeping keeps every artifact.
LEMMA SweptKeeps ==
  ASSUME UploadsTyped, NoHalfCommit, NEW x \in Artifacts,
         session'[x] = Swept[x], retained'[x] = retained[x]
  PROVE  Kept(x)
<1>1. CASE Swept[x] = session[x]
  BY <1>1 DEF Kept
<1>2. CASE /\ session[x] # Null /\ session[x].state = "OPEN"
           /\ Swept[x] \in SessionRow /\ Swept[x].state = "EXPIRED"
           /\ Swept[x].manifest = session[x].manifest
  BY <1>2 DEF Kept, UploadsTyped
<1> QED BY <1>1, <1>2, SweptEffect

----------------------------------------------------------------------------
(* Each operation on uploads.                                              *)

\* A request that only sweeps.
LEMMA AnswerStep == UploadsTyped /\ NoHalfCommit /\ Answer => UploadStep
<1> SUFFICES ASSUME UploadsTyped, NoHalfCommit, Answer PROVE UploadStep
  OBVIOUS
<1>1. session' = Swept /\ retained' = retained
  BY DEF Answer
<1> QED BY <1>1, SweptTyped, SweptKeeps DEF UploadStep, UploadsTyped

\* An admission.
LEMMA AdmitStep ==
  ASSUME KeysTypeOK, UploadsTyped, NoHalfCommit, NEW m \in Manifests, Admit(m)
  PROVE  UploadStep
<1> DEFINE x == m.artifact
           row == [manifest |-> m, state |-> "OPEN", chunks |-> <<>>,
                   admitted |-> now, expires |-> now + Lifetime]
<1>1. x \in Artifacts /\ m.size \in Nat
  BY ManifestFields
<1>2. /\ session' = [Swept EXCEPT ![x] = row] /\ retained' = retained
      /\ retained[x] = Null
      /\ session[x] # Null => Swept[x].state = "EXPIRED"
  BY DEF Admit
<1>3. row \in SessionRow
  <2>1. now \in Time /\ now + Lifetime \in Nat
    BY KeysAssumption, TransfersAssumption DEF KeysTypeOK, Time
  <2>2. <<>> \in Seq(BOOLEAN)
    OBVIOUS
  <2> QED BY <2>1, <2>2 DEF SessionRow
<1>4. Swept \in [Artifacts -> SessionRow \cup {Null}]
  BY SweptTyped
<1>5. /\ session' \in [Artifacts -> SessionRow \cup {Null}]
      /\ session'[x] = row
      /\ \A y \in Artifacts \ {x} : session'[y] = Swept[y]
  <2> HIDE DEF row, x
  <2> QED BY <1>1, <1>2, <1>3, <1>4
<1>6. Kept(x)
  <2>1. session[x] # Null => session[x].state # "COMPLETE"
    BY <1>1, <1>2, SweptEffect
  <2>2. Len(row.chunks) <= row.manifest.size /\ row.state = "OPEN" /\ row.manifest = m
    BY <1>1
  <2> HIDE DEF row
  <2> QED BY <1>2, <1>3, <1>5, <2>1, <2>2 DEF Kept
<1>7. \A y \in Artifacts \ {x} : Kept(y)
  BY <1>2, <1>5, SweptKeeps
<1> QED BY <1>2, <1>5, <1>6, <1>7 DEF UploadStep, UploadsTyped

\* One more chunk.
LEMMA ChunkStep ==
  ASSUME UploadsTyped, NoHalfCommit, NEW x \in Artifacts, NEW good \in BOOLEAN,
         PutChunk(x, good)
  PROVE  UploadStep
<1>1. /\ session[x] # Null /\ session[x].state = "OPEN" /\ session[x] \in SessionRow
      /\ Len(session[x].chunks) < session[x].manifest.size
      /\ retained' = retained
  BY DEF PutChunk, Loaded, UploadsTyped
<1>2. session[x].chunks \in Seq(BOOLEAN) /\ session[x].manifest \in Manifests
  BY <1>1 DEF SessionRow
<1>3. PICK more : more = Append(session[x].chunks, good)
  OBVIOUS
<1>4. more \in Seq(BOOLEAN) /\ Len(more) <= session[x].manifest.size
  BY <1>1, <1>2, <1>3, ManifestFields
<1>5. PICK row : row = [session[x] EXCEPT !.chunks = more]
  OBVIOUS
<1>6. /\ row \in SessionRow /\ row.state = "OPEN" /\ row.chunks = more
      /\ row.manifest = session[x].manifest
  BY <1>1, <1>4, <1>5 DEF SessionRow
<1>7. session' = [session EXCEPT ![x] = row]
  BY <1>3, <1>5 DEF PutChunk
<1>8. /\ session' \in [Artifacts -> SessionRow \cup {Null}]
      /\ session'[x] = row
      /\ \A y \in Artifacts \ {x} : session'[y] = session[y]
  BY <1>6, <1>7 DEF UploadsTyped
<1>9. retained[x] = Null
  BY <1>1 DEF NoHalfCommit, Open, InState
<1>10. Kept(x)
  BY <1>1, <1>4, <1>6, <1>8, <1>9 DEF Kept, UploadsTyped
<1>11. \A y \in Artifacts \ {x} : Kept(y)
  BY <1>1, <1>8 DEF Kept
<1> QED BY <1>1, <1>8, <1>10, <1>11 DEF UploadStep, UploadsTyped

\* What retaining stores.
LEMMA RetainEffect ==
  ASSUME KeysTypeOK, UploadsTyped, NEW m \in Manifests, NEW u,
         NEW content \in Seq(BOOLEAN), Retain(m, content, u)
  PROVE  /\ retained' \in [Artifacts -> RetainedRow \cup {Null}]
         /\ retained'[m.artifact] \in RetainedRow
         /\ retained'[m.artifact].manifest = m
         /\ retained'[m.artifact].verified = now
         /\ retained'[m.artifact].content = content
         /\ \A y \in Artifacts \ {m.artifact} : retained'[y] = retained[y]
<1>1. m.artifact \in Artifacts /\ m.command \in Commands /\ m.size \in Nat \ {0}
  BY TransfersAssumption DEF Manifest
<1>2. PICK row : row = [command |-> m.command, size |-> m.size, manifest |-> m,
                        verified |-> now, content |-> content]
  OBVIOUS
<1>3. /\ row \in RetainedRow /\ row.manifest = m /\ row.verified = now
      /\ row.content = content
  <2>1. now \in Stamp
    BY DEF KeysTypeOK, Stamp
  <2> QED BY <1>1, <1>2, <2>1 DEF RetainedRow
<1>4. retained' = [retained EXCEPT ![m.artifact] = row]
  BY <1>2 DEF Retain
<1> QED BY <1>1, <1>3, <1>4 DEF UploadsTyped

\* A completion.
LEMMA CompleteStep ==
  ASSUME KeysTypeOK, UploadsTyped, NoHalfCommit, NEW x \in Artifacts, Complete(x)
  PROVE  UploadStep
<1>1. PICK s, m : s = session[x] /\ m = s.manifest
  OBVIOUS
<1>2. /\ s # Null /\ s \in SessionRow /\ s.state = "OPEN" /\ m.artifact = x
      /\ s.chunks \in Seq(BOOLEAN) /\ m \in Manifests
  <2>1. s # Null /\ s.state = "OPEN"
    BY <1>1 DEF Complete, Loaded
  <2>2. s \in SessionRow /\ m.artifact = x
    BY <1>1, <2>1 DEF UploadsTyped
  <2> QED BY <1>1, <2>1, <2>2 DEF SessionRow
<1>3. /\ Len(s.chunks) = m.size /\ \A i \in DOMAIN s.chunks : s.chunks[i]
      /\ retained[x] = Null /\ Verified(m, s.admitted)
      /\ Retain(m, s.chunks, Released({x}))
  BY <1>1 DEF Complete, Loaded
<1>4. PICK closed : closed = [s EXCEPT !.state = "COMPLETE"]
  OBVIOUS
<1>5. /\ closed \in SessionRow /\ closed.state = "COMPLETE"
      /\ closed.manifest = m /\ closed.admitted = s.admitted
  BY <1>1, <1>2, <1>4 DEF SessionRow
<1>6. PICK row : row = [closed EXCEPT !.chunks = <<>>]
  OBVIOUS
<1>7. /\ row \in SessionRow /\ row.state = "COMPLETE"
      /\ row.manifest = m /\ row.admitted = s.admitted
  <2>1. <<>> \in Seq(BOOLEAN)
    OBVIOUS
  <2> QED BY <1>5, <1>6, <2>1 DEF SessionRow
<1>8. session' = [session EXCEPT ![x] = row]
  <2>1. session' = [session EXCEPT ![x].state = "COMPLETE", ![x].chunks = <<>>]
    BY DEF Complete
  <2>2. PICK mid : mid = [session EXCEPT ![x].state = "COMPLETE"]
    OBVIOUS
  <2>3. mid = [session EXCEPT ![x] = closed]
    BY <1>1, <1>4, <2>2
  <2>4. session' = [mid EXCEPT ![x].chunks = <<>>]
    BY <2>1, <2>2
  <2>5. mid[x] = closed
    BY <2>3 DEF UploadsTyped
  <2>6. session' = [mid EXCEPT ![x] = row]
    BY <1>6, <2>4, <2>5
  <2> QED BY <2>3, <2>6 DEF UploadsTyped
<1>9. /\ session' \in [Artifacts -> SessionRow \cup {Null}]
      /\ session'[x] = row
      /\ \A y \in Artifacts \ {x} : session'[y] = session[y]
  BY <1>7, <1>8 DEF UploadsTyped
<1>10. /\ retained' \in [Artifacts -> RetainedRow \cup {Null}]
       /\ retained'[x] \in RetainedRow
       /\ retained'[x].manifest = m
       /\ retained'[x].verified = now
       /\ retained'[x].content = s.chunks
       /\ \A y \in Artifacts \ {x} : retained'[y] = retained[y]
  BY <1>2, <1>3, RetainEffect
<1>11. Gained(x, m)
  BY <1>2, <1>3, <1>7, <1>9, <1>10 DEF Gained
<1>12. \A y \in Artifacts \ {x} : Kept(y)
  BY <1>9, <1>10 DEF Kept
<1> QED BY <1>2, <1>9, <1>10, <1>11, <1>12 DEF UploadStep

\* An upload in one body.
LEMMA UploadSignedStep ==
  ASSUME KeysTypeOK, UploadsTyped, NoHalfCommit, NEW m \in Manifests, UploadSigned(m)
  PROVE  UploadStep
<1>1. PICK x, content : x = m.artifact /\ content = [i \in 1..m.size |-> TRUE]
  OBVIOUS
<1>2. x \in Artifacts /\ m.size \in Nat
  BY <1>1, ManifestFields
<1>3. /\ content \in Seq(BOOLEAN) /\ Len(content) = m.size
      /\ \A i \in DOMAIN content : content[i]
  <2>1. content = [i \in 1..m.size |-> TRUE]
    BY <1>1
  <2>2. content \in Seq(BOOLEAN)
    <3>1. content \in [1..m.size -> BOOLEAN]
      BY <2>1
    <3> QED BY <1>2, <3>1, SeqDef
  <2>3. Len(content) = m.size
    BY <1>2, <2>1
  <2>4. DOMAIN content = 1..m.size
    BY <2>1
  <2>5. \A i \in 1..m.size : content[i]
    BY <2>1
  <2> QED BY <2>2, <2>3, <2>4, <2>5
<1>4. /\ retained[x] = Null /\ Verified(m, Null) /\ x \notin Open
      /\ Retain(m, content, usage) /\ session' = session
  BY <1>1 DEF UploadSigned
<1>5. session[x] # Null => session[x].state # "OPEN"
  BY <1>2, <1>4 DEF Open, InState
<1>6. /\ retained' \in [Artifacts -> RetainedRow \cup {Null}]
      /\ retained'[x] \in RetainedRow
      /\ retained'[x].manifest = m
      /\ retained'[x].verified = now
      /\ retained'[x].content = content
      /\ \A y \in Artifacts \ {x} : retained'[y] = retained[y]
  BY <1>1, <1>3, <1>4, RetainEffect
<1>7. Gained(x, m)
  BY <1>1, <1>3, <1>4, <1>5, <1>6 DEF Gained
<1>8. \A y \in Artifacts \ {x} : Kept(y)
  BY <1>4, <1>6 DEF Kept
<1> QED BY <1>2, <1>4, <1>6, <1>7, <1>8 DEF UploadStep, UploadsTyped

\* What a step is, on either side of the composition.
LEMMA StepSplit ==
  ASSUME KeysTypeOK, UploadsTyped, NoHalfCommit, [Next]_vars
  PROVE  \/ [KeysNext]_keyVars /\ UNCHANGED <<session, retained>>
         \/ UploadStep /\ UNCHANGED keyVars
<1>1. CASE KeyStep \/ UNCHANGED vars
  BY <1>1 DEF KeyStep, vars, transferVars
<1>2. ASSUME NEW m \in Manifests, Admit(m) \/ UploadSigned(m)
      PROVE  UploadStep /\ UNCHANGED keyVars
  <2>1. UNCHANGED keyVars
    BY <1>2 DEF Admit, UploadSigned
  <2> QED BY <1>2, <2>1, AdmitStep, UploadSignedStep
<1>3. CASE Answer
  BY <1>3, AnswerStep DEF Answer
<1>4. ASSUME NEW x \in Artifacts, Complete(x)
      PROVE  UploadStep /\ UNCHANGED keyVars
  BY <1>4, CompleteStep DEF Complete
<1>5. ASSUME NEW x \in Artifacts, NEW good \in BOOLEAN, PutChunk(x, good)
      PROVE  UploadStep /\ UNCHANGED keyVars
  BY <1>5, ChunkStep DEF PutChunk
<1> QED BY <1>1, <1>2, <1>3, <1>4, <1>5 DEF Next

----------------------------------------------------------------------------
\* Steps on uploads keep the invariant.
LEMMA UploadsKeepInv ==
  ASSUME Inv, UploadStep, UNCHANGED keyVars
  PROVE  (UploadsTyped /\ VerifiedPast /\ NoHalfCommit /\ KeyVouchedInTime)'
<1>0. /\ now' = now /\ key' = key /\ agent' = agent
      /\ KeysTypeOK /\ Pedigree /\ now \in Nat
      /\ UploadsTyped /\ VerifiedPast /\ NoHalfCommit /\ KeyVouchedInTime
  BY KeysAssumption DEF keyVars, Inv, KeysInv, KeysTypeOK, Time
<1>1. \A m \in Manifests : m.agent \in Agents /\ m.key \in Keys /\ m # Null
  BY ManifestFields
<1>2. UploadsTyped'
  BY <1>0 DEF UploadStep, UploadsTyped, Kept, Gained
<1>3. VerifiedPast'
  BY <1>0, <1>1 DEF UploadStep, VerifiedPast, Kept, Gained
<1>4. NoHalfCommit'
  <2> SUFFICES ASSUME NEW x \in Artifacts
      PROVE  /\ session'[x] # Null /\ session'[x].state = "COMPLETE" =>
                  retained'[x] # Null /\ retained'[x].manifest = session'[x].manifest
             /\ session'[x] # Null /\ session'[x].state = "OPEN" =>
                  retained'[x] = Null /\ Len(session'[x].chunks) <= session'[x].manifest.size
             /\ retained'[x] # Null /\ retained'[x].manifest # Null =>
                  /\ Len(retained'[x].content) = retained'[x].manifest.size
                  /\ \A i \in DOMAIN retained'[x].content : retained'[x].content[i]
    BY DEF NoHalfCommit, Open, InState
  <2>0. /\ session[x] # Null /\ session[x].state = "COMPLETE" =>
             retained[x] # Null /\ retained[x].manifest = session[x].manifest
        /\ session[x] # Null /\ session[x].state = "OPEN" =>
             retained[x] = Null /\ Len(session[x].chunks) <= session[x].manifest.size
        /\ retained[x] # Null /\ retained[x].manifest # Null =>
             /\ Len(retained[x].content) = retained[x].manifest.size
             /\ \A i \in DOMAIN retained[x].content : retained[x].content[i]
    BY <1>0 DEF NoHalfCommit, Open, InState
  <2>1. CASE Kept(x)
    BY <2>0, <2>1 DEF Kept
  <2>2. ASSUME NEW m \in Manifests, Gained(x, m)
        PROVE  /\ session'[x] # Null /\ session'[x].state = "COMPLETE" =>
                    retained'[x] # Null /\ retained'[x].manifest = session'[x].manifest
               /\ session'[x] # Null => session'[x].state # "OPEN"
               /\ Len(retained'[x].content) = retained'[x].manifest.size
               /\ \A i \in DOMAIN retained'[x].content : retained'[x].content[i]
    BY <2>0, <2>2, SessionsAssumption DEF Gained
  <2> QED BY <2>1, <2>2 DEF UploadStep
<1>5. KeyVouchedInTime'
  <2> SUFFICES ASSUME NEW x \in Artifacts, retained'[x] # Null, retained'[x].manifest # Null,
                      NEW m, NEW k, m = retained'[x].manifest, k = key[m.agent][m.key]
      PROVE  /\ k # Null /\ k.from <= retained'[x].verified
             /\ k.compromised # Null => retained'[x].verified <= k.compromised
             /\ k.retired # Null =>
                  \/ retained'[x].verified <= k.retired
                  \/ /\ session'[x] # Null /\ session'[x].state = "COMPLETE"
                     /\ session'[x].admitted <= k.retired
    BY <1>0 DEF KeyVouchedInTime
  <2>1. CASE Kept(x)
    <3>1. /\ retained'[x] = retained[x]
          /\ session[x] # Null /\ session[x].state = "COMPLETE" => session'[x] = session[x]
      BY <2>1 DEF Kept
    <3> QED BY <1>0, <3>1 DEF KeyVouchedInTime
  <2>2. ASSUME NEW n \in Manifests, Gained(x, n)
        PROVE  /\ k # Null /\ k.from <= retained'[x].verified
               /\ k.compromised = Null
               /\ k.retired # Null =>
                    /\ session'[x] # Null /\ session'[x].state = "COMPLETE"
                    /\ session'[x].admitted <= k.retired
    <3>1. n = m /\ m.agent \in Agents /\ m.key \in Keys /\ retained'[x].verified = now
      BY <1>1, <2>2 DEF Gained
    <3>2. \/ /\ session'[x] \in SessionRow /\ session'[x].state = "COMPLETE"
             /\ Verified(m, session'[x].admitted)
          \/ Verified(m, Null)
      BY <2>2, <3>1 DEF Gained
    <3>3. k # Null /\ k.compromised = Null
      BY <3>2 DEF Verified
    <3>4. k.from <= now
      BY <1>0, <3>1, <3>3 DEF Pedigree
    <3>5. k.retired # Null =>
            /\ session'[x] \in SessionRow /\ session'[x].state = "COMPLETE"
            /\ session'[x].admitted <= k.retired
      BY <3>2 DEF Verified
    <3> QED BY <3>1, <3>3, <3>4, <3>5, SessionsAssumption
  <2> QED BY <2>1, <2>2 DEF UploadStep
<1> QED BY <1>2, <1>3, <1>4, <1>5

\* Steps on identities keep it: a mark set on a key is not older than
\* anything the key vouched for.
LEMMA KeysKeepInv ==
  ASSUME Inv, [KeysNext]_keyVars, UNCHANGED <<session, retained>>
  PROVE  (UploadsTyped /\ VerifiedPast /\ NoHalfCommit /\ KeyVouchedInTime)'
<1>0. /\ KeysTypeOK /\ Pedigree /\ KeyLine
      /\ UploadsTyped /\ VerifiedPast /\ NoHalfCommit /\ KeyVouchedInTime
      /\ session' = session /\ retained' = retained /\ now \in Nat
  BY KeysAssumption DEF Inv, KeysInv, KeysTypeOK, Time
<1>1. UploadsTyped' /\ NoHalfCommit'
  BY <1>0 DEF UploadsTyped, NoHalfCommit, Open, InState
<1> SUFFICES ASSUME NEW x \in Artifacts, retained[x] # Null, retained[x].manifest # Null,
                    NEW m, NEW k, NEW l, m = retained[x].manifest,
                    k = key[m.agent][m.key], l = key'[m.agent][m.key]
    PROVE  /\ retained[x].verified \in Nat /\ retained[x].verified <= now'
           /\ l # Null /\ l.from <= retained[x].verified
           /\ l.compromised # Null => retained[x].verified <= l.compromised
           /\ l.retired # Null =>
                \/ retained[x].verified <= l.retired
                \/ /\ session[x] # Null /\ session[x].state = "COMPLETE"
                   /\ session[x].admitted <= l.retired
  BY <1>0, <1>1 DEF VerifiedPast, KeyVouchedInTime
<1>2. m.agent \in Agents /\ m.key \in Keys
  <2>1. m \in Manifests
    BY <1>0 DEF UploadsTyped, RetainedRow
  <2> QED BY <2>1, ManifestFields
<1>3. /\ retained[x].verified \in Nat /\ retained[x].verified <= now
      /\ k # Null /\ k.from <= retained[x].verified
      /\ k.compromised # Null => retained[x].verified <= k.compromised
      /\ k.retired # Null =>
           \/ retained[x].verified <= k.retired
           \/ /\ session[x] # Null /\ session[x].state = "COMPLETE"
              /\ session[x].admitted <= k.retired
  BY <1>0 DEF VerifiedPast, KeyVouchedInTime
<1>4. /\ l # Null /\ l.from = k.from
      /\ l.retired = k.retired \/ (k.retired = Null /\ l.retired = now)
      /\ l.compromised = k.compromised \/ (k.compromised = Null /\ l.compromised = now)
      /\ now' \in Nat /\ now <= now'
  BY <1>0, <1>2, <1>3, KeyRowsAge
<1>5. l.compromised # Null => retained[x].verified <= l.compromised
  BY <1>3, <1>4
<1>6. l.retired # Null =>
           \/ retained[x].verified <= l.retired
           \/ /\ session[x] # Null /\ session[x].state = "COMPLETE"
              /\ session[x].admitted <= l.retired
  BY <1>3, <1>4
<1>7. retained[x].verified <= now'
  <2>1. retained[x].verified \in Nat /\ retained[x].verified <= now
    BY <1>3
  <2>2. now \in Nat /\ now' \in Nat /\ now <= now'
    BY <1>0, <1>4
  <2> QED BY <2>1, <2>2
<1> QED BY <1>3, <1>4, <1>5, <1>6, <1>7

----------------------------------------------------------------------------
\* Initially nothing is uploaded and the retained evidence is unsigned.
LEMMA InitInv == Init => Inv
<1> SUFFICES ASSUME Init PROVE Inv
  OBVIOUS
<1>1. KeysInv
  BY KeysInitInv DEF Init
<1>2. /\ \A x \in Artifacts : session[x] = Null
      /\ session \in [Artifacts -> SessionRow \cup {Null}]
  BY DEF Init
<1>3. /\ retained \in [Artifacts -> RetainedRow \cup {Null}]
      /\ \A x \in Artifacts : retained[x] # Null => retained[x].manifest = Null
  BY TransfersAssumption DEF Init
<1> QED BY <1>1, <1>2, <1>3 DEF Inv, UploadsTyped, VerifiedPast, NoHalfCommit,
                                KeyVouchedInTime, Open, InState

\* Every step keeps the inductive invariant.
LEMMA StepInv == Inv /\ [Next]_vars => Inv'
<1> SUFFICES ASSUME Inv, [Next]_vars PROVE Inv'
  OBVIOUS
<1>1. KeysInv /\ KeysTypeOK /\ UploadsTyped /\ NoHalfCommit
  BY DEF Inv, KeysInv
<1>2. CASE [KeysNext]_keyVars /\ UNCHANGED <<session, retained>>
  <2>1. KeysInv'
    BY <1>1, <1>2, KeysStepInv
  <2> QED BY <1>2, <2>1, KeysKeepInv DEF Inv
<1>3. CASE UploadStep /\ UNCHANGED keyVars
  <2>1. KeysInv'
    BY <1>1, <1>3, KeysStepInv
  <2> QED BY <1>3, <2>1, UploadsKeepInv DEF Inv
<1> QED BY <1>1, <1>2, <1>3, StepSplit

\* Evidence is committed whole (artifact_transfers.complete, upload_signed):
\* a finished session has its evidence on file, and nothing is on file while
\* its session is open.
THEOREM NothingHalfCommitted == Spec => []NoHalfCommit
<1>1. Inv => NoHalfCommit
  BY DEF Inv
<1> QED BY InitInv, StepInv, <1>1, PTL DEF Spec

\* Retirements and compromises in between never leave evidence its key did
\* not vouch for in time (verify_manifest, _load).
THEOREM KeysVouchInTime == Spec => []KeyVouchedInTime
<1>1. Inv => KeyVouchedInTime
  BY DEF Inv
<1> QED BY InitInv, StepInv, <1>1, PTL DEF Spec

\* Beside uploads the identities stay sound too (artifact_keys.py, auth.py).
THEOREM IdentitiesStaySound == Spec => []IdentitiesSound
<1>1. Inv => IdentitiesSound
  BY DEF Inv, KeysInv, IdentitiesSound
<1> QED BY InitInv, StepInv, <1>1, PTL DEF Spec

----------------------------------------------------------------------------
(* Sums over finite sets.                                                  *)

\* The member a sum takes first, and the sums over the subsets of S of what w
\* says of each member, as MapThenSumSet computes them.
Pick(s) == CHOOSE x \in s : TRUE

Sums(w, S, f) ==
  f = [s \in SUBSET S |-> IF s = {} THEN 0 ELSE w[Pick(s)] + f[s \ {Pick(s)}]]

\* A sum takes a member first.
LEMMA PickMember ==
  ASSUME NEW s, s # {} PROVE Pick(s) \in s
BY DEF Pick

\* A set of naturals has a least member.
LEMMA LeastNumber ==
  ASSUME NEW S \in SUBSET Nat, S # {}
  PROVE  \E m \in S : \A n \in S : m <= n
<1>1. PICK m \in S : \A n \in S : ~(<<n, m>> \in OpToRel(<, Nat))
  BY WFMin, NatLessThanWellFounded, Zenon
<1>2. ASSUME NEW n \in S PROVE m <= n
  <2>1. m \in Nat /\ n \in Nat
    OBVIOUS
  <2>2. ~(n < m)
    BY <1>1, <2>1, Zenon DEF OpToRel
  <2> QED BY <2>1, <2>2
<1> QED BY <1>2

\* Among the subsets of a finite set that are in B there is one that leaves B
\* with each of its members: the smallest counterexample of an induction.
LEMMA SmallestSubset ==
  ASSUME NEW S, IsFiniteSet(S), NEW B \in SUBSET SUBSET S, B # {}
  PROVE  \E s \in B : \A x \in s : s \ {x} \notin B
<1> DEFINE C == {Cardinality(s) : s \in B}
<1>1. \A s \in SUBSET S : IsFiniteSet(s) /\ Cardinality(s) \in Nat
  BY FS_Subset, FS_CardinalityType
<1>2. C \in SUBSET Nat /\ C # {}
  BY <1>1
<1>3. PICK n \in C : \A k \in C : n <= k
  <2> HIDE DEF C
  <2> QED BY <1>2, LeastNumber
<1>4. PICK s \in B : n = Cardinality(s)
  BY <1>3
<1>5. \A t \in B : Cardinality(s) <= Cardinality(t)
  BY <1>3, <1>4
<1>6. ASSUME NEW x \in s PROVE s \ {x} \notin B
  <2>1. IsFiniteSet(s) /\ Cardinality(s) \in Nat
    BY <1>1
  <2>2. Cardinality(s \ {x}) = Cardinality(s) - 1
    BY <2>1, FS_RemoveElement
  <2>3. ~(Cardinality(s) <= Cardinality(s) - 1)
    BY <2>1
  <2> QED BY <1>5, <2>2, <2>3
<1> QED BY <1>6

\* What the recursive definition says of one set.
LEMMA SumsStep ==
  ASSUME NEW w, NEW S, NEW f, Sums(w, S, f), NEW s \in SUBSET S
  PROVE  /\ s = {} => f[s] = 0
         /\ s # {} => f[s] = w[Pick(s)] + f[s \ {Pick(s)}]
BY DEF Sums

\* Sums of the same terms agree.
LEMMA SumsAgree ==
  ASSUME NEW w, NEW v, NEW S, NEW T, NEW f, NEW g, Sums(w, S, f), Sums(v, T, g),
         NEW s \in SUBSET S, s \in SUBSET T, IsFiniteSet(s), \A x \in s : w[x] = v[x]
  PROVE  f[s] = g[s]
<1> DEFINE B == {t \in SUBSET s : f[t] # g[t]}
<1> SUFFICES ASSUME f[s] # g[s] PROVE FALSE
  OBVIOUS
<1>1. B \in SUBSET SUBSET s /\ B # {}
  OBVIOUS
<1>2. PICK t \in B : \A x \in t : t \ {x} \notin B
  <2> HIDE DEF B
  <2> QED BY <1>1, SmallestSubset
<1>3. t \in SUBSET S /\ t \in SUBSET T /\ t \in SUBSET s /\ f[t] # g[t]
  OBVIOUS
<1>4. t # {}
  <2>1. t = {} => f[t] = 0
    BY <1>3 DEF Sums
  <2>2. t = {} => g[t] = 0
    BY <1>3 DEF Sums
  <2> QED BY <1>3, <2>1, <2>2
<1>5. Pick(t) \in t
  BY <1>4, PickMember
<1>6. f[t \ {Pick(t)}] = g[t \ {Pick(t)}]
  BY <1>2, <1>3, <1>5
<1>7. f[t] = w[Pick(t)] + f[t \ {Pick(t)}] /\ g[t] = v[Pick(t)] + g[t \ {Pick(t)}]
  BY <1>3, <1>4, SumsStep
<1> QED BY <1>3, <1>5, <1>6, <1>7

\* Sums of naturals are naturals.
LEMMA SumsTyped ==
  ASSUME NEW S, IsFiniteSet(S), NEW w \in [S -> Nat], NEW f, Sums(w, S, f), NEW s \in SUBSET S
  PROVE  f[s] \in Nat
<1> DEFINE B == {t \in SUBSET S : f[t] \notin Nat}
<1> SUFFICES ASSUME f[s] \notin Nat PROVE FALSE
  OBVIOUS
<1>1. B \in SUBSET SUBSET S /\ B # {}
  OBVIOUS
<1>2. PICK t \in B : \A x \in t : t \ {x} \notin B
  <2> HIDE DEF B
  <2> QED BY <1>1, SmallestSubset
<1>3. t \in SUBSET S /\ f[t] \notin Nat
  OBVIOUS
<1>4. t # {}
  BY <1>3, SumsStep
<1>5. Pick(t) \in t /\ w[Pick(t)] \in Nat
  BY <1>3, <1>4, PickMember
<1>6. f[t \ {Pick(t)}] \in Nat
  BY <1>2, <1>3, <1>5
<1>7. f[t] = w[Pick(t)] + f[t \ {Pick(t)}]
  BY <1>3, <1>4, SumsStep
<1> QED BY <1>3, <1>5, <1>6, <1>7

\* Any member may be taken first.
LEMMA SumsAny ==
  ASSUME NEW S, IsFiniteSet(S), NEW w \in [S -> Nat], NEW f, Sums(w, S, f),
         NEW s \in SUBSET S, NEW x \in s
  PROVE  f[s] = w[x] + f[s \ {x}]
<1> DEFINE B == {t \in SUBSET S : \E y \in t : f[t] # w[y] + f[t \ {y}]}
<1> SUFFICES ASSUME f[s] # w[x] + f[s \ {x}] PROVE FALSE
  OBVIOUS
<1>1. B \in SUBSET SUBSET S /\ B # {}
  OBVIOUS
<1>2. PICK t \in B : \A y \in t : t \ {y} \notin B
  <2> HIDE DEF B
  <2> QED BY <1>1, SmallestSubset
<1>3. PICK y \in t : f[t] # w[y] + f[t \ {y}]
  OBVIOUS
<1>4. PICK p : p = Pick(t)
  OBVIOUS
<1>5. t \in SUBSET S /\ p \in t /\ f[t] = w[p] + f[t \ {p}]
  BY <1>3, <1>4, SumsStep, PickMember
<1>6. p # y
  BY <1>3, <1>5
<1>7. /\ f[t \ {p}] = w[y] + f[(t \ {p}) \ {y}]
      /\ f[t \ {y}] = w[p] + f[(t \ {y}) \ {p}]
  BY <1>2, <1>5, <1>6
<1>8. (t \ {p}) \ {y} = (t \ {y}) \ {p}
  OBVIOUS
<1>9. PICK n : n = f[(t \ {p}) \ {y}]
  OBVIOUS
<1>10. n \in Nat /\ w[p] \in Nat /\ w[y] \in Nat
  <2>1. (t \ {p}) \ {y} \in SUBSET S
    BY <1>5
  <2> QED BY <1>5, <1>9, <2>1, SumsTyped
<1>11. f[t \ {p}] = w[y] + n /\ f[t \ {y}] = w[p] + n
  BY <1>7, <1>8, <1>9
<1> QED BY <1>3, <1>5, <1>10, <1>11

\* There are sums over the subsets of a finite set.
LEMMA SumsExist ==
  ASSUME NEW S, IsFiniteSet(S), NEW w
  PROVE  \E f : Sums(w, S, f)
<1> DEFINE Up(n) == {s \in SUBSET S : Cardinality(s) <= n}
           Term(f, s) == IF s = {} THEN 0 ELSE w[Pick(s)] + f[s \ {Pick(s)}]
           Good(n, f) == f = [s \in Up(n) |-> Term(f, s)]
           Bad == {n \in Nat : ~\E f : Good(n, f)}
<1>1. \A s \in SUBSET S : IsFiniteSet(s) /\ Cardinality(s) \in Nat
  BY FS_Subset, FS_CardinalityType
<1>2. \A s \in SUBSET S : s # {} =>
        /\ Cardinality(s) # 0 /\ Pick(s) \in s
        /\ s \ {Pick(s)} \in SUBSET S
        /\ Cardinality(s \ {Pick(s)}) = Cardinality(s) - 1
  <2> SUFFICES ASSUME NEW s \in SUBSET S, s # {}
               PROVE  /\ Cardinality(s) # 0 /\ Pick(s) \in s
                      /\ s \ {Pick(s)} \in SUBSET S
                      /\ Cardinality(s \ {Pick(s)}) = Cardinality(s) - 1
    OBVIOUS
  <2>1. Pick(s) \in s
    BY PickMember
  <2> QED BY <1>1, <2>1, FS_RemoveElement, FS_EmptySet
<1>3. \E f : Good(0, f)
  <2> DEFINE f == [s \in Up(0) |-> 0]
  <2>1. ASSUME NEW s \in Up(0) PROVE s = {}
    <3>1. s \in SUBSET S /\ Cardinality(s) <= 0 /\ Cardinality(s) \in Nat
      BY <1>1
    <3>2. Cardinality(s) = 0
      BY <3>1
    <3> QED BY <1>2, <3>1, <3>2
  <2>2. f = [s \in Up(0) |-> Term(f, s)]
    BY <2>1
  <2> QED BY <2>2
<1>4. ASSUME NEW n \in Nat, NEW f, Good(n, f) PROVE \E h : Good(n + 1, h)
  <2> DEFINE h == [s \in Up(n + 1) |-> Term(f, s)]
  <2>1. ASSUME NEW s \in Up(n + 1) PROVE h[s] = Term(h, s)
    <3>1. CASE s = {}
      BY <3>1
    <3>2. CASE s # {}
      <4>1. s \ {Pick(s)} \in Up(n) /\ s \ {Pick(s)} \in Up(n + 1)
        BY <1>1, <1>2, <3>2
      <4>2. PICK t : t = s \ {Pick(s)}
        OBVIOUS
      <4>3. f[t] = Term(f, t)
        BY <1>4, <4>1, <4>2
      <4>4. h[t] = Term(f, t)
        BY <4>1, <4>2
      <4>5. h[s] = w[Pick(s)] + f[t]
        BY <3>2, <4>2
      <4> HIDE DEF h
      <4> QED BY <3>2, <4>2, <4>3, <4>4, <4>5
    <3> QED BY <3>1, <3>2
  <2>2. h = [s \in Up(n + 1) |-> h[s]]
    OBVIOUS
  <2> HIDE DEF h
  <2>3. h = [s \in Up(n + 1) |-> Term(h, s)]
    BY <2>1, <2>2
  <2> QED BY <2>3
<1> HIDE DEF Good
<1>5. Bad = {}
  <2> SUFFICES ASSUME Bad # {} PROVE FALSE
    OBVIOUS
  <2>1. Bad \in SUBSET Nat
    OBVIOUS
  <2>2. PICK n \in Bad : \A k \in Bad : n <= k
    <3> HIDE DEF Bad
    <3> QED BY <2>1, LeastNumber
  <2>3. n \in Nat /\ n # 0 /\ ~\E f : Good(n, f)
    BY <1>3
  <2>4. n - 1 \in Nat /\ (n - 1) + 1 = n /\ ~(n <= n - 1)
    BY <2>3
  <2>5. PICK f : Good(n - 1, f)
    <3>1. n - 1 \notin Bad
      <4> HIDE DEF Bad
      <4> QED BY <2>2, <2>4
    <3> QED BY <2>4, <3>1
  <2> QED BY <1>4, <2>3, <2>4, <2>5
<1>6. Cardinality(S) \in Nat /\ Up(Cardinality(S)) = SUBSET S
  <2>1. \A s \in SUBSET S : Cardinality(s) <= Cardinality(S)
    BY FS_Subset
  <2>2. Cardinality(S) \in Nat
    BY <1>1
  <2> QED BY <2>1, <2>2
<1>7. PICK f : Good(Cardinality(S), f)
  BY <1>5, <1>6
<1>8. f = [s \in SUBSET S |-> Term(f, s)]
  BY <1>6, <1>7 DEF Good
<1> QED BY <1>8 DEF Sums

----------------------------------------------------------------------------
(* Sizes of artifacts.                                                     *)

Sizes == [Artifacts -> Nat]

\* The sum over every set of artifacts.
Total(w) == CHOOSE f : Sums(w, Artifacts, f)

\* The chosen function is one of sums.
LEMMA TotalSums ==
  ASSUME NEW w PROVE Sums(w, Artifacts, Total(w))
BY TransfersAssumption, SumsExist DEF Total

\* Sums over sets of artifacts: of none, with one taken out, with one put in.
LEMMA TotalFacts ==
  ASSUME NEW w \in Sizes, NEW X \in SUBSET Artifacts
  PROVE  /\ Total(w)[X] \in Nat
         /\ X = {} => Total(w)[X] = 0
         /\ \A x \in X : Total(w)[X] = w[x] + Total(w)[X \ {x}]
         /\ \A x \in Artifacts \ X : Total(w)[X \cup {x}] = Total(w)[X] + w[x]
<1> DEFINE f == Total(w)
<1>1. IsFiniteSet(Artifacts) /\ w \in [Artifacts -> Nat] /\ Sums(w, Artifacts, f)
  BY TransfersAssumption, TotalSums DEF Sizes
<1> HIDE DEF f
<1>2. \A Y \in SUBSET Artifacts : f[Y] \in Nat
  BY <1>1, SumsTyped
<1>3. X = {} => f[X] = 0
  BY <1>1 DEF Sums
<1>4. \A Y \in SUBSET Artifacts : \A x \in Y : f[Y] = w[x] + f[Y \ {x}]
  <2> SUFFICES ASSUME NEW Y \in SUBSET Artifacts, NEW x \in Y PROVE f[Y] = w[x] + f[Y \ {x}]
    OBVIOUS
  <2> QED BY <1>1, SumsAny
<1>5. ASSUME NEW x \in Artifacts \ X PROVE f[X \cup {x}] = f[X] + w[x]
  <2>1. (X \cup {x}) \ {x} = X /\ X \cup {x} \in SUBSET Artifacts /\ x \in X \cup {x}
    OBVIOUS
  <2>2. f[X \cup {x}] = w[x] + f[X]
    BY <1>4, <2>1
  <2>3. f[X] \in Nat /\ w[x] \in Nat
    BY <1>1, <1>2
  <2> QED BY <2>2, <2>3
<1> QED BY <1>2, <1>3, <1>4, <1>5 DEF f

\* Sizes that agree on a set have the same sum over it.
LEMMA TotalAgrees ==
  ASSUME NEW w, NEW v, NEW X \in SUBSET Artifacts, \A x \in X : w[x] = v[x]
  PROVE  Total(w)[X] = Total(v)[X]
<1>1. IsFiniteSet(X)
  BY TransfersAssumption, FS_Subset
<1>2. Sums(w, Artifacts, Total(w)) /\ Sums(v, Artifacts, Total(v))
  BY TotalSums
<1> QED BY <1>1, <1>2, SumsAgree

\* A sum with one more term ...
LEMMA TotalAdded ==
  ASSUME NEW v \in Sizes, NEW w \in Sizes, NEW X \in SUBSET Artifacts, NEW x \in Artifacts \ X,
         \A y \in X : w[y] = v[y]
  PROVE  Total(w)[X \cup {x}] = Total(v)[X] + w[x]
<1>1. Total(w)[X] = Total(v)[X]
  BY TotalAgrees
<1>2. Total(w)[X \cup {x}] = Total(w)[X] + w[x]
  BY TotalFacts
<1> QED BY <1>1, <1>2

\* ... and with one less.
LEMMA TotalTaken ==
  ASSUME NEW v \in Sizes, NEW w \in Sizes, NEW X \in SUBSET Artifacts, NEW x \in X,
         \A y \in X \ {x} : w[y] = v[y]
  PROVE  Total(w)[X \ {x}] = Total(v)[X] - v[x]
<1> DEFINE Y == X \ {x}
<1>1. Y \in SUBSET Artifacts /\ \A y \in Y : w[y] = v[y]
  OBVIOUS
<1>2. Total(v)[X] = v[x] + Total(v)[Y] /\ v[x] \in Nat
  BY TotalFacts DEF Sizes
<1> HIDE DEF Y
<1>3. Total(w)[Y] = Total(v)[Y]
  BY <1>1, TotalAgrees
<1>4. Total(v)[Y] \in Nat
  BY <1>1, TotalFacts
<1>5. Total(w)[Y] = Total(v)[X] - v[x]
  BY <1>2, <1>3, <1>4
<1> QED BY <1>5 DEF Y

\* Taking a subset out of a set takes its sum out of the sum.
LEMMA TotalSplit ==
  ASSUME NEW w \in Sizes, NEW X \in SUBSET Artifacts, NEW Y \in SUBSET X
  PROVE  Total(w)[X \ Y] = Total(w)[X] - Total(w)[Y]
<1> DEFINE f == Total(w)
           B == {Z \in SUBSET Y : f[X \ Z] # f[X] - f[Z]}
<1>1. /\ \A Z \in SUBSET Artifacts : f[Z] \in Nat
      /\ \A Z \in SUBSET Artifacts : \A x \in Z : f[Z] = w[x] + f[Z \ {x}]
      /\ f[{}] = 0
  BY TotalFacts
<1> HIDE DEF f
<1> SUFFICES ASSUME f[X \ Y] # f[X] - f[Y] PROVE FALSE
  BY DEF f
<1>2. IsFiniteSet(Y) /\ B \in SUBSET SUBSET Y /\ B # {}
  BY TransfersAssumption, FS_Subset
<1>3. PICK Z \in B : \A x \in Z : Z \ {x} \notin B
  <2> HIDE DEF B
  <2> QED BY <1>2, SmallestSubset
<1>4. Z \in SUBSET Y /\ f[X \ Z] # f[X] - f[Z]
  OBVIOUS
<1>5. Z # {}
  <2> SUFFICES ASSUME Z = {} PROVE FALSE
    OBVIOUS
  <2>1. X \ Z = X /\ f[Z] = 0 /\ f[X] \in Nat
    BY <1>1
  <2>2. f[X \ Z] = f[X]
    BY <2>1
  <2> HIDE DEF B
  <2> QED BY <1>4, <2>1, <2>2
<1>6. PICK x : x \in Z
  BY <1>5
<1>7. Z \ {x} \in SUBSET Y /\ Z \ {x} \notin B
  BY <1>3, <1>4, <1>6
<1>8. f[X \ (Z \ {x})] = f[X] - f[Z \ {x}]
  BY <1>7
<1>9. x \in X \ (Z \ {x}) /\ (X \ (Z \ {x})) \ {x} = X \ Z /\ X \ (Z \ {x}) \in SUBSET Artifacts
  BY <1>4, <1>6
<1>10. f[X \ (Z \ {x})] = w[x] + f[X \ Z]
  BY <1>1, <1>9
<1>11. f[Z] = w[x] + f[Z \ {x}]
  BY <1>1, <1>4, <1>6
<1>12. f[X] \in Nat /\ f[Z] \in Nat /\ f[Z \ {x}] \in Nat /\ f[X \ Z] \in Nat /\ w[x] \in Nat
  BY <1>1, <1>4, <1>6 DEF Sizes
<1> QED BY <1>4, <1>8, <1>10, <1>11, <1>12

\* The sums of the model, over the sessions and over the evidence of tables S.
SumReserved(S, X) == MapThenSumSet(LAMBDA x : S[x].manifest.size, X)
SumStored(S, X) == MapThenSumSet(LAMBDA x : S[x].size, X)

\* MapThenSumSet over the manifests of sessions is the sum of their sizes.
LEMMA ReservedSum ==
  ASSUME NEW S, NEW w, NEW X \in SUBSET Artifacts, \A x \in X : w[x] = S[x].manifest.size
  PROVE  SumReserved(S, X) = Total(w)[X]
<1> DEFINE v == [x \in X |-> S[x].manifest.size]
           P(f) == f = [s \in SUBSET X |->
                          IF s = {} THEN 0
                          ELSE S[Pick(s)].manifest.size + f[s \ {Pick(s)}]]
           W == CHOOSE f : P(f)
<1>1. SumReserved(S, X) = W[X]
  BY DEF SumReserved, MapThenSumSet, MapThenFoldSet, Pick
<1>2. IsFiniteSet(X)
  BY TransfersAssumption, FS_Subset
<1>3. \A s \in SUBSET X : s # {} => v[Pick(s)] = S[Pick(s)].manifest.size
  BY PickMember
<1>4. ASSUME NEW f PROVE P(f) <=> Sums(v, X, f)
  BY <1>3 DEF Sums
<1> HIDE DEF v, P
<1>5. \E f : P(f)
  BY <1>2, <1>4, SumsExist
<1>6. P(W)
  BY <1>5
<1> HIDE DEF W
<1>7. Sums(v, X, W)
  BY <1>4, <1>6
<1>8. \A x \in X : v[x] = w[x]
  BY DEF v
<1>9. Sums(w, Artifacts, Total(w))
  BY TotalSums
<1>10. W[X] = Total(w)[X]
  BY <1>2, <1>7, <1>8, <1>9, SumsAgree
<1> QED BY <1>1, <1>10

\* MapThenSumSet over evidence is the sum of its sizes.
LEMMA StoredSum ==
  ASSUME NEW S, NEW w, NEW X \in SUBSET Artifacts, \A x \in X : w[x] = S[x].size
  PROVE  SumStored(S, X) = Total(w)[X]
<1> DEFINE v == [x \in X |-> S[x].size]
           P(f) == f = [s \in SUBSET X |->
                          IF s = {} THEN 0 ELSE S[Pick(s)].size + f[s \ {Pick(s)}]]
           W == CHOOSE f : P(f)
<1>1. SumStored(S, X) = W[X]
  BY DEF SumStored, MapThenSumSet, MapThenFoldSet, Pick
<1>2. IsFiniteSet(X)
  BY TransfersAssumption, FS_Subset
<1>3. \A s \in SUBSET X : s # {} => v[Pick(s)] = S[Pick(s)].size
  BY PickMember
<1>4. ASSUME NEW f PROVE P(f) <=> Sums(v, X, f)
  BY <1>3 DEF Sums
<1> HIDE DEF v, P
<1>5. \E f : P(f)
  BY <1>2, <1>4, SumsExist
<1>6. P(W)
  BY <1>5
<1> HIDE DEF W
<1>7. Sums(v, X, W)
  BY <1>4, <1>6
<1>8. \A x \in X : v[x] = w[x]
  BY DEF v
<1>9. Sums(w, Artifacts, Total(w))
  BY TotalSums
<1>10. W[X] = Total(w)[X]
  BY <1>2, <1>7, <1>8, <1>9, SumsAgree
<1> QED BY <1>1, <1>10

SessionSizes(S) == [x \in Artifacts |-> IF S[x] = Null THEN 0 ELSE S[x].manifest.size]
StoredSizes(S) == [x \in Artifacts |-> IF S[x] = Null THEN 0 ELSE S[x].size]

\* The sizes of a table of sessions, and what MapThenSumSet makes of them.
LEMMA SessionSizesMean ==
  ASSUME NEW S \in [Artifacts -> SessionRow \cup {Null}]
  PROVE  /\ SessionSizes(S) \in Sizes
         /\ \A X \in SUBSET Artifacts :
              (\A x \in X : S[x] # Null) => SumReserved(S, X) = Total(SessionSizes(S))[X]
<1>1. \A x \in Artifacts : S[x] # Null => S[x].manifest.size \in Nat
  BY ManifestFields DEF SessionRow
<1>2. SessionSizes(S) \in Sizes
  BY <1>1 DEF SessionSizes, Sizes
<1>3. ASSUME NEW X \in SUBSET Artifacts, \A x \in X : S[x] # Null
      PROVE  SumReserved(S, X) = Total(SessionSizes(S))[X]
  <2>1. \A x \in X : SessionSizes(S)[x] = S[x].manifest.size
    BY <1>3 DEF SessionSizes
  <2> QED BY <2>1, ReservedSum
<1> QED BY <1>2, <1>3

\* The sizes of a table of evidence, and what MapThenSumSet makes of them.
LEMMA StoredSizesMean ==
  ASSUME NEW S \in [Artifacts -> RetainedRow \cup {Null}]
  PROVE  /\ StoredSizes(S) \in Sizes
         /\ \A X \in SUBSET Artifacts :
              (\A x \in X : S[x] # Null) => SumStored(S, X) = Total(StoredSizes(S))[X]
<1>1. \A x \in Artifacts : S[x] # Null => S[x].size \in Nat
  BY DEF RetainedRow
<1>2. StoredSizes(S) \in Sizes
  BY <1>1 DEF StoredSizes, Sizes
<1>3. ASSUME NEW X \in SUBSET Artifacts, \A x \in X : S[x] # Null
      PROVE  SumStored(S, X) = Total(StoredSizes(S))[X]
  <2>1. \A x \in X : StoredSizes(S)[x] = S[x].size
    BY <1>3 DEF StoredSizes
  <2> QED BY <2>1, StoredSum
<1> QED BY <1>2, <1>3

\* The sums of the model are the ones above.
LEMMA BytesAreSums ==
  ASSUME NEW X
  PROVE  ReservedBytes(X) = SumReserved(session, X) /\ StoredBytes(X) = SumStored(retained, X)
<1>1. ReservedBytes(X) = SumReserved(session, X)
  BY DEF ReservedBytes, SumReserved
<1>2. StoredBytes(X) = SumStored(retained, X)
  BY DEF StoredBytes, SumStored
<1> QED BY <1>1, <1>2

----------------------------------------------------------------------------
(* Quotas.                                                                 *)

\* While sessions O are open, what they reserve and what R stores fit a limit
\* of count and one of bytes; v and w are the sizes.
Fits(O, R, v, w, count, bytes) ==
  O # {} => /\ Cardinality(R) + Cardinality(O) <= count
            /\ Total(w)[R] + Total(v)[O] <= bytes

\* One more artifact of size n fits.
Room(O, R, v, w, n, count, bytes) ==
  /\ Cardinality(R) + Cardinality(O) < count
  /\ Total(w)[R] + Total(v)[O] + n <= bytes

\* Subsets of the artifacts are counted.
LEMMA Counted ==
  ASSUME NEW X \in SUBSET Artifacts
  PROVE  /\ IsFiniteSet(X) /\ Cardinality(X) \in Nat
         /\ \A x \in Artifacts \ X : Cardinality(X \cup {x}) = Cardinality(X) + 1
         /\ \A x \in X : Cardinality(X \ {x}) = Cardinality(X) - 1
         /\ \A Y \in SUBSET X : Cardinality(X \ Y) = Cardinality(X) - Cardinality(Y)
<1>1. IsFiniteSet(X) /\ Cardinality(X) \in Nat
  BY TransfersAssumption, FS_Subset, FS_CardinalityType
<1>2. \A x \in Artifacts \ X : Cardinality(X \cup {x}) = Cardinality(X) + 1
  BY <1>1, FS_AddElement
<1>3. \A x \in X : Cardinality(X \ {x}) = Cardinality(X) - 1
  BY <1>1, FS_RemoveElement
<1>4. ASSUME NEW Y \in SUBSET X PROVE Cardinality(X \ Y) = Cardinality(X) - Cardinality(Y)
  <2>1. IsFiniteSet(Y) /\ Cardinality(Y) \in Nat /\ IsFiniteSet(X \ Y) /\ Cardinality(X \ Y) \in Nat
    BY <1>1, FS_Subset, FS_CardinalityType
  <2> DEFINE Z == X \ Y
  <2>2. Y \cup Z = X /\ Y \cap Z = {} /\ Cardinality({}) = 0
    BY FS_EmptySet
  <2> HIDE DEF Z
  <2>3. Cardinality(Y \cup Z) = Cardinality(Y) + Cardinality(Z) - Cardinality(Y \cap Z)
    BY <2>1, FS_Union DEF Z
  <2>4. Cardinality(X) = Cardinality(Y) + Cardinality(Z) - 0
    BY <2>2, <2>3
  <2>5. Cardinality(X) = Cardinality(Y) + Cardinality(X \ Y)
    BY <2>1, <2>4 DEF Z
  <2> QED BY <1>1, <2>1, <2>5
<1> QED BY <1>1, <1>2, <1>3, <1>4

\* Sessions that close make room.
LEMMA FitsLess ==
  ASSUME NEW v \in Sizes, NEW w \in Sizes, NEW u \in Sizes, NEW z \in Sizes,
         NEW count \in Nat, NEW bytes \in Nat,
         NEW O \in SUBSET Artifacts, NEW R \in SUBSET Artifacts, NEW P \in SUBSET O,
         \A x \in P : u[x] = v[x], \A x \in R : z[x] = w[x], Fits(O, R, v, w, count, bytes)
  PROVE  Fits(P, R, u, z, count, bytes)
<1> SUFFICES ASSUME P # {} PROVE Fits(P, R, u, z, count, bytes)
  BY DEF Fits
<1>1. O # {} /\ Cardinality(R) + Cardinality(O) <= count /\ Total(w)[R] + Total(v)[O] <= bytes
  BY DEF Fits
<1>2. Total(u)[P] = Total(v)[P] /\ Total(z)[R] = Total(w)[R]
  <2>1. Total(u)[P] = Total(v)[P]
    BY TotalAgrees
  <2>2. Total(z)[R] = Total(w)[R]
    BY TotalAgrees
  <2> QED BY <2>1, <2>2
<1>3. Total(v)[O \ P] = Total(v)[O] - Total(v)[P]
  BY TotalSplit
<1>4. /\ Total(v)[O] \in Nat /\ Total(v)[P] \in Nat /\ Total(v)[O \ P] \in Nat /\ Total(w)[R] \in Nat
      /\ Cardinality(O) \in Nat /\ Cardinality(P) \in Nat /\ Cardinality(R) \in Nat
  BY TotalFacts, Counted
<1>5. Cardinality(P) <= Cardinality(O)
  BY Counted, FS_Subset
<1> QED BY <1>1, <1>2, <1>3, <1>4, <1>5 DEF Fits

\* A session whose evidence is retained keeps what it reserved.
LEMMA FitsMove ==
  ASSUME NEW v \in Sizes, NEW w \in Sizes, NEW u \in Sizes, NEW z \in Sizes,
         NEW count \in Nat, NEW bytes \in Nat,
         NEW O \in SUBSET Artifacts, NEW R \in SUBSET Artifacts, NEW x \in O, x \notin R,
         \A y \in O \ {x} : u[y] = v[y], \A y \in R : z[y] = w[y], z[x] = v[x],
         Fits(O, R, v, w, count, bytes)
  PROVE  Fits(O \ {x}, R \cup {x}, u, z, count, bytes)
<1>1. Cardinality(R) + Cardinality(O) <= count /\ Total(w)[R] + Total(v)[O] <= bytes
  BY DEF Fits
<1>2. Total(u)[O \ {x}] = Total(v)[O \ {x}] /\ Total(z)[R] = Total(w)[R]
  <2>1. O \ {x} \in SUBSET Artifacts
    OBVIOUS
  <2>2. Total(u)[O \ {x}] = Total(v)[O \ {x}]
    BY <2>1, TotalAgrees
  <2>3. Total(z)[R] = Total(w)[R]
    BY TotalAgrees
  <2> QED BY <2>2, <2>3
<1>3. Total(v)[O] = v[x] + Total(v)[O \ {x}] /\ Total(z)[R \cup {x}] = Total(z)[R] + z[x]
  <2>1. Total(v)[O] = v[x] + Total(v)[O \ {x}]
    BY TotalFacts
  <2>2. Total(z)[R \cup {x}] = Total(z)[R] + z[x]
    BY TotalFacts
  <2> QED BY <2>1, <2>2
<1>4. /\ Cardinality(O \ {x}) = Cardinality(O) - 1 /\ Cardinality(R \cup {x}) = Cardinality(R) + 1
      /\ Cardinality(O) \in Nat /\ Cardinality(R) \in Nat
  BY Counted
<1>5. Total(w)[R] \in Nat /\ Total(v)[O \ {x}] \in Nat /\ v[x] \in Nat
  BY TotalFacts DEF Sizes
<1> QED BY <1>1, <1>2, <1>3, <1>4, <1>5 DEF Fits

\* Evidence for which there is room is stored beside the open sessions.
LEMMA FitsStore ==
  ASSUME NEW v \in Sizes, NEW w \in Sizes, NEW z \in Sizes, NEW count \in Nat, NEW bytes \in Nat,
         NEW O \in SUBSET Artifacts, NEW R \in SUBSET Artifacts, NEW x \in Artifacts \ R,
         \A y \in R : z[y] = w[y], Room(O, R, v, w, z[x], count, bytes)
  PROVE  Fits(O, R \cup {x}, v, z, count, bytes)
<1>1. Total(z)[R] = Total(w)[R]
  BY TotalAgrees
<1>2. Total(z)[R \cup {x}] = Total(z)[R] + z[x]
  BY TotalFacts
<1>3. Cardinality(R \cup {x}) = Cardinality(R) + 1 /\ Cardinality(O) \in Nat /\ Cardinality(R) \in Nat
  BY Counted
<1>4. Total(w)[R] \in Nat /\ Total(v)[O] \in Nat /\ z[x] \in Nat
  BY TotalFacts DEF Sizes
<1> QED BY <1>1, <1>2, <1>3, <1>4 DEF Fits, Room

\* A session for which there is room is opened.
LEMMA FitsOpen ==
  ASSUME NEW v \in Sizes, NEW w \in Sizes, NEW u \in Sizes, NEW count \in Nat, NEW bytes \in Nat,
         NEW O \in SUBSET Artifacts, NEW R \in SUBSET Artifacts, NEW x \in Artifacts \ O,
         \A y \in O : u[y] = v[y], Room(O, R, v, w, u[x], count, bytes)
  PROVE  Fits(O \cup {x}, R, u, w, count, bytes)
<1>1. Total(u)[O] = Total(v)[O]
  BY TotalAgrees
<1>2. Total(u)[O \cup {x}] = Total(u)[O] + u[x]
  BY TotalFacts
<1>3. Cardinality(O \cup {x}) = Cardinality(O) + 1 /\ Cardinality(O) \in Nat /\ Cardinality(R) \in Nat
  BY Counted
<1>4. Total(w)[R] \in Nat /\ Total(v)[O] \in Nat /\ u[x] \in Nat
  BY TotalFacts DEF Sizes
<1> QED BY <1>1, <1>2, <1>3, <1>4 DEF Fits, Room

\* There is room for what a session reserved, once it is released.
LEMMA FitsRoom ==
  ASSUME NEW v \in Sizes, NEW w \in Sizes, NEW count \in Nat, NEW bytes \in Nat,
         NEW O \in SUBSET Artifacts, NEW R \in SUBSET Artifacts, NEW x \in O,
         Fits(O, R, v, w, count, bytes)
  PROVE  Room(O \ {x}, R, v, w, v[x], count, bytes)
<1>1. Cardinality(R) + Cardinality(O) <= count /\ Total(w)[R] + Total(v)[O] <= bytes
  BY DEF Fits
<1>2. Total(v)[O] = v[x] + Total(v)[O \ {x}]
  BY TotalFacts
<1>3. /\ Cardinality(O \ {x}) = Cardinality(O) - 1
      /\ Cardinality(O) \in Nat /\ Cardinality(R) \in Nat
  BY Counted
<1>4. Total(w)[R] \in Nat /\ Total(v)[O \ {x}] \in Nat /\ v[x] \in Nat
  BY TotalFacts DEF Sizes
<1> QED BY <1>1, <1>2, <1>3, <1>4 DEF Room

----------------------------------------------------------------------------
(* The counters and the quotas, of tables of sessions S and of evidence T. *)

SessionTables == [Artifacts -> SessionRow \cup {Null}]
EvidenceTables == [Artifacts -> RetainedRow \cup {Null}]

SessionsIn(S) == {x \in Artifacts : S[x] # Null}
OpenIn(S) == {x \in Artifacts : S[x] # Null /\ S[x].state = "OPEN"}
OpenFor(S, c) == {x \in OpenIn(S) : S[x].manifest.command = c}
StoredIn(T) == {x \in Artifacts : T[x] # Null}
StoredFor(T, c) == {x \in StoredIn(T) : T[x].command = c}

CountersExact(S, T, u) ==
  /\ u.open = Cardinality(OpenIn(S))
  /\ u.reserved = Total(SessionSizes(S))[OpenIn(S)]
  /\ u.sessions = Cardinality(SessionsIn(S))
  /\ u.artifacts = Cardinality(StoredIn(T))
  /\ u.bytes = Total(StoredSizes(T))[StoredIn(T)]

QuotasKept(S, T) ==
  /\ Fits(OpenIn(S), StoredIn(T), SessionSizes(S), StoredSizes(T), MaxCount, MaxBytes)
  /\ \A c \in Commands :
       Fits(OpenFor(S, c), StoredFor(T, c), SessionSizes(S), StoredSizes(T),
            MaxCommandCount, MaxCommandBytes)

\* The quotas are naturals (storage_quota and the limits of response_artifacts).
LEMMA Limits == {MaxCount, MaxBytes, MaxCommandCount, MaxCommandBytes} \subseteq Nat
BY TransfersAssumption

\* Sessions Y close and give back what they reserved.
LEMMA CloseStep ==
  ASSUME NEW S \in SessionTables, NEW S2 \in SessionTables, NEW T \in EvidenceTables, NEW u, NEW u2,
         NEW Y \in SUBSET OpenIn(S), OpenIn(S2) = OpenIn(S) \ Y, SessionsIn(S2) = SessionsIn(S),
         \A x \in OpenIn(S2) : S2[x].manifest = S[x].manifest,
         CountersExact(S, T, u), QuotasKept(S, T),
         u2.open = u.open - Cardinality(Y), u2.reserved = u.reserved - Total(SessionSizes(S))[Y],
         u2.sessions = u.sessions, u2.artifacts = u.artifacts, u2.bytes = u.bytes
  PROVE  CountersExact(S2, T, u2) /\ QuotasKept(S2, T)
<1> DEFINE v == SessionSizes(S)
           v2 == SessionSizes(S2)
           w == StoredSizes(T)
           O == OpenIn(S)
           P == OpenIn(S2)
           R == StoredIn(T)
<1>1. v \in Sizes /\ v2 \in Sizes /\ w \in Sizes
  BY SessionSizesMean, StoredSizesMean DEF SessionTables, EvidenceTables
<1>2. O \in SUBSET Artifacts /\ P \in SUBSET O /\ P = O \ Y /\ R \in SUBSET Artifacts
  BY DEF OpenIn, StoredIn
<1>3. \A x \in P : v2[x] = v[x]
  <2> SUFFICES ASSUME NEW x \in P PROVE v2[x] = v[x]
    OBVIOUS
  <2>1. x \in Artifacts /\ S2[x] # Null /\ S[x] # Null /\ S2[x].manifest = S[x].manifest
    BY DEF OpenIn
  <2> QED BY <2>1 DEF SessionSizes
<1> HIDE DEF v, v2, w
<1>4. Total(v2)[P] = Total(v)[O] - Total(v)[Y]
  <2>1. v \in Sizes /\ O \in SUBSET Artifacts /\ P \in SUBSET Artifacts /\ Y \in SUBSET O /\ P = O \ Y
    BY <1>1, <1>2
  <2> HIDE DEF O, P
  <2>2. Total(v2)[P] = Total(v)[P]
    BY <1>3, <2>1, TotalAgrees
  <2>3. Total(v)[O \ Y] = Total(v)[O] - Total(v)[Y]
    BY <2>1, TotalSplit
  <2> QED BY <2>1, <2>2, <2>3
<1>5. Cardinality(P) = Cardinality(O) - Cardinality(Y)
  BY <1>2, Counted
<1>6. CountersExact(S2, T, u2)
  BY <1>4, <1>5 DEF CountersExact, v, v2
<1>7. Fits(P, R, v2, w, MaxCount, MaxBytes)
  <2>1. Fits(O, R, v, w, MaxCount, MaxBytes)
    BY DEF QuotasKept, v, w
  <2> QED BY <1>1, <1>2, <1>3, <2>1, FitsLess, Limits
<1>8. ASSUME NEW c \in Commands
      PROVE  Fits(OpenFor(S2, c), StoredFor(T, c), v2, w, MaxCommandCount, MaxCommandBytes)
  <2>1. Fits(OpenFor(S, c), StoredFor(T, c), v, w, MaxCommandCount, MaxCommandBytes)
    BY DEF QuotasKept, v, w
  <2>2. /\ OpenFor(S, c) \in SUBSET Artifacts /\ StoredFor(T, c) \in SUBSET Artifacts
        /\ OpenFor(S2, c) \in SUBSET P
    BY <1>2 DEF OpenFor, StoredFor
  <2>3. OpenFor(S2, c) \in SUBSET OpenFor(S, c)
    BY <1>2 DEF OpenFor
  <2>4. \A x \in OpenFor(S2, c) : v2[x] = v[x]
    BY <1>3, <2>2
  <2> QED BY <1>1, <2>1, <2>2, <2>3, <2>4, FitsLess, Limits
<1> QED BY <1>6, <1>7, <1>8 DEF QuotasKept, v2, w

\* A session is opened for which there is room.
LEMMA OpenStep ==
  ASSUME NEW S \in SessionTables, NEW S2 \in SessionTables, NEW T \in EvidenceTables, NEW u, NEW u2,
         NEW x \in Artifacts \ OpenIn(S), S2[x] # Null, S2[x].state = "OPEN",
         \A y \in Artifacts \ {x} : S2[y] = S[y],
         CountersExact(S, T, u), QuotasKept(S, T),
         Room(OpenIn(S), StoredIn(T), SessionSizes(S), StoredSizes(T), S2[x].manifest.size,
              MaxCount, MaxBytes),
         \A c \in Commands : c = S2[x].manifest.command =>
           Room(OpenFor(S, c), StoredFor(T, c), SessionSizes(S), StoredSizes(T),
                S2[x].manifest.size, MaxCommandCount, MaxCommandBytes),
         u2.open = u.open + 1, u2.reserved = u.reserved + S2[x].manifest.size,
         u2.sessions = u.sessions + (IF S[x] = Null THEN 1 ELSE 0),
         u2.artifacts = u.artifacts, u2.bytes = u.bytes
  PROVE  CountersExact(S2, T, u2) /\ QuotasKept(S2, T)
<1> DEFINE v == SessionSizes(S)
           v2 == SessionSizes(S2)
           w == StoredSizes(T)
           O == OpenIn(S)
           R == StoredIn(T)
<1>1. v \in Sizes /\ v2 \in Sizes /\ w \in Sizes
  BY SessionSizesMean, StoredSizesMean DEF SessionTables, EvidenceTables
<1>2. /\ O \in SUBSET Artifacts /\ R \in SUBSET Artifacts
      /\ OpenIn(S2) = O \cup {x} /\ x \notin O
  BY DEF OpenIn, StoredIn
<1>3. SessionsIn(S2) = SessionsIn(S) \cup {x} /\ SessionsIn(S) \in SUBSET Artifacts
  BY DEF SessionsIn
<1>4. (\A y \in Artifacts \ {x} : v2[y] = v[y]) /\ v2[x] = S2[x].manifest.size
  BY DEF SessionSizes
<1> HIDE DEF v, v2, w, O, R
<1>5. \A y \in O : v2[y] = v[y]
  BY <1>2, <1>4
<1>6. Total(v2)[O \cup {x}] = Total(v)[O] + v2[x]
  BY <1>1, <1>2, <1>5, TotalAdded
<1>7. Cardinality(O \cup {x}) = Cardinality(O) + 1
  BY <1>2, Counted
<1>8. Cardinality(SessionsIn(S2)) = Cardinality(SessionsIn(S)) + (IF S[x] = Null THEN 1 ELSE 0)
  <2>1. CASE S[x] = Null
    <3>1. x \in Artifacts \ SessionsIn(S)
      BY <2>1 DEF SessionsIn
    <3>2. Cardinality(SessionsIn(S2)) = Cardinality(SessionsIn(S)) + 1
      BY <1>3, <3>1, Counted
    <3> QED BY <2>1, <3>2
  <2>2. CASE S[x] # Null
    <3>1. SessionsIn(S2) = SessionsIn(S)
      BY <1>3, <2>2 DEF SessionsIn
    <3>2. Cardinality(SessionsIn(S)) \in Nat
      BY <1>3, Counted
    <3> QED BY <2>2, <3>1, <3>2
  <2> QED BY <2>1, <2>2
<1>9. CountersExact(S2, T, u2)
  BY <1>2, <1>4, <1>6, <1>7, <1>8 DEF CountersExact, v, v2, O
<1>10. Fits(O \cup {x}, R, v2, w, MaxCount, MaxBytes)
  <2>1. Room(O, R, v, w, v2[x], MaxCount, MaxBytes)
    BY <1>4 DEF v, w, O, R
  <2> QED BY <1>1, <1>2, <1>5, <2>1, FitsOpen, Limits
<1>11. ASSUME NEW c \in Commands
       PROVE  Fits(OpenFor(S2, c), StoredFor(T, c), v2, w, MaxCommandCount, MaxCommandBytes)
  <2>1. /\ OpenFor(S, c) \in SUBSET Artifacts /\ StoredFor(T, c) \in SUBSET Artifacts
        /\ x \in Artifacts \ OpenFor(S, c)
    BY <1>2 DEF OpenFor, StoredFor, O, R
  <2>2. \A y \in OpenFor(S, c) : v2[y] = v[y]
    BY <1>5 DEF OpenFor, O
  <2>3. CASE c = S2[x].manifest.command
    <3>1. OpenFor(S2, c) = OpenFor(S, c) \cup {x}
      BY <1>2, <2>3 DEF OpenFor, O
    <3>2. Room(OpenFor(S, c), StoredFor(T, c), v, w, v2[x], MaxCommandCount, MaxCommandBytes)
      BY <1>4, <2>3 DEF v, w
    <3> QED BY <1>1, <2>1, <2>2, <3>1, <3>2, FitsOpen, Limits
  <2>4. CASE c # S2[x].manifest.command
    <3>1. OpenFor(S2, c) = OpenFor(S, c)
      BY <1>2, <2>4 DEF OpenFor, O
    <3>2. Fits(OpenFor(S, c), StoredFor(T, c), v, w, MaxCommandCount, MaxCommandBytes)
      BY DEF QuotasKept, v, w
    <3> QED BY <1>1, <2>1, <2>2, <3>1, <3>2, FitsLess, Limits
  <2> QED BY <2>3, <2>4
<1> QED BY <1>2, <1>9, <1>10, <1>11 DEF QuotasKept, v2, w, O, R

\* The evidence of a session is retained and its reservation released.
LEMMA MoveStep ==
  ASSUME NEW S \in SessionTables, NEW S2 \in SessionTables, NEW T \in EvidenceTables,
         NEW T2 \in EvidenceTables, NEW u, NEW u2,
         NEW x \in OpenIn(S), T[x] = Null, S2[x] # Null, S2[x].state # "OPEN",
         \A y \in Artifacts \ {x} : S2[y] = S[y] /\ T2[y] = T[y],
         T2[x] # Null, T2[x].size = S[x].manifest.size, T2[x].command = S[x].manifest.command,
         CountersExact(S, T, u), QuotasKept(S, T),
         u2.open = u.open - 1, u2.reserved = u.reserved - S[x].manifest.size,
         u2.sessions = u.sessions,
         u2.artifacts = u.artifacts + 1, u2.bytes = u.bytes + T2[x].size
  PROVE  CountersExact(S2, T2, u2) /\ QuotasKept(S2, T2)
<1> DEFINE v == SessionSizes(S)
           v2 == SessionSizes(S2)
           w == StoredSizes(T)
           w2 == StoredSizes(T2)
           O == OpenIn(S)
           R == StoredIn(T)
<1>1. v \in Sizes /\ v2 \in Sizes /\ w \in Sizes /\ w2 \in Sizes
  BY SessionSizesMean, StoredSizesMean DEF SessionTables, EvidenceTables
<1>2. /\ O \in SUBSET Artifacts /\ x \in O /\ R \in SUBSET Artifacts /\ x \in Artifacts /\ S[x] # Null
      /\ OpenIn(S2) = O \ {x} /\ StoredIn(T2) = R \cup {x} /\ x \notin R
      /\ SessionsIn(S2) = SessionsIn(S)
  BY DEF OpenIn, StoredIn, SessionsIn
<1>3. /\ \A y \in Artifacts \ {x} : v2[y] = v[y] /\ w2[y] = w[y]
      /\ v[x] = S[x].manifest.size /\ w2[x] = v[x]
  BY <1>2 DEF SessionSizes, StoredSizes
<1> HIDE DEF v, v2, w, w2, O, R
<1>4. (\A y \in O \ {x} : v2[y] = v[y]) /\ \A y \in R : w2[y] = w[y]
  BY <1>2, <1>3
<1>5. Total(v2)[O \ {x}] = Total(v)[O] - v[x]
  BY <1>1, <1>2, <1>4, TotalTaken, SMTT(30)
<1>6. Total(w2)[R \cup {x}] = Total(w)[R] + w2[x]
  BY <1>1, <1>2, <1>4, TotalAdded
<1>7. Cardinality(O \ {x}) = Cardinality(O) - 1 /\ Cardinality(R \cup {x}) = Cardinality(R) + 1
  BY <1>2, Counted
<1>8. CountersExact(S2, T2, u2)
  BY <1>2, <1>3, <1>5, <1>6, <1>7 DEF CountersExact, v, v2, w, w2, O, R
<1>9. Fits(O \ {x}, R \cup {x}, v2, w2, MaxCount, MaxBytes)
  <2>1. Fits(O, R, v, w, MaxCount, MaxBytes)
    BY DEF QuotasKept, v, w, O, R
  <2>2. x \in O /\ w2[x] = v[x] /\ x \notin R
    BY <1>2, <1>3 DEF O
  <2>3. MaxCount \in Nat /\ MaxBytes \in Nat
    BY Limits
  <2>4. O \in SUBSET Artifacts /\ R \in SUBSET Artifacts
    BY <1>2
  <2> QED BY <1>1, <1>4, <2>1, <2>2, <2>3, <2>4, FitsMove, Zenon
<1>10. ASSUME NEW c \in Commands
       PROVE  Fits(OpenFor(S2, c), StoredFor(T2, c), v2, w2, MaxCommandCount, MaxCommandBytes)
  <2>0. Fits(OpenFor(S, c), StoredFor(T, c), v, w, MaxCommandCount, MaxCommandBytes)
    BY DEF QuotasKept, v, w
  <2>1. /\ OpenFor(S, c) \in SUBSET Artifacts /\ StoredFor(T, c) \in SUBSET Artifacts
        /\ x \notin StoredFor(T, c)
    BY <1>2 DEF OpenFor, StoredFor, O, R
  <2>2. (\A y \in OpenFor(S, c) \ {x} : v2[y] = v[y]) /\ \A y \in StoredFor(T, c) : w2[y] = w[y]
    BY <1>4 DEF OpenFor, StoredFor, O, R
  <2>3. CASE c = S[x].manifest.command
    <3>1. /\ x \in OpenFor(S, c) /\ OpenFor(S2, c) = OpenFor(S, c) \ {x}
          /\ StoredFor(T2, c) = StoredFor(T, c) \cup {x}
      BY <1>2, <2>3 DEF OpenFor, StoredFor, O, R
    <3>2. /\ OpenFor(S, c) \in SUBSET Artifacts /\ StoredFor(T, c) \in SUBSET Artifacts
          /\ x \in OpenFor(S, c) /\ x \notin StoredFor(T, c) /\ w2[x] = v[x]
      BY <1>3, <2>1, <3>1
    <3>3. MaxCommandCount \in Nat /\ MaxCommandBytes \in Nat
      BY Limits
    <3>4. Fits(OpenFor(S, c) \ {x}, StoredFor(T, c) \cup {x}, v2, w2, MaxCommandCount, MaxCommandBytes)
      BY <1>1, <2>0, <2>2, <3>2, <3>3, FitsMove
    <3> QED BY <3>1, <3>4
  <2>4. CASE c # S[x].manifest.command
    <3>1. OpenFor(S2, c) = OpenFor(S, c) /\ StoredFor(T2, c) = StoredFor(T, c) /\ x \notin OpenFor(S, c)
      BY <1>2, <2>4 DEF OpenFor, StoredFor, O, R
    <3>2. \A y \in OpenFor(S, c) : v2[y] = v[y]
      BY <2>2, <3>1
    <3> QED BY <1>1, <2>0, <2>1, <2>2, <3>1, <3>2, FitsLess, Limits, SMTT(30)
  <2> QED BY <2>3, <2>4
<1> QED BY <1>2, <1>8, <1>9, <1>10 DEF QuotasKept, v2, w2, O, R

\* Evidence for which there is room is retained in one step.
LEMMA StoreStep ==
  ASSUME NEW S \in SessionTables, NEW T \in EvidenceTables, NEW T2 \in EvidenceTables, NEW u, NEW u2,
         NEW x \in Artifacts, T[x] = Null, T2[x] # Null,
         \A y \in Artifacts \ {x} : T2[y] = T[y],
         CountersExact(S, T, u), QuotasKept(S, T),
         Room(OpenIn(S), StoredIn(T), SessionSizes(S), StoredSizes(T), T2[x].size,
              MaxCount, MaxBytes),
         \A c \in Commands : c = T2[x].command =>
           Room(OpenFor(S, c), StoredFor(T, c), SessionSizes(S), StoredSizes(T),
                T2[x].size, MaxCommandCount, MaxCommandBytes),
         u2.open = u.open, u2.reserved = u.reserved, u2.sessions = u.sessions,
         u2.artifacts = u.artifacts + 1, u2.bytes = u.bytes + T2[x].size
  PROVE  CountersExact(S, T2, u2) /\ QuotasKept(S, T2)
<1> DEFINE v == SessionSizes(S)
           w == StoredSizes(T)
           w2 == StoredSizes(T2)
           O == OpenIn(S)
           R == StoredIn(T)
<1>1. v \in Sizes /\ w \in Sizes /\ w2 \in Sizes
  BY SessionSizesMean, StoredSizesMean DEF SessionTables, EvidenceTables
<1>2. /\ O \in SUBSET Artifacts /\ R \in SUBSET Artifacts
      /\ StoredIn(T2) = R \cup {x} /\ x \notin R
  BY DEF OpenIn, StoredIn
<1>3. (\A y \in Artifacts \ {x} : w2[y] = w[y]) /\ w2[x] = T2[x].size
  BY DEF StoredSizes
<1> HIDE DEF v, w, w2, O, R
<1>4. \A y \in R : w2[y] = w[y]
  BY <1>2, <1>3
<1>5. Total(w2)[R \cup {x}] = Total(w)[R] + w2[x]
  <2>1. w \in Sizes /\ w2 \in Sizes /\ R \in SUBSET Artifacts /\ x \in Artifacts \ R
    BY <1>1, <1>2
  <2> QED BY <1>4, <2>1, TotalAdded
<1>6. Cardinality(R \cup {x}) = Cardinality(R) + 1
  BY <1>2, Counted
<1>7. CountersExact(S, T2, u2)
  BY <1>2, <1>3, <1>5, <1>6 DEF CountersExact, v, w, w2, O, R
<1>8. Fits(O, R \cup {x}, v, w2, MaxCount, MaxBytes)
  <2>1. Room(O, R, v, w, w2[x], MaxCount, MaxBytes)
    BY <1>3 DEF v, w, O, R
  <2> QED BY <1>1, <1>2, <1>4, <2>1, FitsStore, Limits
<1>9. ASSUME NEW c \in Commands
      PROVE  Fits(OpenFor(S, c), StoredFor(T2, c), v, w2, MaxCommandCount, MaxCommandBytes)
  <2>1. /\ OpenFor(S, c) \in SUBSET Artifacts /\ StoredFor(T, c) \in SUBSET Artifacts
        /\ x \in Artifacts \ StoredFor(T, c)
    BY <1>2 DEF OpenFor, StoredFor, O, R
  <2>2. \A y \in StoredFor(T, c) : w2[y] = w[y]
    BY <1>4 DEF StoredFor, R
  <2>3. CASE c = T2[x].command
    <3>1. StoredFor(T2, c) = StoredFor(T, c) \cup {x}
      BY <1>2, <2>3 DEF StoredFor, R
    <3>2. Room(OpenFor(S, c), StoredFor(T, c), v, w, w2[x], MaxCommandCount, MaxCommandBytes)
      BY <1>3, <2>3 DEF v, w
    <3> QED BY <1>1, <2>1, <2>2, <3>1, <3>2, FitsStore, Limits
  <2>4. CASE c # T2[x].command
    <3>1. StoredFor(T2, c) = StoredFor(T, c)
      BY <1>2, <2>4 DEF StoredFor, R
    <3>2. Fits(OpenFor(S, c), StoredFor(T, c), v, w, MaxCommandCount, MaxCommandBytes)
      BY DEF QuotasKept, v, w
    <3> QED BY <1>1, <2>1, <2>2, <3>1, <3>2, FitsLess, Limits
  <2> QED BY <2>3, <2>4
<1> QED BY <1>2, <1>7, <1>8, <1>9 DEF QuotasKept, v, w2, O, R

----------------------------------------------------------------------------
(* The operations.                                                         *)

\* The books are kept: the counters are exact and the quotas hold.
UsageInv ==
  /\ Inv
  /\ usage \in UsageRow
  /\ CountersExact(session, retained, usage)
  /\ QuotasKept(session, retained)

\* The tables are the ones the definitions above are about.
LEMMA TablesMean ==
  ASSUME UploadsTyped
  PROVE  /\ session \in SessionTables /\ retained \in EvidenceTables
         /\ Open = OpenIn(session) /\ Stored = StoredIn(retained)
         /\ \A c : StoredOf(c) = StoredFor(retained, c)
BY DEF UploadsTyped, SessionTables, EvidenceTables, Open, InState, OpenIn, Stored, StoredIn,
       StoredOf, StoredFor

\* The sums of the code, of open sessions and of evidence on file.
LEMMA BytesMean ==
  ASSUME UploadsTyped
  PROVE  /\ SessionSizes(session) \in Sizes /\ StoredSizes(retained) \in Sizes
         /\ \A X \in SUBSET Open : ReservedBytes(X) = Total(SessionSizes(session))[X]
         /\ \A X \in SUBSET Stored : StoredBytes(X) = Total(StoredSizes(retained))[X]
<1>1. SessionSizes(session) \in Sizes /\ StoredSizes(retained) \in Sizes
  BY SessionSizesMean, StoredSizesMean DEF UploadsTyped
<1>2. ASSUME NEW X \in SUBSET Open
      PROVE  ReservedBytes(X) = Total(SessionSizes(session))[X]
  <2>1. X \in SUBSET Artifacts /\ \A x \in X : session[x] # Null
    BY DEF Open, InState
  <2>2. SumReserved(session, X) = Total(SessionSizes(session))[X]
    BY <2>1, SessionSizesMean DEF UploadsTyped
  <2> QED BY <2>2, BytesAreSums
<1>3. ASSUME NEW X \in SUBSET Stored
      PROVE  StoredBytes(X) = Total(StoredSizes(retained))[X]
  <2>1. X \in SUBSET Artifacts /\ \A x \in X : retained[x] # Null
    BY DEF Stored
  <2>2. SumStored(retained, X) = Total(StoredSizes(retained))[X]
    BY <2>1, StoredSizesMean DEF UploadsTyped
  <2> QED BY <2>2, BytesAreSums
<1> QED BY <1>1, <1>2, <1>3

\* What the trigger writes for sessions that close.
LEMMA ReleasedFields ==
  ASSUME UploadsTyped, usage \in UsageRow, NEW X \in SUBSET Open
  PROVE  /\ Released(X) \in UsageRow
         /\ Released(X).open = usage.open - Cardinality(X)
         /\ Released(X).reserved = usage.reserved - Total(SessionSizes(session))[X]
         /\ Released(X).sessions = usage.sessions
         /\ Released(X).artifacts = usage.artifacts
         /\ Released(X).bytes = usage.bytes
<1>1. X \in SUBSET Artifacts
  BY DEF Open, InState
<1>2. Cardinality(X) \in Nat
  BY <1>1, Counted
<1>3. PICK r : r = ReservedBytes(X)
  OBVIOUS
<1>4. r = Total(SessionSizes(session))[X]
  BY <1>3, BytesMean
<1>5. r \in Nat
  BY <1>1, <1>4, BytesMean, TotalFacts
<1>6. PICK n : n = Cardinality(X)
  OBVIOUS
<1>7. PICK v : v = [usage EXCEPT !.open = usage.open - n]
  OBVIOUS
<1>8. /\ v \in UsageRow /\ v.open = usage.open - n /\ v.reserved = usage.reserved
      /\ v.sessions = usage.sessions /\ v.artifacts = usage.artifacts /\ v.bytes = usage.bytes
  BY <1>2, <1>6, <1>7 DEF UsageRow
<1>9. Released(X) = [v EXCEPT !.reserved = v.reserved - r]
  BY <1>3, <1>6, <1>7 DEF Released
<1>10. /\ Released(X) \in UsageRow /\ Released(X).open = v.open
       /\ Released(X).reserved = v.reserved - r /\ Released(X).sessions = v.sessions
       /\ Released(X).artifacts = v.artifacts /\ Released(X).bytes = v.bytes
  BY <1>5, <1>8, <1>9 DEF UsageRow
<1> QED BY <1>4, <1>6, <1>8, <1>10

\* The quotas of retention, as room.
LEMMA RetainableMeans ==
  ASSUME UploadsTyped, NEW m, NEW u, NEW O \in SUBSET Open, NEW mine,
         mine = {x \in O : session[x].manifest.command = m.command}
  PROVE  Retainable(m, u, O) <=>
           /\ Room(mine, StoredFor(retained, m.command), SessionSizes(session),
                   StoredSizes(retained), m.size, MaxCommandCount, MaxCommandBytes)
           /\ u.artifacts + u.open < MaxCount
           /\ u.bytes + u.reserved + m.size <= MaxBytes
<1>1. mine \in SUBSET Open
  OBVIOUS
<1>2. ReservedBytes(mine) = Total(SessionSizes(session))[mine]
  BY <1>1, BytesMean
<1>3. StoredOf(m.command) = StoredFor(retained, m.command) /\ StoredOf(m.command) \in SUBSET Stored
  BY TablesMean DEF StoredOf
<1>4. StoredBytes(StoredOf(m.command)) = Total(StoredSizes(retained))[StoredFor(retained, m.command)]
  BY <1>3, BytesMean
<1> QED BY <1>2, <1>3, <1>4 DEF Retainable, Room

\* Room under the global quotas is what the counters say.
LEMMA CountersMean ==
  ASSUME NEW S, NEW T, NEW u, NEW n, CountersExact(S, T, u),
         u.artifacts + u.open < MaxCount, u.bytes + u.reserved + n <= MaxBytes
  PROVE  Room(OpenIn(S), StoredIn(T), SessionSizes(S), StoredSizes(T), n, MaxCount, MaxBytes)
BY DEF CountersExact, Room

\* The sweep, on the counters and the quotas.
LEMMA SweepCloses ==
  ASSUME UsageInv
  PROVE  /\ CountersExact(Swept, retained, Released(Overdue)) /\ QuotasKept(Swept, retained)
         /\ Released(Overdue) \in UsageRow
         /\ Swept \in SessionTables
         /\ OpenIn(Swept) = Open \ Overdue
         /\ \A x \in OpenIn(Swept) : Swept[x] = session[x]
         /\ \A x \in Artifacts : Swept[x] = Null <=> session[x] = Null
<1>1. /\ UploadsTyped /\ NoHalfCommit /\ usage \in UsageRow
      /\ CountersExact(session, retained, usage) /\ QuotasKept(session, retained)
  BY DEF UsageInv, Inv
<1>2. /\ session \in SessionTables /\ retained \in EvidenceTables
      /\ Open = OpenIn(session)
  BY <1>1, TablesMean
<1>3. Overdue \in SUBSET Open
  BY DEF Overdue
<1>4. Swept \in SessionTables
  BY <1>1, SweptTyped DEF SessionTables
<1>5. \A x \in Artifacts : Swept[x] = Null <=> session[x] = Null
  BY <1>1, SweptEffect, SessionsAssumption
<1>6. \A x \in Artifacts : x \notin Overdue => Swept[x] = session[x]
  BY DEF Swept
<1>7. \A x \in Overdue : x \in Artifacts /\ Swept[x] # Null /\ Swept[x].state # "OPEN"
  <2> SUFFICES ASSUME NEW x \in Overdue
               PROVE  x \in Artifacts /\ Swept[x] # Null /\ Swept[x].state # "OPEN"
    OBVIOUS
  <2>1. x \in Artifacts /\ session[x] # Null /\ session[x].state = "OPEN" /\ session[x] \in SessionRow
    BY <1>1 DEF Overdue, Open, InState, UploadsTyped
  <2>2. PICK closed : closed = [session[x] EXCEPT !.state = "EXPIRED"]
    OBVIOUS
  <2>3. closed \in SessionRow /\ closed.state = "EXPIRED"
    BY <2>1, <2>2 DEF SessionRow
  <2>4. Swept[x] = [closed EXCEPT !.chunks = <<>>]
    BY <2>1, <2>2 DEF Swept
  <2>5. Swept[x].state = "EXPIRED"
    BY <2>3, <2>4 DEF SessionRow
  <2> QED BY <1>5, <2>1, <2>5
<1>8. OpenIn(Swept) = OpenIn(session) \ Overdue
  BY <1>6, <1>7 DEF OpenIn
<1>9. SessionsIn(Swept) = SessionsIn(session)
  BY <1>5 DEF SessionsIn
<1>10. \A x \in OpenIn(Swept) : Swept[x] = session[x]
  BY <1>6, <1>8 DEF OpenIn
<1>11. /\ Released(Overdue) \in UsageRow
       /\ Released(Overdue).open = usage.open - Cardinality(Overdue)
       /\ Released(Overdue).reserved = usage.reserved - Total(SessionSizes(session))[Overdue]
       /\ Released(Overdue).sessions = usage.sessions
       /\ Released(Overdue).artifacts = usage.artifacts
       /\ Released(Overdue).bytes = usage.bytes
  BY <1>1, <1>3, ReleasedFields
<1>12. CountersExact(Swept, retained, Released(Overdue)) /\ QuotasKept(Swept, retained)
  <2>1. PICK Y, S2, u2 : Y = Overdue /\ S2 = Swept /\ u2 = Released(Overdue)
    OBVIOUS
  <2>2. /\ Y \in SUBSET OpenIn(session) /\ S2 \in SessionTables
        /\ OpenIn(S2) = OpenIn(session) \ Y /\ SessionsIn(S2) = SessionsIn(session)
    BY <1>2, <1>3, <1>4, <1>8, <1>9, <2>1
  <2>3. \A x \in OpenIn(S2) : S2[x].manifest = session[x].manifest
    BY <1>10, <2>1
  <2>4. /\ u2.open = usage.open - Cardinality(Y)
        /\ u2.reserved = usage.reserved - Total(SessionSizes(session))[Y]
        /\ u2.sessions = usage.sessions /\ u2.artifacts = usage.artifacts /\ u2.bytes = usage.bytes
    BY <1>11, <2>1
  <2>5. CountersExact(S2, retained, u2) /\ QuotasKept(S2, retained)
    BY <1>1, <1>2, <2>2, <2>3, <2>4, CloseStep
  <2> QED BY <2>1, <2>5
<1> QED BY <1>2, <1>4, <1>5, <1>8, <1>10, <1>11, <1>12

\* A request that only sweeps.
LEMMA AnswerAccounts ==
  ASSUME UsageInv, Answer
  PROVE  /\ usage' \in UsageRow /\ CountersExact(session', retained', usage')
         /\ QuotasKept(session', retained')
<1>1. session' = Swept /\ usage' = Released(Overdue) /\ retained' = retained
  BY DEF Answer
<1> QED BY <1>1, SweepCloses

\* An admission.
LEMMA AdmitAccounts ==
  ASSUME UsageInv, NEW m \in Manifests, Admit(m)
  PROVE  /\ usage' \in UsageRow /\ CountersExact(session', retained', usage')
         /\ QuotasKept(session', retained')
<1>1. PICK x, u, S, n, row : /\ x = m.artifact /\ u = Released(Overdue) /\ S = Swept /\ n = m.size
                             /\ row = [manifest |-> m, state |-> "OPEN", chunks |-> <<>>,
                                       admitted |-> now, expires |-> now + Lifetime]
  OBVIOUS
<1>2. x \in Artifacts /\ n \in Nat /\ m.command \in Commands
  BY <1>1, ManifestFields
<1>3. UploadsTyped /\ NoHalfCommit /\ KeysTypeOK
  BY DEF UsageInv, Inv, KeysInv
<1>4. /\ CountersExact(S, retained, u) /\ QuotasKept(S, retained)
      /\ u \in UsageRow /\ S \in SessionTables
      /\ OpenIn(S) = Open \ Overdue
      /\ \A y \in OpenIn(S) : S[y] = session[y]
      /\ \A y \in Artifacts : S[y] = Null <=> session[y] = Null
  BY <1>1, SweepCloses
<1>5. retained \in EvidenceTables
  BY <1>3, TablesMean
<1>6. /\ session' = [S EXCEPT ![x] = row] /\ retained' = retained
      /\ session[x] # Null => S[x].state = "EXPIRED"
      /\ usage' = [u EXCEPT !.open = @ + 1, !.reserved = @ + n,
                            !.sessions = @ + (IF session[x] = Null THEN 1 ELSE 0)]
      /\ Retainable(m, u, OpenIn(S))
  BY <1>1, <1>4 DEF Admit, Reservable
<1>7. row \in SessionRow /\ row.state = "OPEN" /\ row.manifest = m
  <2>1. now \in Time /\ now + Lifetime \in Nat
    BY <1>3, KeysAssumption, TransfersAssumption DEF KeysTypeOK, Time
  <2>2. <<>> \in Seq(BOOLEAN)
    OBVIOUS
  <2> QED BY <1>1, <2>1, <2>2 DEF SessionRow
<1>8. PICK S2 : S2 = session'
  OBVIOUS
<1>9. /\ S2 \in SessionTables /\ S2[x] = row /\ S2[x] # Null
      /\ \A y \in Artifacts \ {x} : S2[y] = S[y]
  BY <1>2, <1>4, <1>6, <1>7, <1>8, SessionsAssumption DEF SessionTables
<1>10. x \in Artifacts \ OpenIn(S)
  BY <1>2, <1>4, <1>6 DEF OpenIn
<1>11. PICK u2, k : u2 = usage' /\ k = IF S[x] = Null THEN 1 ELSE 0
  OBVIOUS
<1>12. /\ u2 \in UsageRow /\ u2.open = u.open + 1 /\ u2.reserved = u.reserved + n
       /\ u2.sessions = u.sessions + k /\ u2.artifacts = u.artifacts /\ u2.bytes = u.bytes
  <2>1. k \in Nat /\ k = IF session[x] = Null THEN 1 ELSE 0
    BY <1>2, <1>4, <1>11
  <2>2. PICK a : a = [u EXCEPT !.open = u.open + 1]
    OBVIOUS
  <2>3. /\ a \in UsageRow /\ a.open = u.open + 1 /\ a.reserved = u.reserved
        /\ a.sessions = u.sessions /\ a.artifacts = u.artifacts /\ a.bytes = u.bytes
    BY <1>4, <2>2 DEF UsageRow
  <2>4. PICK b : b = [a EXCEPT !.reserved = a.reserved + n]
    OBVIOUS
  <2>5. /\ b \in UsageRow /\ b.open = a.open /\ b.reserved = a.reserved + n
        /\ b.sessions = a.sessions /\ b.artifacts = a.artifacts /\ b.bytes = a.bytes
    BY <1>2, <2>3, <2>4 DEF UsageRow
  <2>6. u2 = [b EXCEPT !.sessions = b.sessions + k]
    BY <1>6, <1>11, <2>1, <2>2, <2>4
  <2>7. /\ u2 \in UsageRow /\ u2.open = b.open /\ u2.reserved = b.reserved
        /\ u2.sessions = b.sessions + k /\ u2.artifacts = b.artifacts /\ u2.bytes = b.bytes
    BY <2>1, <2>5, <2>6 DEF UsageRow
  <2> QED BY <2>3, <2>5, <2>7
<1>13. /\ u.artifacts + u.open < MaxCount
       /\ u.bytes + u.reserved + n <= MaxBytes
       /\ \A c \in Commands : c = m.command =>
            Room(OpenFor(S, c), StoredFor(retained, c), SessionSizes(S), StoredSizes(retained),
                 n, MaxCommandCount, MaxCommandBytes)
  <2>1. PICK mine : mine = {y \in OpenIn(S) : session[y].manifest.command = m.command}
    OBVIOUS
  <2>2. OpenIn(S) \in SUBSET Open
    BY <1>4
  <2>3. /\ Room(mine, StoredFor(retained, m.command), SessionSizes(session),
                StoredSizes(retained), n, MaxCommandCount, MaxCommandBytes)
        /\ u.artifacts + u.open < MaxCount
        /\ u.bytes + u.reserved + n <= MaxBytes
    BY <1>1, <1>3, <1>6, <2>1, <2>2, RetainableMeans
  <2>4. mine = OpenFor(S, m.command)
    BY <1>4, <2>1 DEF OpenFor
  <2>5. mine \in SUBSET Artifacts /\ \A y \in mine : SessionSizes(S)[y] = SessionSizes(session)[y]
    BY <1>4, <2>1 DEF OpenIn, SessionSizes
  <2>6. Total(SessionSizes(S))[mine] = Total(SessionSizes(session))[mine]
    BY <2>5, TotalAgrees
  <2>7. Room(mine, StoredFor(retained, m.command), SessionSizes(S),
             StoredSizes(retained), n, MaxCommandCount, MaxCommandBytes)
    BY <2>3, <2>6 DEF Room
  <2> QED BY <2>3, <2>4, <2>7
<1>14. Room(OpenIn(S), StoredIn(retained), SessionSizes(S), StoredSizes(retained), n,
            MaxCount, MaxBytes)
  BY <1>4, <1>13, CountersMean
<1>15. CountersExact(S2, retained, u2) /\ QuotasKept(S2, retained)
  <2>1. /\ S2[x].manifest.size = n /\ S2[x].manifest.command = m.command
        /\ S2[x].state = "OPEN"
    BY <1>1, <1>7, <1>9
  <2>2. u2.sessions = u.sessions + (IF S[x] = Null THEN 1 ELSE 0)
    BY <1>11, <1>12
  <2> HIDE <1>1
  <2> QED BY <1>4, <1>5, <1>9, <1>10, <1>12, <1>13, <1>14, <2>1, <2>2, OpenStep
<1> QED BY <1>6, <1>8, <1>11, <1>12, <1>15

\* One more chunk.
LEMMA ChunkAccounts ==
  ASSUME UsageInv, NEW x \in Artifacts, NEW good \in BOOLEAN, PutChunk(x, good)
  PROVE  /\ usage' \in UsageRow /\ CountersExact(session', retained', usage')
         /\ QuotasKept(session', retained')
<1>1. /\ KeysTypeOK /\ UploadsTyped /\ NoHalfCommit /\ usage \in UsageRow
      /\ CountersExact(session, retained, usage) /\ QuotasKept(session, retained)
  BY DEF UsageInv, Inv, KeysInv
<1>2. session[x] # Null /\ session[x] \in SessionRow /\ retained' = retained /\ usage' = usage
  BY <1>1 DEF PutChunk, Loaded, UploadsTyped
<1>3. PICK S2, row : S2 = session' /\ row = [session[x] EXCEPT !.chunks = Append(@, good)]
  OBVIOUS
<1>4. S2 = [session EXCEPT ![x] = row]
  BY <1>3 DEF PutChunk
<1>5. row.state = session[x].state /\ row.manifest = session[x].manifest
  BY <1>2, <1>3 DEF SessionRow
<1>6. session \in SessionTables /\ retained \in EvidenceTables
  BY <1>1, TablesMean
<1>7. S2 \in SessionTables /\ row \in SessionRow
  <2>1. session' \in SessionTables
    BY <1>1, ChunkStep DEF UploadStep, SessionTables
  <2>2. S2[x] = row
    BY <1>4, <1>6 DEF SessionTables
  <2>3. session[x].chunks \in Seq(BOOLEAN)
    BY <1>2 DEF SessionRow
  <2>4. PICK more : more = Append(session[x].chunks, good)
    OBVIOUS
  <2>5. more \in Seq(BOOLEAN)
    BY <2>3, <2>4
  <2>6. row = [session[x] EXCEPT !.chunks = more]
    BY <1>3, <2>4
  <2>7. row \in SessionRow
    BY <1>2, <2>5, <2>6 DEF SessionRow
  <2> QED BY <1>3, <2>1, <2>7
<1>8. S2[x] = row /\ row # Null /\ \A y \in Artifacts \ {x} : S2[y] = session[y]
  BY <1>4, <1>6, <1>7, SessionsAssumption DEF SessionTables
<1>9. /\ {} \in SUBSET OpenIn(session)
      /\ OpenIn(S2) = OpenIn(session) \ {} /\ SessionsIn(S2) = SessionsIn(session)
  BY <1>2, <1>5, <1>8 DEF OpenIn, SessionsIn
<1>10. \A y \in OpenIn(S2) : S2[y].manifest = session[y].manifest
  BY <1>5, <1>8 DEF OpenIn
<1>11. Cardinality({}) = 0 /\ Total(SessionSizes(session))[{}] = 0
  BY <1>1, FS_EmptySet, BytesMean, TotalFacts
<1>12. /\ usage.open = usage.open - Cardinality({})
       /\ usage.reserved = usage.reserved - Total(SessionSizes(session))[{}]
  BY <1>1, <1>11 DEF UsageRow
<1>13. CountersExact(S2, retained, usage) /\ QuotasKept(S2, retained)
  BY <1>1, <1>6, <1>7, <1>9, <1>10, <1>12, CloseStep
<1> QED BY <1>1, <1>2, <1>3, <1>13

\* What retaining adds to the tables and to the counters.
LEMMA RetainAdds ==
  ASSUME KeysTypeOK, UploadsTyped, NEW m \in Manifests, NEW u \in UsageRow,
         NEW content \in Seq(BOOLEAN), Retain(m, content, u)
  PROVE  /\ retained' \in EvidenceTables
         /\ retained'[m.artifact] # Null
         /\ retained'[m.artifact].size = m.size
         /\ retained'[m.artifact].command = m.command
         /\ \A y \in Artifacts \ {m.artifact} : retained'[y] = retained[y]
         /\ usage' \in UsageRow
         /\ usage'.open = u.open /\ usage'.reserved = u.reserved /\ usage'.sessions = u.sessions
         /\ usage'.artifacts = u.artifacts + 1 /\ usage'.bytes = u.bytes + m.size
<1>1. /\ retained' \in EvidenceTables /\ retained'[m.artifact] \in RetainedRow
      /\ \A y \in Artifacts \ {m.artifact} : retained'[y] = retained[y]
  BY RetainEffect DEF EvidenceTables
<1>2. retained'[m.artifact].size = m.size /\ retained'[m.artifact].command = m.command
  BY ManifestFields DEF Retain, UploadsTyped
<1>3. PICK n, v : n = m.size /\ v = [u EXCEPT !.artifacts = u.artifacts + 1]
  OBVIOUS
<1>4. n \in Nat
  BY <1>3, ManifestFields
<1>5. /\ v \in UsageRow /\ v.open = u.open /\ v.reserved = u.reserved /\ v.sessions = u.sessions
      /\ v.artifacts = u.artifacts + 1 /\ v.bytes = u.bytes
  BY <1>3 DEF UsageRow
<1>6. usage' = [v EXCEPT !.bytes = v.bytes + n]
  BY <1>3 DEF Retain
<1>7. /\ usage' \in UsageRow /\ usage'.open = v.open /\ usage'.reserved = v.reserved
      /\ usage'.sessions = v.sessions /\ usage'.artifacts = v.artifacts
      /\ usage'.bytes = v.bytes + n
  BY <1>4, <1>5, <1>6 DEF UsageRow
<1> QED BY <1>1, <1>2, <1>3, <1>5, <1>7, SessionsAssumption

\* A completion.
LEMMA CompleteAccounts ==
  ASSUME UsageInv, NEW x \in Artifacts, Complete(x)
  PROVE  /\ usage' \in UsageRow /\ CountersExact(session', retained', usage')
         /\ QuotasKept(session', retained')
<1>1. /\ KeysTypeOK /\ UploadsTyped /\ NoHalfCommit /\ usage \in UsageRow
      /\ CountersExact(session, retained, usage) /\ QuotasKept(session, retained)
  BY DEF UsageInv, Inv, KeysInv
<1>2. PICK s, m, u, S2, T2, u2 :
        /\ s = session[x] /\ m = s.manifest /\ u = Released({x})
        /\ S2 = session' /\ T2 = retained' /\ u2 = usage'
  OBVIOUS
<1>3. /\ s # Null /\ s \in SessionRow /\ s.state = "OPEN" /\ m.artifact = x
      /\ s.chunks \in Seq(BOOLEAN) /\ m \in Manifests
  <2>1. s # Null /\ s.state = "OPEN"
    BY <1>2 DEF Complete, Loaded
  <2>2. s \in SessionRow /\ m.artifact = x
    BY <1>1, <1>2, <2>1 DEF UploadsTyped
  <2> QED BY <1>2, <2>1, <2>2 DEF SessionRow
<1>4. retained[x] = Null /\ Retain(m, s.chunks, u)
  BY <1>2 DEF Complete
<1>5. /\ session \in SessionTables /\ retained \in EvidenceTables
      /\ Open = OpenIn(session) /\ {x} \in SUBSET Open
  <2>1. x \in Open
    BY <1>2, <1>3 DEF Open, InState
  <2> QED BY <1>1, <2>1, TablesMean
<1>6. Cardinality({x}) = 1 /\ Total(SessionSizes(session))[{x}] = m.size
  <2>1. Cardinality({x}) = 1
    BY FS_Singleton
  <2>2. PICK w : w = SessionSizes(session)
    OBVIOUS
  <2>3. w \in Sizes /\ w[x] = m.size
    BY <1>1, <1>2, <1>3, <2>2, BytesMean DEF SessionSizes
  <2>4. Total(w)[{x}] = w[x] + Total(w)[{x} \ {x}] /\ Total(w)[{}] = 0 /\ w[x] \in Nat
    BY <2>3, TotalFacts DEF Sizes
  <2>5. {x} \ {x} = {}
    OBVIOUS
  <2>6. Total(w)[{x}] = m.size
    BY <2>3, <2>4, <2>5
  <2> QED BY <2>1, <2>2, <2>6
<1>7. /\ u \in UsageRow /\ u.open = usage.open - 1 /\ u.reserved = usage.reserved - m.size
      /\ u.sessions = usage.sessions /\ u.artifacts = usage.artifacts /\ u.bytes = usage.bytes
  <2>1. /\ u \in UsageRow
        /\ u.open = usage.open - Cardinality({x})
        /\ u.reserved = usage.reserved - Total(SessionSizes(session))[{x}]
        /\ u.sessions = usage.sessions
        /\ u.artifacts = usage.artifacts
        /\ u.bytes = usage.bytes
    BY <1>1, <1>2, <1>5, ReleasedFields
  <2> QED BY <1>6, <2>1
<1>8. /\ T2 \in EvidenceTables /\ T2[x] # Null /\ T2[x].size = m.size /\ T2[x].command = m.command
      /\ \A y \in Artifacts \ {x} : T2[y] = retained[y]
      /\ u2 \in UsageRow
      /\ u2.open = u.open /\ u2.reserved = u.reserved /\ u2.sessions = u.sessions
      /\ u2.artifacts = u.artifacts + 1 /\ u2.bytes = u.bytes + m.size
  BY <1>1, <1>2, <1>3, <1>4, <1>7, RetainAdds
<1>9. /\ S2 \in SessionTables /\ S2[x] # Null /\ S2[x].state # "OPEN"
      /\ \A y \in Artifacts \ {x} : S2[y] = session[y]
  <2>1. S2 \in SessionTables
    BY <1>1, <1>2, CompleteStep DEF UploadStep, SessionTables
  <2>2. S2 = [session EXCEPT ![x].state = "COMPLETE", ![x].chunks = <<>>]
    BY <1>2 DEF Complete
  <2>3. PICK closed, row : closed = [s EXCEPT !.state = "COMPLETE"] /\ row = [closed EXCEPT !.chunks = <<>>]
    OBVIOUS
  <2>4. closed \in SessionRow /\ closed.state = "COMPLETE"
    BY <1>3, <2>3 DEF SessionRow
  <2>5. <<>> \in Seq(BOOLEAN)
    OBVIOUS
  <2>6. row \in SessionRow /\ row.state = "COMPLETE"
    BY <2>3, <2>4, <2>5 DEF SessionRow
  <2>7. PICK mid : mid = [session EXCEPT ![x].state = "COMPLETE"]
    OBVIOUS
  <2>8. mid = [session EXCEPT ![x] = closed]
    BY <1>2, <2>3, <2>7
  <2>9. mid[x] = closed /\ DOMAIN mid = Artifacts /\ \A y \in Artifacts \ {x} : mid[y] = session[y]
    BY <1>5, <2>8 DEF SessionTables
  <2>10. S2 = [mid EXCEPT ![x].chunks = <<>>]
    BY <2>2, <2>7
  <2>11. S2[x] = row /\ \A y \in Artifacts \ {x} : S2[y] = session[y]
    BY <2>3, <2>9, <2>10
  <2> QED BY <2>1, <2>6, <2>11, SessionsAssumption
<1>10. CountersExact(S2, T2, u2) /\ QuotasKept(S2, T2)
  <2>1. x \in OpenIn(session) /\ session[x].manifest.size = m.size /\ session[x].manifest.command = m.command
    BY <1>2, <1>5
  <2>2. /\ T2[x].size = session[x].manifest.size /\ T2[x].command = session[x].manifest.command
        /\ u2.open = usage.open - 1 /\ u2.reserved = usage.reserved - session[x].manifest.size
        /\ u2.sessions = usage.sessions
        /\ u2.artifacts = usage.artifacts + 1 /\ u2.bytes = usage.bytes + T2[x].size
    BY <1>7, <1>8, <2>1
  <2>3. \A y \in Artifacts \ {x} : S2[y] = session[y] /\ T2[y] = retained[y]
    BY <1>8, <1>9
  <2>4. /\ S2 \in SessionTables /\ S2[x] # Null /\ S2[x].state # "OPEN"
        /\ T2 \in EvidenceTables /\ T2[x] # Null
    BY <1>8, <1>9
  <2> QED BY <1>1, <1>4, <1>5, <2>1, <2>2, <2>3, <2>4, MoveStep
<1> QED BY <1>2, <1>8, <1>10

\* An upload in one body.
LEMMA UploadSignedAccounts ==
  ASSUME UsageInv, NEW m \in Manifests, UploadSigned(m)
  PROVE  /\ usage' \in UsageRow /\ CountersExact(session', retained', usage')
         /\ QuotasKept(session', retained')
<1>1. /\ KeysTypeOK /\ UploadsTyped /\ NoHalfCommit /\ usage \in UsageRow
      /\ CountersExact(session, retained, usage) /\ QuotasKept(session, retained)
  BY DEF UsageInv, Inv, KeysInv
<1>2. PICK x, content, T2, u2 :
        /\ x = m.artifact /\ content = [i \in 1..m.size |-> TRUE]
        /\ T2 = retained' /\ u2 = usage'
  OBVIOUS
<1>3. x \in Artifacts /\ m.size \in Nat /\ m.command \in Commands
  BY <1>2, ManifestFields
<1>4. content \in Seq(BOOLEAN)
  <2>1. content \in [1..m.size -> BOOLEAN]
    BY <1>2
  <2> QED BY <1>3, <2>1, SeqDef
<1>5. /\ retained[x] = Null /\ Retain(m, content, usage) /\ session' = session
      /\ Retainable(m, usage, Open)
  BY <1>2 DEF UploadSigned
<1>6. /\ T2 \in EvidenceTables /\ T2[x] # Null /\ T2[x].size = m.size /\ T2[x].command = m.command
      /\ \A y \in Artifacts \ {x} : T2[y] = retained[y]
      /\ u2 \in UsageRow
      /\ u2.open = usage.open /\ u2.reserved = usage.reserved /\ u2.sessions = usage.sessions
      /\ u2.artifacts = usage.artifacts + 1 /\ u2.bytes = usage.bytes + m.size
  BY <1>1, <1>2, <1>4, <1>5, RetainAdds
<1>7. /\ session \in SessionTables /\ retained \in EvidenceTables /\ Open = OpenIn(session)
  BY <1>1, TablesMean
<1>8. /\ usage.artifacts + usage.open < MaxCount
      /\ usage.bytes + usage.reserved + m.size <= MaxBytes
      /\ \A c \in Commands : c = m.command =>
           Room(OpenFor(session, c), StoredFor(retained, c), SessionSizes(session),
                StoredSizes(retained), m.size, MaxCommandCount, MaxCommandBytes)
  <2>1. PICK mine : mine = {y \in Open : session[y].manifest.command = m.command}
    OBVIOUS
  <2>2. /\ Room(mine, StoredFor(retained, m.command), SessionSizes(session),
                StoredSizes(retained), m.size, MaxCommandCount, MaxCommandBytes)
        /\ usage.artifacts + usage.open < MaxCount
        /\ usage.bytes + usage.reserved + m.size <= MaxBytes
    BY <1>1, <1>5, <2>1, RetainableMeans
  <2>3. mine = OpenFor(session, m.command)
    BY <1>7, <2>1 DEF OpenFor
  <2> QED BY <2>2, <2>3
<1>9. Room(OpenIn(session), StoredIn(retained), SessionSizes(session), StoredSizes(retained),
           m.size, MaxCount, MaxBytes)
  BY <1>1, <1>8, CountersMean
<1>10. CountersExact(session, T2, u2) /\ QuotasKept(session, T2)
  BY <1>1, <1>3, <1>5, <1>6, <1>7, <1>8, <1>9, StoreStep
<1> QED BY <1>2, <1>5, <1>6, <1>10

\* Initially no session is open and the counters cover the old rows.
LEMMA InitAccounts == Init => UsageInv
<1> SUFFICES ASSUME Init PROVE UsageInv
  OBVIOUS
<1>1. Inv
  BY InitInv
<1>2. UploadsTyped
  BY <1>1 DEF Inv
<1>3. /\ session \in SessionTables /\ retained \in EvidenceTables
  BY <1>2, TablesMean
<1>4. OpenIn(session) = {} /\ SessionsIn(session) = {}
  BY DEF Init, OpenIn, SessionsIn
<1>5. PICK L : L = DOMAIN Legacy
  OBVIOUS
<1>6. L \in SUBSET Artifacts /\ \A x \in L : Legacy[x] \in RetainedRow
  BY <1>5, TransfersAssumption
<1>7. StoredIn(retained) = L
  BY <1>5, <1>6, SessionsAssumption DEF Init, StoredIn
<1>8. \A x \in L : StoredSizes(retained)[x] = Legacy[x].size
  BY <1>5, <1>6, SessionsAssumption DEF Init, StoredSizes
<1>9. PICK u : u = usage
  OBVIOUS
<1>10. /\ u.open = 0 /\ u.reserved = 0 /\ u.sessions = 0 /\ u.artifacts = Cardinality(L)
       /\ u.bytes = SumStored(Legacy, L)
       /\ u = [open |-> 0, reserved |-> 0, sessions |-> 0, artifacts |-> Cardinality(L),
               bytes |-> SumStored(Legacy, L)]
  BY <1>5, <1>9 DEF Init, SumStored
<1>11. SumStored(Legacy, L) = Total(StoredSizes(retained))[L]
  BY <1>6, <1>8, StoredSum
<1>12. Cardinality(L) \in Nat /\ SumStored(Legacy, L) \in Nat
  BY <1>2, <1>6, <1>11, Counted, BytesMean, TotalFacts
<1>13. Cardinality({}) = 0 /\ Total(SessionSizes(session))[{}] = 0
  BY <1>2, FS_EmptySet, BytesMean, TotalFacts
<1>14. u \in UsageRow
  BY <1>10, <1>12 DEF UsageRow
<1>15. CountersExact(session, retained, u)
  BY <1>4, <1>7, <1>10, <1>11, <1>13 DEF CountersExact
<1>16. QuotasKept(session, retained)
  BY <1>4 DEF QuotasKept, Fits, OpenFor
<1> QED BY <1>1, <1>9, <1>14, <1>15, <1>16 DEF UsageInv

\* Every step keeps the books.
LEMMA StepAccounts == UsageInv /\ [Next]_vars => UsageInv'
<1> SUFFICES ASSUME UsageInv, [Next]_vars PROVE UsageInv'
  OBVIOUS
<1>1. Inv'
  BY StepInv DEF UsageInv
<1> DEFINE Books == /\ usage' \in UsageRow /\ CountersExact(session', retained', usage')
                    /\ QuotasKept(session', retained')
<1>2. ASSUME KeyStep \/ UNCHANGED vars PROVE Books
  <2>1. usage' = usage /\ session' = session /\ retained' = retained
    BY <1>2 DEF KeyStep, vars, transferVars
  <2> QED BY <2>1 DEF UsageInv
<1>3. ASSUME NEW m \in Manifests, Admit(m) \/ UploadSigned(m) PROVE Books
  BY <1>3, AdmitAccounts, UploadSignedAccounts
<1>4. ASSUME Answer PROVE Books
  BY <1>4, AnswerAccounts
<1>5. ASSUME NEW x \in Artifacts, Complete(x) PROVE Books
  BY <1>5, CompleteAccounts
<1>6. ASSUME NEW x \in Artifacts, NEW good \in BOOLEAN, PutChunk(x, good) PROVE Books
  BY <1>6, ChunkAccounts
<1>7. Books
  BY <1>2, <1>3, <1>4, <1>5, <1>6 DEF Next
<1> QED BY <1>1, <1>7 DEF UsageInv

\* The counters the triggers of migrations 26 and 29 keep are the sums and
\* counts over the tables after any sequence of admissions, sweeps, chunks,
\* completions and one-shot uploads, for every set of artifacts and quotas.
THEOREM UsageAlwaysExact == Spec => []UsageExact
<1>1. UsageInv => UsageExact
  <2> SUFFICES ASSUME UsageInv PROVE UsageExact
    OBVIOUS
  <2>1. /\ KeysTypeOK /\ UploadsTyped /\ usage \in UsageRow
        /\ CountersExact(session, retained, usage)
    BY DEF UsageInv, Inv, KeysInv
  <2>2. Open = OpenIn(session) /\ Stored = StoredIn(retained)
    BY <2>1, TablesMean
  <2>3. /\ ReservedBytes(Open) = Total(SessionSizes(session))[Open]
        /\ StoredBytes(Stored) = Total(StoredSizes(retained))[Stored]
    BY <2>1, BytesMean
  <2>4. TypeOK
    BY <2>1 DEF TypeOK, UploadsTyped
  <2> QED BY <2>1, <2>2, <2>3, <2>4 DEF UsageExact, CountersExact, SessionsIn
<1> QED BY InitAccounts, StepAccounts, <1>1, PTL DEF Spec

\* Whatever is uploaded meanwhile, an open session can be retained within the
\* command's and the manager's quotas once its reservation is released
\* (artifact_transfers.complete, response_artifacts.retain).
THEOREM ReservationsAlwaysSuffice == Spec => []ReservationsSuffice
<1>1. UsageInv => ReservationsSuffice
  <2> SUFFICES ASSUME UsageInv, NEW x \in Open
               PROVE  Retainable(session[x].manifest, Released({x}), Open \ {x})
    BY DEF ReservationsSuffice
  <2>1. /\ UploadsTyped /\ usage \in UsageRow
        /\ CountersExact(session, retained, usage) /\ QuotasKept(session, retained)
    BY DEF UsageInv, Inv, KeysInv
  <2>2. PICK m, u, c, v, w : /\ m = session[x].manifest /\ u = Released({x}) /\ c = m.command
                             /\ v = SessionSizes(session) /\ w = StoredSizes(retained)
    OBVIOUS
  <2>3. /\ x \in Artifacts /\ session[x] # Null /\ session[x] \in SessionRow /\ m \in Manifests
        /\ c \in Commands
    <3>1. x \in Artifacts /\ session[x] # Null /\ session[x] \in SessionRow
      BY <2>1 DEF Open, InState, UploadsTyped
    <3> QED BY <2>2, <3>1, ManifestFields DEF SessionRow
  <2>4. v \in Sizes /\ w \in Sizes /\ v[x] = m.size
    BY <2>1, <2>2, <2>3, BytesMean DEF SessionSizes
  <2>5. /\ Open = OpenIn(session) /\ x \in OpenFor(session, c)
        /\ Open \in SUBSET Artifacts /\ StoredIn(retained) \in SUBSET Artifacts
        /\ OpenFor(session, c) \in SUBSET Artifacts /\ StoredFor(retained, c) \in SUBSET Artifacts
    <3>1. Open = OpenIn(session)
      BY <2>1, TablesMean
    <3> QED BY <2>2, <3>1 DEF OpenIn, OpenFor, StoredIn, StoredFor
  <2>6. /\ Fits(Open, StoredIn(retained), v, w, MaxCount, MaxBytes)
        /\ Fits(OpenFor(session, c), StoredFor(retained, c), v, w, MaxCommandCount, MaxCommandBytes)
    BY <2>1, <2>2, <2>3, <2>5 DEF QuotasKept
  <2>7. Room(Open \ {x}, StoredIn(retained), v, w, m.size, MaxCount, MaxBytes)
    BY <2>4, <2>5, <2>6, FitsRoom, Limits
  <2>8. Room(OpenFor(session, c) \ {x}, StoredFor(retained, c), v, w, m.size,
             MaxCommandCount, MaxCommandBytes)
    BY <2>4, <2>5, <2>6, FitsRoom, Limits
  <2>9. /\ u.open = usage.open - Cardinality({x})
        /\ u.reserved = usage.reserved - Total(v)[{x}]
        /\ u.artifacts = usage.artifacts /\ u.bytes = usage.bytes
    BY <2>1, <2>2, ReleasedFields
  <2>10. /\ usage.open = Cardinality(Open) /\ usage.reserved = Total(v)[Open]
         /\ usage.artifacts = Cardinality(StoredIn(retained))
         /\ usage.bytes = Total(w)[StoredIn(retained)]
    BY <2>1, <2>2, <2>5 DEF CountersExact
  <2>11. /\ u.open = Cardinality(Open \ {x}) /\ u.reserved = Total(v)[Open \ {x}]
    <3>1. Cardinality(Open \ {x}) = Cardinality(Open) - Cardinality({x})
      BY <2>5, Counted
    <3>2. Total(v)[Open \ {x}] = Total(v)[Open] - Total(v)[{x}]
      BY <2>4, <2>5, TotalSplit
    <3> QED BY <2>9, <2>10, <3>1, <3>2
  <2>12. u.artifacts + u.open < MaxCount /\ u.bytes + u.reserved + m.size <= MaxBytes
    BY <2>7, <2>9, <2>10, <2>11 DEF Room
  <2>13. OpenFor(session, c) \ {x} = {y \in Open \ {x} : session[y].manifest.command = m.command}
    BY <2>2, <2>5 DEF OpenFor
  <2>14. Retainable(m, u, Open \ {x})
    <3>1. Open \ {x} \in SUBSET Open
      OBVIOUS
    <3>2. PICK mine : mine = {y \in Open \ {x} : session[y].manifest.command = m.command}
      OBVIOUS
    <3>3. Room(mine, StoredFor(retained, m.command), SessionSizes(session),
               StoredSizes(retained), m.size, MaxCommandCount, MaxCommandBytes)
      BY <2>2, <2>8, <2>13, <3>2
    <3> QED BY <2>1, <2>12, <3>1, <3>2, <3>3, RetainableMeans
  <2> QED BY <2>2, <2>14
<1> QED BY InitAccounts, StepAccounts, <1>1, PTL DEF Spec
=============================================================================
