------------------------ MODULE EvidenceAccessProofs ------------------------
(***************************************************************************)
(* The ledger and the access to evidence it records, for any number of     *)
(* artifacts, analysts, grants and requests.                               *)
(*                                                                         *)
(* The ledger verifies because every writer puts one row into a source and *)
(* the same row, under its number, at the end of the ledger.  What the     *)
(* ledger tells of access follows from an invariant that reads the state   *)
(* back from it: the credential of an analyst is the last one the ledger   *)
(* enrolled, a grant the current credential holds stands in the ledger     *)
(* with nothing after it that voids it, and a key the ledger calls         *)
(* compromised is in the set that blocks retrieval.                        *)
(***************************************************************************)
EXTENDS EvidenceAccess, FiniteSetTheorems, SequenceTheorems, TLAPS

Delivered == {"download_requested", "artifact_context_viewed", "artifact_viewed"}

Changes == {"artifact_access_granted", "artifact_access_revoked"}

Events ==
  {"received", "artifact_access_identity_enrolled", "artifact_key_compromised"}
    \cup Delivered \cup Changes \cup Refusals

AuditRow ==
  [event: Events, actor: Analysts \cup {Null},
   about: (Analysts \X Roles) \cup (Analysts \X Cases) \cup Grants \cup Artifacts \cup {Null},
   grant: Grants \cup {Null}, request: Requests \cup {Null}]

\* The source tables of the ledger: one per artifact and the security audit.
Tables == Artifacts \cup {Null}

LedgerRow == [source: Tables, id: Nat, row: AuditRow, legacy: BOOLEAN]

----------------------------------------------------------------------------
(* The chain.                                                              *)

\* All sources as one function.
Books(cust, sec) == [t \in Tables |-> IF t = Null THEN sec ELSE cust[t]]

RowsOf(led, t) == {n \in DOMAIN led : led[n].source = t}

LegacyRows(led) == {n \in DOMAIN led : led[n].legacy}

\* Verifies, for the books and a ledger.
Agree(book, led) ==
  /\ \A n \in DOMAIN led :
       /\ led[n].id \in DOMAIN book[led[n].source]
       /\ book[led[n].source][led[n].id] = led[n].row
  /\ \A t \in Tables : Cardinality(RowsOf(led, t)) = Len(book[t])

\* A ledger is longer by one row.
LEMMA OneMore ==
  ASSUME NEW led \in Seq(LedgerRow), NEW r \in LedgerRow
  PROVE  /\ Append(led, r) \in Seq(LedgerRow)
         /\ Len(led) \in Nat
         /\ Len(Append(led, r)) = Len(led) + 1
         /\ DOMAIN Append(led, r) = DOMAIN led \cup {Len(led) + 1}
         /\ Len(led) + 1 \notin DOMAIN led
         /\ \A n \in DOMAIN led : Append(led, r)[n] = led[n]
         /\ Append(led, r)[Len(led) + 1] = r
         /\ \A n \in 0..Len(led) : SubSeq(Append(led, r), 1, n) = SubSeq(led, 1, n)
OBVIOUS

\* The positions of a ledger are finitely many.
LEMMA FinitelyMany ==
  ASSUME NEW led \in Seq(LedgerRow), NEW P \in SUBSET (DOMAIN led)
  PROVE  IsFiniteSet(P)
<1>1. DOMAIN led = 1..Len(led) /\ Len(led) \in Nat
  OBVIOUS
<1>2. IsFiniteSet(1..Len(led))
  BY <1>1, FS_Interval
<1> QED BY <1>1, <1>2, FS_Subset

LEMMA RowTyped ==
  ASSUME NEW led \in Seq(LedgerRow), NEW n \in DOMAIN led
  PROVE  led[n] \in LedgerRow /\ led[n].source \in Tables
<1>1. led[n] \in LedgerRow
  OBVIOUS
<1> QED BY <1>1 DEF LedgerRow

\* Verifies is about the books and the ledger.
LEMMA VerifiesMeans ==
  ASSUME ledger \in Seq(LedgerRow)
  PROVE  Verifies <=> Agree(Books(custody, security), ledger)
<1> DEFINE book == Books(custody, security)
<1>1. \A t \in Tables : book[t] = IF t = Null THEN security ELSE custody[t]
  BY DEF Books
<1>2. \A n \in DOMAIN ledger : /\ ledger[n].source \in Tables
                               /\ Source(ledger[n]) = book[ledger[n].source]
  <2>1. \A n \in DOMAIN ledger : ledger[n].source \in Tables
    BY RowTyped
  <2> QED BY <1>1, <2>1 DEF Source
<1> HIDE DEF book
<1>3. \A t \in Tables : /\ RowsOf(ledger, t) = {n \in DOMAIN ledger : ledger[n].source = t}
                        /\ book[t] = IF t = Null THEN security ELSE custody[t]
  BY <1>1 DEF RowsOf
<1>4. Agree(book, ledger) <=>
        /\ \A n \in DOMAIN ledger :
             LET r == ledger[n] IN r.id \in DOMAIN Source(r) /\ Source(r)[r.id] = r.row
        /\ \A t \in Tables : Cardinality({n \in DOMAIN ledger : ledger[n].source = t}) =
                               Len(IF t = Null THEN security ELSE custody[t])
  BY <1>2, <1>3, Zenon DEF Agree
<1> QED BY <1>4, Zenon DEF Verifies, Tables, book

\* A row more in the book of t, and the same row at the end of the ledger.
Booked(book, t, e) == [book EXCEPT ![t] = Append(@, e)]

Grown(book, led, t, e) == Append(led, Chained(t, Len(book[t]) + 1, e, FALSE))

\* One row written to a source and chained under its number: the books and
\* the ledger still agree, and no row that claims no authentication is new.
LEMMA OneRowChained ==
  ASSUME NEW book \in [Tables -> Seq(AuditRow)], NEW led \in Seq(LedgerRow), Agree(book, led),
         NEW t \in Tables, NEW e \in AuditRow
  PROVE  /\ Booked(book, t, e) \in [Tables -> Seq(AuditRow)]
         /\ Grown(book, led, t, e) \in Seq(LedgerRow)
         /\ Agree(Booked(book, t, e), Grown(book, led, t, e))
         /\ LegacyRows(Grown(book, led, t, e)) = LegacyRows(led)
         /\ Len(Grown(book, led, t, e)) = Len(led) + 1
         /\ \A n \in 0..Len(led) : SubSeq(Grown(book, led, t, e), 1, n) = SubSeq(led, 1, n)
<1> DEFINE book2 == Booked(book, t, e)
           r == Chained(t, Len(book[t]) + 1, e, FALSE)
           led2 == Grown(book, led, t, e)
<1> USE DEF Booked, Grown
<1>1. book[t] \in Seq(AuditRow) /\ Len(book[t]) \in Nat
  OBVIOUS
<1>2. /\ r \in LedgerRow
      /\ r.source = t /\ r.id = Len(book[t]) + 1 /\ r.row = e /\ r.legacy = FALSE
  BY <1>1 DEF Chained, LedgerRow
<1>3. /\ book2 \in [Tables -> Seq(AuditRow)]
      /\ book2[t] = Append(book[t], e)
      /\ \A u \in Tables : u # t => book2[u] = book[u]
  BY <1>1
<1>4. /\ DOMAIN book2[t] = DOMAIN book[t] \cup {Len(book[t]) + 1}
      /\ \A i \in DOMAIN book[t] : book2[t][i] = book[t][i]
      /\ book2[t][Len(book[t]) + 1] = e
      /\ Len(book2[t]) = Len(book[t]) + 1
  BY <1>1, <1>3
<1>0. led2 = Append(led, r)
  OBVIOUS
<1> HIDE DEF r, book2, led2, Booked, Grown
<1>5. /\ led2 \in Seq(LedgerRow)
      /\ Len(led2) = Len(led) + 1
      /\ DOMAIN led2 = DOMAIN led \cup {Len(led) + 1}
      /\ Len(led) + 1 \notin DOMAIN led
      /\ \A n \in DOMAIN led : led2[n] = led[n]
      /\ led2[Len(led) + 1] = r
      /\ \A n \in 0..Len(led) : SubSeq(led2, 1, n) = SubSeq(led, 1, n)
  BY <1>0, <1>2, OneMore
<1>6. \A n \in DOMAIN led2 : /\ led2[n].id \in DOMAIN book2[led2[n].source]
                             /\ book2[led2[n].source][led2[n].id] = led2[n].row
  <2> SUFFICES ASSUME NEW n \in DOMAIN led2
               PROVE  /\ led2[n].id \in DOMAIN book2[led2[n].source]
                      /\ book2[led2[n].source][led2[n].id] = led2[n].row
    OBVIOUS
  <2>1. CASE n = Len(led) + 1
    BY <1>2, <1>4, <1>5, <2>1
  <2>2. CASE n \in DOMAIN led
    <3>1. /\ led2[n] = led[n] /\ led[n].source \in Tables
          /\ led[n].id \in DOMAIN book[led[n].source]
          /\ book[led[n].source][led[n].id] = led[n].row
      BY <1>5, <2>2, RowTyped DEF Agree
    <3>2. CASE led[n].source = t
      BY <1>4, <3>1, <3>2
    <3>3. CASE led[n].source # t
      BY <1>3, <3>1, <3>3
    <3> QED BY <3>2, <3>3
  <2> QED BY <1>5, <2>1, <2>2
<1>7. ASSUME NEW u \in Tables PROVE Cardinality(RowsOf(led2, u)) = Len(book2[u])
  <2>1. /\ RowsOf(led, u) \in SUBSET (DOMAIN led)
        /\ Cardinality(RowsOf(led, u)) = Len(book[u])
    BY DEF RowsOf, Agree
  <2>2. IsFiniteSet(RowsOf(led, u)) /\ Len(led) + 1 \notin RowsOf(led, u)
    BY <1>5, <2>1, FinitelyMany
  <2>3. CASE u = t
    <3>1. RowsOf(led2, u) = RowsOf(led, u) \cup {Len(led) + 1}
      BY <1>2, <1>5, <2>3 DEF RowsOf
    <3>2. Cardinality(RowsOf(led2, u)) = Cardinality(RowsOf(led, u)) + 1
      BY <2>2, <3>1, FS_AddElement
    <3> QED BY <1>4, <2>1, <2>3, <3>2
  <2>4. CASE u # t
    <3>1. RowsOf(led2, u) = RowsOf(led, u)
      BY <1>2, <1>5, <2>4 DEF RowsOf
    <3> QED BY <1>3, <2>1, <2>4, <3>1
  <2> QED BY <2>3, <2>4
<1>8. LegacyRows(led2) = LegacyRows(led)
  BY <1>2, <1>5 DEF LegacyRows
<1> QED BY <1>3, <1>5, <1>6, <1>7, <1>8 DEF Agree, led2, r, book2

\* What every checkpoint that was signed says of a ledger.
Signed(led) ==
  \A k \in Keyholders : checkpoint[k] # Null =>
    /\ checkpoint[k].sequence \in 0..Len(led)
    /\ SubSeq(led, 1, checkpoint[k].sequence) = checkpoint[k].head
    /\ checkpoint[k].legacy = Cardinality(LegacyRows(led))

ChainTyped ==
  /\ custody \in [Artifacts -> Seq(AuditRow)]
  /\ security \in Seq(AuditRow)
  /\ ledger \in Seq(LedgerRow)
  /\ DOMAIN checkpoint = Keyholders

ChainInv ==
  /\ ChainTyped
  /\ Agree(Books(custody, security), ledger)
  /\ Signed(ledger)

LEMMA ChainInvImplies == ChainInv => ChainVerifies
<1> SUFFICES ASSUME ChainInv PROVE ChainVerifies
  OBVIOUS
<1>1. Verifies
  BY VerifiesMeans DEF ChainInv, ChainTyped
<1>2. Cardinality(LegacyRows(ledger)) = LegacyCount
  BY DEF LegacyRows, LegacyCount
<1>3. \A k \in Keyholders : checkpoint[k] # Null =>
        /\ checkpoint[k].sequence <= Len(ledger)
        /\ HashAt(checkpoint[k].sequence) = checkpoint[k].head
        /\ checkpoint[k].legacy = LegacyCount
  BY <1>2 DEF ChainInv, ChainTyped, Signed, HashAt
<1> QED BY <1>1, <1>3 DEF ChainVerifies, CheckpointVerifies

LEMMA BooksTyped ==
  ASSUME ChainTyped
  PROVE  Books(custody, security) \in [Tables -> Seq(AuditRow)]
BY DEF ChainTyped, Books, Tables

LEMMA ReceivedIsRow == Received \in AuditRow
BY DEF Received, Entry, AuditRow, Events

\* What install finds verifies: one row for each artifact, in Intake's order.
LEMMA ChainInitInv == ChainInit => ChainInv
<1> SUFFICES ASSUME ChainInit PROVE ChainInv
  OBVIOUS
<1> DEFINE book == Books(custody, security)
<1>1. /\ Len(Intake) \in Nat /\ DOMAIN Intake = 1..Len(Intake)
      /\ \A i \in DOMAIN Intake : Intake[i] \in Artifacts
      /\ \A x \in Artifacts : \E i \in DOMAIN Intake : Intake[i] = x
      /\ Null \notin Artifacts
  BY ChainAssumption
<1>2. \A i \in DOMAIN Intake :
        LET r == Chained(Intake[i], 1, Received, Intake[i] \in Unsigned)
        IN  r \in LedgerRow /\ r.source = Intake[i] /\ r.id = 1 /\ r.row = Received
  BY <1>1, ReceivedIsRow DEF Chained, LedgerRow, Tables
<1>3. /\ DOMAIN ledger = 1..Len(Intake)
      /\ \A i \in 1..Len(Intake) : /\ ledger[i] \in LedgerRow /\ ledger[i].source = Intake[i]
                                   /\ ledger[i].id = 1 /\ ledger[i].row = Received
  BY <1>1, <1>2, Zenon DEF ChainInit
<1>4. ledger \in Seq(LedgerRow)
  <2>1. ledger = [i \in 1..Len(Intake) |-> ledger[i]]
    BY <1>1, <1>3 DEF ChainInit
  <2> QED BY <1>1, <1>3, <2>1
<1>5. <<Received>> \in Seq(AuditRow) /\ Len(<<Received>>) = 1 /\ 1 \in DOMAIN <<Received>>
        /\ <<Received>>[1] = Received
  BY ReceivedIsRow
<1>6. ChainTyped
  BY <1>4, <1>5 DEF ChainInit, ChainTyped
<1>7. \A x \in Artifacts : x \in Tables /\ x # Null /\ book[x] = <<Received>>
  BY <1>1 DEF Books, Tables, ChainInit
<1>8. Null \in Tables /\ book[Null] = <<>>
  BY DEF Books, Tables, ChainInit
<1> HIDE DEF book
<1>9. \A n \in DOMAIN ledger : /\ ledger[n].id \in DOMAIN book[ledger[n].source]
                               /\ book[ledger[n].source][ledger[n].id] = ledger[n].row
  BY <1>1, <1>3, <1>5, <1>7
<1>10. ASSUME NEW t \in Tables PROVE Cardinality(RowsOf(ledger, t)) = Len(book[t])
  <2>1. CASE t \in Artifacts
    <3>1. PICK i \in DOMAIN Intake : Intake[i] = t
      BY <1>1, <2>1
    <3>2. RowsOf(ledger, t) = {i}
      BY <1>1, <1>3, <3>1, ChainAssumption DEF RowsOf
    <3> QED BY <1>5, <1>7, <2>1, <3>2, FS_Singleton
  <2>2. CASE t = Null
    <3>1. RowsOf(ledger, t) = {}
      BY <1>1, <1>3, <2>2 DEF RowsOf
    <3> QED BY <1>8, <2>2, <3>1, FS_EmptySet
  <2> QED BY <2>1, <2>2 DEF Tables
<1>11. Signed(ledger)
  BY DEF ChainInit, Signed
<1> QED BY <1>6, <1>9, <1>10, <1>11 DEF ChainInv, Agree, book

\* The ledger grows by its writers only, and keeps the rows it has.
LEMMA SignedStays ==
  ASSUME NEW led \in Seq(LedgerRow), NEW led2 \in Seq(LedgerRow), Signed(led),
         Len(led) <= Len(led2), LegacyRows(led2) = LegacyRows(led),
         \A n \in 0..Len(led) : SubSeq(led2, 1, n) = SubSeq(led, 1, n)
  PROVE  Signed(led2)
<1>1. Len(led) \in Nat /\ Len(led2) \in Nat
  OBVIOUS
<1> QED BY <1>1 DEF Signed

LEMMA LogSecurityInv ==
  ASSUME ChainInv, NEW e \in AuditRow, LogSecurity(e)
  PROVE  ChainInv'
<1> DEFINE book == Books(custody, security)
           led2 == Grown(book, ledger, Null, e)
           book2 == Booked(book, Null, e)
<1>1. Null \in Tables /\ book[Null] = security
  BY DEF Tables, Books
<1>2. UNCHANGED <<custody, checkpoint>> /\ security' = Append(security, e) /\ ledger' = led2
  BY <1>1 DEF LogSecurity, Grown
<1>3. book2 = Books(custody', security')
  <2>1. book2 = [t \in Tables |-> IF t = Null THEN Append(security, e) ELSE custody[t]]
    BY <1>1 DEF Books, Booked
  <2> QED BY <1>2, <2>1 DEF Books
<1>4. book \in [Tables -> Seq(AuditRow)] /\ ledger \in Seq(LedgerRow) /\ Agree(book, ledger)
  BY BooksTyped DEF ChainInv, ChainTyped
<1> HIDE DEF book
<1>5. /\ led2 \in Seq(LedgerRow) /\ Agree(book2, led2) /\ LegacyRows(led2) = LegacyRows(ledger)
      /\ Len(led2) = Len(ledger) + 1
      /\ \A n \in 0..Len(ledger) : SubSeq(led2, 1, n) = SubSeq(ledger, 1, n)
  BY <1>1, <1>4, OneRowChained
<1> HIDE DEF book2, led2
<1>6. Signed(led2)
  <2>1. Len(ledger) <= Len(led2)
    BY <1>4, <1>5
  <2> QED BY <1>4, <1>5, <2>1, SignedStays DEF ChainInv
<1>7. Signed(ledger)'
  BY <1>2, <1>6 DEF Signed
<1>8. ChainTyped'
  BY <1>2, <1>5 DEF ChainTyped, ChainInv
<1> QED BY <1>2, <1>3, <1>5, <1>7, <1>8 DEF ChainInv

LEMMA LogCustodyInv ==
  ASSUME ChainInv, NEW x \in Artifacts, NEW e \in AuditRow, LogCustody(x, e)
  PROVE  ChainInv'
<1> DEFINE book == Books(custody, security)
           led2 == Grown(book, ledger, x, e)
           book2 == Booked(book, x, e)
<1>0. x # Null /\ custody \in [Artifacts -> Seq(AuditRow)]
  BY ChainAssumption DEF ChainInv, ChainTyped
<1>1. x \in Tables /\ book[x] = custody[x]
  BY <1>0 DEF Tables, Books
<1>2. /\ UNCHANGED <<security, checkpoint>> /\ ledger' = led2
      /\ custody' = [custody EXCEPT ![x] = Append(@, e)]
  BY <1>1 DEF LogCustody, Grown
<1>3. book2 = Books(custody', security')
  <2>1. book2 = [t \in Tables |-> IF t = x THEN Append(custody[x], e)
                                  ELSE IF t = Null THEN security ELSE custody[t]]
    BY <1>1 DEF Books, Booked
  <2>2. Books(custody', security') = [t \in Tables |-> IF t = Null THEN security ELSE custody'[t]]
    BY <1>2 DEF Books
  <2>3. \A t \in Tables : t # Null => custody'[t] = IF t = x THEN Append(custody[x], e) ELSE custody[t]
    BY <1>0, <1>2 DEF Tables
  <2> HIDE DEF book2
  <2> QED BY <1>0, <2>1, <2>2, <2>3
<1>4. book \in [Tables -> Seq(AuditRow)] /\ ledger \in Seq(LedgerRow) /\ Agree(book, ledger)
  BY BooksTyped DEF ChainInv, ChainTyped
<1> HIDE DEF book
<1>5. /\ led2 \in Seq(LedgerRow) /\ Agree(book2, led2) /\ LegacyRows(led2) = LegacyRows(ledger)
      /\ Len(led2) = Len(ledger) + 1
      /\ \A n \in 0..Len(ledger) : SubSeq(led2, 1, n) = SubSeq(ledger, 1, n)
  BY <1>1, <1>4, OneRowChained
<1> HIDE DEF book2, led2
<1>6. Signed(led2)
  <2>1. Len(ledger) <= Len(led2)
    BY <1>4, <1>5
  <2> QED BY <1>4, <1>5, <2>1, SignedStays DEF ChainInv
<1>7. Signed(ledger)'
  BY <1>2, <1>6 DEF Signed
<1>8. ChainTyped'
  BY <1>0, <1>2, <1>5 DEF ChainTyped, ChainInv
<1> QED BY <1>2, <1>3, <1>5, <1>7, <1>8 DEF ChainInv

\* Two rows in one transaction are two rows one after the other.
LEMMA LogBothInv ==
  ASSUME ChainInv, NEW x \in Artifacts, NEW e \in AuditRow, NEW s \in AuditRow, LogBoth(x, e, s)
  PROVE  ChainInv'
<1> DEFINE book == Books(custody, security)
           r1 == Chained(x, Len(book[x]) + 1, e, FALSE)
           led1 == Grown(book, ledger, x, e)
           book1 == Booked(book, x, e)
           r2 == Chained(Null, Len(book1[Null]) + 1, s, FALSE)
           led2 == Grown(book1, led1, Null, s)
           book2 == Booked(book1, Null, s)
<1>0. /\ x # Null /\ custody \in [Artifacts -> Seq(AuditRow)]
      /\ security \in Seq(AuditRow) /\ ledger \in Seq(LedgerRow)
  BY ChainAssumption DEF ChainInv, ChainTyped
<1>1. x \in Tables /\ Null \in Tables /\ book[x] = custody[x] /\ book[Null] = security
        /\ book1[Null] = security
  BY <1>0 DEF Tables, Books, Booked
<1>2. /\ UNCHANGED checkpoint /\ security' = Append(security, s)
      /\ custody' = [custody EXCEPT ![x] = Append(@, e)]
      /\ ledger' = ledger \o <<r1, r2>>
  BY <1>1 DEF LogBoth
<1>3. book2 = Books(custody', security')
  <2>1. book2 = [t \in Tables |-> IF t = Null THEN Append(security, s)
                                  ELSE IF t = x THEN Append(custody[x], e) ELSE custody[t]]
    BY <1>0, <1>1 DEF Books, Booked
  <2>2. Books(custody', security') =
          [t \in Tables |-> IF t = Null THEN Append(security, s) ELSE custody'[t]]
    BY <1>2 DEF Books
  <2>3. \A t \in Tables : t # Null => custody'[t] = IF t = x THEN Append(custody[x], e) ELSE custody[t]
    BY <1>0, <1>2 DEF Tables
  <2> HIDE DEF book2
  <2> QED BY <1>0, <2>1, <2>2, <2>3
<1>4. book \in [Tables -> Seq(AuditRow)] /\ Agree(book, ledger)
  BY BooksTyped DEF ChainInv
<1> HIDE DEF book
<1>5. /\ book1 \in [Tables -> Seq(AuditRow)]
      /\ led1 \in Seq(LedgerRow) /\ Agree(book1, led1) /\ LegacyRows(led1) = LegacyRows(ledger)
      /\ Len(led1) = Len(ledger) + 1
      /\ \A n \in 0..Len(ledger) : SubSeq(led1, 1, n) = SubSeq(ledger, 1, n)
  BY <1>0, <1>1, <1>4, OneRowChained, SMTT(30)
<1>6. r1 \in LedgerRow /\ r2 \in LedgerRow
  <2>1. Len(book[x]) \in Nat /\ Len(book1[Null]) \in Nat
    BY <1>0, <1>1
  <2> HIDE DEF book1
  <2> QED BY <1>1, <2>1 DEF Chained, LedgerRow
<1> HIDE DEF book1, r1
<1>7. ledger' = led2
  <2> HIDE DEF r2
  <2>1. led2 = Append(Append(ledger, r1), r2)
    BY DEF Grown, r1, r2
  <2> QED BY <1>0, <1>2, <1>6, <2>1
<1> HIDE DEF led1
<1>8. /\ led2 \in Seq(LedgerRow) /\ Agree(book2, led2) /\ LegacyRows(led2) = LegacyRows(led1)
      /\ Len(led2) = Len(led1) + 1
      /\ \A n \in 0..Len(led1) : SubSeq(led2, 1, n) = SubSeq(led1, 1, n)
  BY <1>1, <1>5, OneRowChained
<1> HIDE DEF book2, led2, r2
<1>9. Signed(led2)
  <2>1. Len(ledger) <= Len(led1) /\ Len(led1) <= Len(led2)
    BY <1>0, <1>5, <1>8
  <2>2. Signed(led1)
    BY <1>0, <1>5, <2>1, SignedStays DEF ChainInv
  <2> QED BY <1>5, <1>8, <2>1, <2>2, SignedStays
<1>10. Signed(ledger)'
  BY <1>2, <1>7, <1>9 DEF Signed
<1>11. ChainTyped'
  BY <1>0, <1>2, <1>7, <1>8 DEF ChainTyped, ChainInv
<1> QED BY <1>3, <1>7, <1>8, <1>10, <1>11 DEF ChainInv

LEMMA SignCheckpointInv ==
  ASSUME ChainInv, NEW k \in Keyholders, SignCheckpoint(k)
  PROVE  ChainInv'
<1> DEFINE doc == [sequence |-> Len(ledger), head |-> HashAt(Len(ledger)), legacy |-> LegacyCount]
<1>1. /\ UNCHANGED <<custody, security, ledger>> /\ DOMAIN checkpoint' = Keyholders
      /\ checkpoint'[k] = doc /\ \A j \in Keyholders : j # k => checkpoint'[j] = checkpoint[j]
  BY DEF SignCheckpoint, ChainInv, ChainTyped
<1>2. /\ doc.sequence \in 0..Len(ledger)
      /\ SubSeq(ledger, 1, doc.sequence) = doc.head
      /\ doc.legacy = Cardinality(LegacyRows(ledger))
  BY DEF HashAt, LegacyCount, LegacyRows, ChainInv, ChainTyped
<1> HIDE DEF doc
<1>3. Signed(ledger)'
  BY <1>1, <1>2 DEF Signed, ChainInv
<1> QED BY <1>1, <1>3 DEF ChainInv, ChainTyped

LEMMA ChainIdle == ChainInv /\ UNCHANGED chainVars => ChainInv'
BY DEF ChainInv, ChainTyped, Signed, chainVars

----------------------------------------------------------------------------
(* What the ledger tells of access.                                        *)

Enrolled(led, a, n) ==
  led[n].row.event = "artifact_access_identity_enrolled" /\ led[n].row.about[1] = a

\* At m, a's last enrollment was with a role that manages access.
Admin(led, a, m) ==
  \E j \in 1..(m - 1) :
    /\ Enrolled(led, a, j) /\ "manage" \in Permissions[led[j].row.about[2]]
    /\ \A k \in (j + 1)..(m - 1) : ~Enrolled(led, a, k)

\* Row m gives a, for case c, a grant that nothing before row n voids.
GrantedAt(led, a, c, m, n) ==
  /\ led[m].row.event = "artifact_access_granted" /\ led[m].row.about = <<a, c>>
  /\ Admin(led, led[m].row.actor, m)
  /\ \A k \in (m + 1)..(n - 1) :
       /\ ~Enrolled(led, a, k)
       /\ led[k].row.event = "artifact_access_revoked" => led[k].row.grant # led[m].row.grant

Justified(led, n) ==
  led[n].row.event \in Delivered =>
    /\ \E m \in 1..(n - 1) : GrantedAt(led, led[n].row.actor, CaseOf[led[n].row.about], m, n)
    /\ led[n].row.event # "artifact_context_viewed" =>
         \A k \in 1..(n - 1) :
           led[k].row.event = "artifact_key_compromised" => led[k].row.about # led[n].row.about

LEMMA DeliveriesMean == DeliveriesAreJustified <=> \A n \in DOMAIN ledger : Justified(ledger, n)
<1>1. Kinds \cup {"artifact_viewed"} = Delivered
  BY DEF Kinds, Delivered
<1> QED BY <1>1, Zenon DEF DeliveriesAreJustified, Justified, GrantedAt, Admin, Enrolled

\* Two ledgers with the same first N rows tell the same of them.
Same(led, led2, N) == \A n \in 1..N : led2[n] = led[n]

LEMMA SameAdmin ==
  ASSUME NEW N \in Nat, NEW led, NEW led2, Same(led, led2, N), NEW a, NEW m \in 1..(N + 1),
         Admin(led, a, m)
  PROVE  Admin(led2, a, m)
<1>1. PICK j \in 1..(m - 1) :
        /\ Enrolled(led, a, j) /\ "manage" \in Permissions[led[j].row.about[2]]
        /\ \A k \in (j + 1)..(m - 1) : ~Enrolled(led, a, k)
  BY DEF Admin
<1>2. \A k \in 1..(m - 1) : led2[k] = led[k]
  BY DEF Same
<1>3. Enrolled(led2, a, j) /\ "manage" \in Permissions[led2[j].row.about[2]]
  BY <1>1, <1>2 DEF Enrolled
<1>4. \A k \in (j + 1)..(m - 1) : ~Enrolled(led2, a, k)
  <2>1. \A k \in (j + 1)..(m - 1) : led2[k] = led[k]
    BY <1>2
  <2> QED BY <1>1, <2>1 DEF Enrolled
<1> QED BY <1>3, <1>4 DEF Admin

LEMMA SameGranted ==
  ASSUME NEW N \in Nat, NEW led, NEW led2, Same(led, led2, N), NEW a, NEW c,
         NEW n \in 1..(N + 1), NEW m \in 1..(n - 1), GrantedAt(led, a, c, m, n)
  PROVE  GrantedAt(led2, a, c, m, n)
<1>1. led2[m] = led[m] /\ \A k \in (m + 1)..(n - 1) : led2[k] = led[k]
  BY DEF Same
<1>2. Admin(led2, led2[m].row.actor, m)
  <2>1. m \in 1..(N + 1) /\ Admin(led, led2[m].row.actor, m)
    BY <1>1 DEF GrantedAt
  <2> QED BY <2>1, SameAdmin
<1> QED BY <1>1, <1>2 DEF GrantedAt, Enrolled

LEMMA SameJustified ==
  ASSUME NEW N \in Nat, NEW led, NEW led2, Same(led, led2, N), NEW n \in 1..N, Justified(led, n)
  PROVE  Justified(led2, n)
<1>1. led2[n] = led[n] /\ \A k \in 1..(n - 1) : led2[k] = led[k]
  BY DEF Same
<1>2. ASSUME NEW m \in 1..(n - 1),
             GrantedAt(led, led[n].row.actor, CaseOf[led[n].row.about], m, n)
      PROVE  GrantedAt(led2, led2[n].row.actor, CaseOf[led2[n].row.about], m, n)
  <2>1. n \in 1..(N + 1) /\ GrantedAt(led, led2[n].row.actor, CaseOf[led2[n].row.about], m, n)
    BY <1>1, <1>2
  <2> QED BY <2>1, SameGranted
<1> QED BY <1>1, <1>2 DEF Justified

----------------------------------------------------------------------------
(* The state read back from the ledger.                                    *)

\* The grant g is held by the credential its analyst has now.
Held(g) ==
  /\ grant[g] # Null /\ ~grant[g].revoked
  /\ credential[grant[g].analyst] # Null
  /\ grant[g].token = credential[grant[g].analyst].token

\* The credential of an analyst is the last one the ledger enrolled.
CredentialOnFile(led, a) ==
  \E j \in 1..Len(led) :
    /\ Enrolled(led, a, j) /\ led[j].row.about[2] = credential[a].role
    /\ \A k \in (j + 1)..Len(led) : ~Enrolled(led, a, k)

\* A grant that is held stands in the ledger and nothing voids it since.
GrantOnFile(led, g) ==
  \E m \in 1..Len(led) :
    /\ led[m].row.grant = g
    /\ GrantedAt(led, grant[g].analyst, grant[g].case, m, Len(led) + 1)

AccessInv ==
  /\ TypeOK
  /\ ledger \in Seq(LedgerRow)
  /\ \A g \in Grants : grant[g] # Null => grant[g].token <= issued
  /\ \A a \in Analysts : credential[a] # Null =>
       credential[a].token <= issued /\ CredentialOnFile(ledger, a)
  /\ \A g \in Grants : Held(g) => GrantOnFile(ledger, g)
  /\ \A k \in 1..Len(ledger) :
       ledger[k].row.event = "artifact_key_compromised" => ledger[k].row.about \in compromised
  /\ \A n \in 1..Len(ledger) : Justified(ledger, n)

\* Holding a permission to manage shows in the ledger.
LEMMA ManagerIsAdmin ==
  ASSUME AccessInv, NEW a \in Analysts, Holds(a, "manage")
  PROVE  Admin(ledger, a, Len(ledger) + 1)
<1>1. CredentialOnFile(ledger, a) /\ "manage" \in Permissions[credential[a].role]
  BY DEF AccessInv, Holds
<1>2. Len(ledger) \in Nat
  BY DEF AccessInv
<1>3. Len(ledger) + 1 - 1 = Len(ledger)
  BY <1>2
<1> QED BY <1>1, <1>3 DEF CredentialOnFile, Admin

\* What is on file stays there when the new rows neither enroll the analyst
\* nor revoke the grant.
LEMMA CredentialStaysOnFile ==
  ASSUME NEW led \in Seq(LedgerRow), NEW led2 \in Seq(LedgerRow),
         Len(led) <= Len(led2), Same(led, led2, Len(led)), NEW a, CredentialOnFile(led, a),
         \A k \in (Len(led) + 1)..Len(led2) : ~Enrolled(led2, a, k)
  PROVE  CredentialOnFile(led2, a)
<1>0. Len(led) \in Nat /\ Len(led2) \in Nat
  OBVIOUS
<1>1. PICK j \in 1..Len(led) :
        /\ Enrolled(led, a, j) /\ led[j].row.about[2] = credential[a].role
        /\ \A k \in (j + 1)..Len(led) : ~Enrolled(led, a, k)
  BY DEF CredentialOnFile
<1>2. led2[j] = led[j] /\ \A k \in (j + 1)..Len(led) : led2[k] = led[k]
  BY <1>0 DEF Same
<1>3. \A k \in (j + 1)..Len(led2) : ~Enrolled(led2, a, k)
  <2>1. \A k \in (j + 1)..Len(led) : ~Enrolled(led2, a, k)
    BY <1>1, <1>2 DEF Enrolled
  <2> QED BY <1>0, <2>1
<1>4. Enrolled(led2, a, j) /\ led2[j].row.about[2] = credential[a].role /\ j \in 1..Len(led2)
  BY <1>0, <1>1, <1>2 DEF Enrolled
<1> QED BY <1>3, <1>4 DEF CredentialOnFile

LEMMA GrantStaysOnFile ==
  ASSUME NEW led \in Seq(LedgerRow), NEW led2 \in Seq(LedgerRow),
         Len(led) <= Len(led2), Same(led, led2, Len(led)), NEW g, GrantOnFile(led, g),
         \A k \in (Len(led) + 1)..Len(led2) :
            /\ ~Enrolled(led2, grant[g].analyst, k)
            /\ led2[k].row.event = "artifact_access_revoked" => led2[k].row.grant # g
  PROVE  GrantOnFile(led2, g)
<1>0. Len(led) \in Nat /\ Len(led2) \in Nat
  OBVIOUS
<1> DEFINE a == grant[g].analyst
           c == grant[g].case
<1>1. PICK m \in 1..Len(led) : led[m].row.grant = g /\ GrantedAt(led, a, c, m, Len(led) + 1)
  BY DEF GrantOnFile
<1>2. m \in 1..(Len(led) + 1 - 1) /\ Len(led) + 1 \in 1..(Len(led) + 1)
  BY <1>0
<1>3. led2[m] = led[m]
  BY <1>0 DEF Same
<1> HIDE DEF a, c
<1>4. GrantedAt(led2, a, c, m, Len(led) + 1)
  BY <1>0, <1>1, <1>2, SameGranted
<1>5. \A k \in (m + 1)..(Len(led2) + 1 - 1) :
        k \in (m + 1)..(Len(led) + 1 - 1) \/ k \in (Len(led) + 1)..Len(led2)
  BY <1>0
<1>6. GrantedAt(led2, a, c, m, Len(led2) + 1)
  BY <1>1, <1>3, <1>4, <1>5 DEF GrantedAt, a
<1> QED BY <1>0, <1>1, <1>3, <1>6 DEF GrantOnFile, a, c

----------------------------------------------------------------------------
(* One effect per request.                                                 *)

Matches(row, E, a, q) == row.event \in E /\ row.actor = a /\ row.request = q

RowsFor(led, E, a, q) == {n \in DOMAIN led : Matches(led[n].row, E, a, q)}

Acknowledged(a, q) == {t \in Tokens : receipt[<<a, t, q>>] # Null}

EffectInv ==
  /\ \A a \in Analysts, q \in Requests :
       /\ Cardinality(RowsFor(ledger, Changes, a, q)) = (IF op[<<a, q>>] = Null THEN 0 ELSE 1)
       /\ Cardinality(RowsFor(ledger, {"artifact_viewed"}, a, q)) = Cardinality(Acknowledged(a, q))
       /\ op[<<a, q>>] # Null /\ op[<<a, q>>].payload \in Grants =>
            grant[op[<<a, q>>].payload] # Null /\ grant[op[<<a, q>>].payload].revoked
  /\ \A g, h \in Grants :
       /\ Held(g) /\ Held(h)
       /\ grant[g].analyst = grant[h].analyst /\ grant[g].case = grant[h].case
       => g = h

LEMMA LiveMeans ==
  ASSUME NEW a, NEW c
  PROVE  LiveFor(a, c) = {g \in Grants : Held(g) /\ grant[g].analyst = a /\ grant[g].case = c}
BY DEF LiveFor, Held

LEMMA EffectInvImplies == TypeOK /\ EffectInv => OneEffectPerRequest
<1> SUFFICES ASSUME TypeOK, EffectInv PROVE OneEffectPerRequest
  OBVIOUS
<1> DEFINE rows(E, a, q) ==
             {n \in DOMAIN ledger : /\ ledger[n].row.event \in E
                                    /\ ledger[n].row.actor = a /\ ledger[n].row.request = q}
<1>1. \A E, a, q : rows(E, a, q) = RowsFor(ledger, E, a, q)
  BY DEF RowsFor, Matches
<1>2. ASSUME NEW a \in Analysts, NEW q \in Requests
      PROVE  /\ Cardinality(rows({"artifact_access_granted", "artifact_access_revoked"}, a, q))
                  = (IF op[a, q] = Null THEN 0 ELSE 1)
             /\ op[a, q] # Null /\ op[a, q].payload \in Grants => grant[op[a, q].payload].revoked
             /\ Cardinality(rows({"artifact_viewed"}, a, q))
                  = Cardinality({t \in Tokens : receipt[a, t, q] # Null})
  <2> HIDE DEF rows
  <2>1. Cardinality(rows(Changes, a, q)) = (IF op[<<a, q>>] = Null THEN 0 ELSE 1)
    BY <1>1 DEF EffectInv
  <2>2. Cardinality(rows({"artifact_viewed"}, a, q)) = Cardinality(Acknowledged(a, q))
    BY <1>1 DEF EffectInv
  <2>3. op[<<a, q>>] # Null /\ op[<<a, q>>].payload \in Grants =>
          grant[op[<<a, q>>].payload].revoked
    BY DEF EffectInv
  <2> QED BY <2>1, <2>2, <2>3 DEF Changes, Acknowledged
<1>3. ASSUME NEW a \in Analysts, NEW c \in Cases PROVE Cardinality(LiveFor(a, c)) <= 1
  <2>1. \A g, h \in LiveFor(a, c) : g = h
    BY LiveMeans DEF EffectInv
  <2>2. CASE LiveFor(a, c) = {}
    BY <2>2, FS_EmptySet
  <2>3. CASE LiveFor(a, c) # {}
    <3>1. PICK g \in LiveFor(a, c) : TRUE
      BY <2>3
    <3>2. LiveFor(a, c) = {g}
      BY <2>1, <3>1
    <3>3. Cardinality(LiveFor(a, c)) = 1
      BY <3>2, FS_Singleton
    <3> QED BY <3>3
  <2> QED BY <2>2, <2>3
<1> QED BY <1>2, <1>3, Zenon DEF OneEffectPerRequest

\* Rows that are not about a request change nothing of what is told of it.
LEMMA RowsSame ==
  ASSUME NEW led \in Seq(LedgerRow), NEW led2 \in Seq(LedgerRow),
         Len(led) <= Len(led2), Same(led, led2, Len(led)), NEW E, NEW a, NEW q,
         \A k \in (Len(led) + 1)..Len(led2) : ~Matches(led2[k].row, E, a, q)
  PROVE  RowsFor(led2, E, a, q) = RowsFor(led, E, a, q)
<1>1. /\ Len(led) \in Nat /\ Len(led2) \in Nat
      /\ DOMAIN led = 1..Len(led) /\ DOMAIN led2 = 1..Len(led2)
  OBVIOUS
<1>2. \A n \in DOMAIN led2 : n \in DOMAIN led \/ n \in (Len(led) + 1)..Len(led2)
  BY <1>1
<1>3. DOMAIN led \subseteq DOMAIN led2
  BY <1>1
<1>4. \A n \in DOMAIN led : led2[n] = led[n]
  BY <1>1 DEF Same
<1> QED BY <1>2, <1>3, <1>4 DEF RowsFor

LEMMA RowsMore ==
  ASSUME NEW led \in Seq(LedgerRow), NEW led2 \in Seq(LedgerRow),
         Len(led2) = Len(led) + 1, Same(led, led2, Len(led)), NEW E, NEW a, NEW q,
         Matches(led2[Len(led) + 1].row, E, a, q)
  PROVE  Cardinality(RowsFor(led2, E, a, q)) = Cardinality(RowsFor(led, E, a, q)) + 1
<1>1. /\ Len(led) \in Nat /\ DOMAIN led = 1..Len(led)
      /\ DOMAIN led2 = DOMAIN led \cup {Len(led) + 1}
      /\ Len(led) + 1 \notin DOMAIN led
  OBVIOUS
<1>2. RowsFor(led2, E, a, q) = RowsFor(led, E, a, q) \cup {Len(led) + 1}
  <2>1. \A n \in DOMAIN led : led2[n] = led[n]
    BY <1>1 DEF Same
  <2> QED BY <1>1, <2>1 DEF RowsFor
<1>3. RowsFor(led, E, a, q) \in SUBSET (DOMAIN led)
  BY DEF RowsFor
<1>4. IsFiniteSet(RowsFor(led, E, a, q)) /\ Len(led) + 1 \notin RowsFor(led, E, a, q)
  BY <1>1, <1>3, FinitelyMany
<1> QED BY <1>2, <1>4, FS_AddElement

----------------------------------------------------------------------------
(* One step.                                                               *)

Inv == ChainInv /\ AccessInv /\ EffectInv

LEMMA EntryTyped ==
  ASSUME NEW event \in Events, NEW actor \in Analysts \cup {Null},
         NEW about \in (Analysts \X Roles) \cup (Analysts \X Cases) \cup Grants
                         \cup Artifacts \cup {Null},
         NEW g \in Grants \cup {Null}, NEW q \in Requests \cup {Null}
  PROVE  LET e == Entry(event, actor, about, g, q)
         IN  /\ e \in AuditRow
             /\ e.event = event /\ e.actor = actor /\ e.about = about
             /\ e.grant = g /\ e.request = q
BY DEF Entry, AuditRow

\* The ledger grew by the row of e.
Grew(e) ==
  /\ ledger' \in Seq(LedgerRow)
  /\ Len(ledger') = Len(ledger) + 1
  /\ Same(ledger, ledger', Len(ledger))
  /\ ledger'[Len(ledger) + 1].row = e

LEMMA SecurityGrew ==
  ASSUME ChainInv, NEW e \in AuditRow, LogSecurity(e)
  PROVE  ChainInv' /\ Grew(e)
<1> DEFINE r == Chained(Null, Len(security) + 1, e, FALSE)
<1>1. r \in LedgerRow /\ r.row = e
  BY DEF Chained, LedgerRow, Tables, ChainInv, ChainTyped
<1>2. ledger \in Seq(LedgerRow) /\ ledger' = Append(ledger, r)
  BY DEF ChainInv, ChainTyped, LogSecurity
<1> HIDE DEF r
<1>3. Grew(e)
  <2>1. DOMAIN ledger = 1..Len(ledger)
    BY <1>2
  <2> QED BY <1>1, <1>2, <2>1, OneMore DEF Grew, Same
<1> QED BY <1>3, LogSecurityInv

LEMMA CustodyGrew ==
  ASSUME ChainInv, NEW x \in Artifacts, NEW e \in AuditRow, LogCustody(x, e)
  PROVE  ChainInv' /\ Grew(e)
<1> DEFINE r == Chained(x, Len(custody[x]) + 1, e, FALSE)
<1>1. r \in LedgerRow /\ r.row = e
  <2>1. Len(custody[x]) \in Nat
    BY DEF ChainInv, ChainTyped
  <2> QED BY <2>1 DEF Chained, LedgerRow, Tables
<1>2. ledger \in Seq(LedgerRow) /\ ledger' = Append(ledger, r)
  BY DEF ChainInv, ChainTyped, LogCustody
<1> HIDE DEF r
<1>3. Grew(e)
  <2>1. DOMAIN ledger = 1..Len(ledger)
    BY <1>2
  <2> QED BY <1>1, <1>2, <2>1, OneMore DEF Grew, Same
<1> QED BY <1>3, LogCustodyInv

LEMMA BothGrew ==
  ASSUME ChainInv, NEW x \in Artifacts, NEW e \in AuditRow, NEW s \in AuditRow, LogBoth(x, e, s)
  PROVE  /\ ChainInv' /\ ledger' \in Seq(LedgerRow)
         /\ Len(ledger') = Len(ledger) + 2 /\ Same(ledger, ledger', Len(ledger))
         /\ ledger'[Len(ledger) + 1].row = e /\ ledger'[Len(ledger) + 2].row = s
<1> DEFINE r1 == Chained(x, Len(custody[x]) + 1, e, FALSE)
           r2 == Chained(Null, Len(security) + 1, s, FALSE)
<1>1. r1 \in LedgerRow /\ r1.row = e /\ r2 \in LedgerRow /\ r2.row = s
  <2>1. Len(custody[x]) \in Nat /\ Len(security) \in Nat
    BY DEF ChainInv, ChainTyped
  <2> QED BY <2>1 DEF Chained, LedgerRow, Tables
<1>2. ledger \in Seq(LedgerRow) /\ ledger' = ledger \o <<r1, r2>>
  BY DEF ChainInv, ChainTyped, LogBoth
<1> HIDE DEF r1, r2
<1>3. /\ ledger' \in Seq(LedgerRow) /\ Len(ledger') = Len(ledger) + 2
      /\ \A n \in 1..Len(ledger) : ledger'[n] = ledger[n]
      /\ ledger'[Len(ledger) + 1] = r1 /\ ledger'[Len(ledger) + 2] = r2
  BY <1>1, <1>2
<1> QED BY <1>1, <1>3, LogBothInv DEF Same

\* The ledger grew, and each new row is justified and known if it is about a
\* compromised key: then all rows are.
LEMMA RowsStayJustified ==
  ASSUME AccessInv, ledger' \in Seq(LedgerRow), Len(ledger) <= Len(ledger'),
         Same(ledger, ledger', Len(ledger)), compromised \subseteq compromised',
         \A k \in (Len(ledger) + 1)..Len(ledger') :
            /\ ledger'[k].row.event = "artifact_key_compromised" =>
                 ledger'[k].row.about \in compromised'
            /\ Justified(ledger', k)
  PROVE  /\ \A k \in 1..Len(ledger') : ledger'[k].row.event = "artifact_key_compromised" =>
                                         ledger'[k].row.about \in compromised'
         /\ \A k \in 1..Len(ledger') : Justified(ledger', k)
<1>1. Len(ledger) \in Nat /\ Len(ledger') \in Nat
  BY DEF AccessInv
<1>2. ASSUME NEW k \in 1..Len(ledger)
      PROVE  /\ ledger'[k].row.event = "artifact_key_compromised" =>
                  ledger'[k].row.about \in compromised'
             /\ Justified(ledger', k)
  <2>1. ledger'[k] = ledger[k] /\ Justified(ledger, k)
    BY DEF Same, AccessInv
  <2>2. Justified(ledger', k)
    BY <1>1, <2>1, SameJustified
  <2> QED BY <2>1, <2>2 DEF AccessInv
<1>3. \A k \in 1..Len(ledger') : k \in 1..Len(ledger) \/ k \in (Len(ledger) + 1)..Len(ledger')
  BY <1>1
<1> QED BY <1>2, <1>3

\* Steps that neither enroll, grant nor revoke.
LEMMA KeptAccess ==
  ASSUME AccessInv, TypeOK', UNCHANGED <<issued, credential, grant>>,
         ledger' \in Seq(LedgerRow), Len(ledger) <= Len(ledger'),
         Same(ledger, ledger', Len(ledger)), compromised \subseteq compromised',
         \A k \in (Len(ledger) + 1)..Len(ledger') :
            /\ ledger'[k].row.event = "artifact_key_compromised" =>
                 ledger'[k].row.about \in compromised'
            /\ Justified(ledger', k)
            /\ ledger'[k].row.event \notin {"artifact_access_identity_enrolled",
                                            "artifact_access_revoked"}
  PROVE  AccessInv'
<1>1. \A k \in (Len(ledger) + 1)..Len(ledger') :
        /\ \A a : ~Enrolled(ledger', a, k)
        /\ ledger'[k].row.event # "artifact_access_revoked"
  BY DEF Enrolled
<1>2. ASSUME NEW a \in Analysts, credential[a] # Null PROVE CredentialOnFile(ledger, a)'
  <2>1. CredentialOnFile(ledger', a)
    BY <1>1, <1>2, CredentialStaysOnFile DEF AccessInv
  <2> QED BY <2>1 DEF CredentialOnFile
<1>3. ASSUME NEW g \in Grants, Held(g)' PROVE GrantOnFile(ledger, g)'
  <2>1. Held(g)
    BY <1>3 DEF Held
  <2>2. GrantOnFile(ledger', g)
    BY <1>1, <2>1, GrantStaysOnFile DEF AccessInv
  <2> QED BY <2>2 DEF GrantOnFile
<1>4. /\ \A k \in 1..Len(ledger') : ledger'[k].row.event = "artifact_key_compromised" =>
                                      ledger'[k].row.about \in compromised'
      /\ \A k \in 1..Len(ledger') : Justified(ledger', k)
  BY RowsStayJustified
<1>5. /\ \A g \in Grants : grant'[g] # Null => grant'[g].token <= issued'
      /\ \A a \in Analysts : credential'[a] # Null => credential'[a].token <= issued'
  BY DEF AccessInv
<1>6. \A n \in 1..Len(ledger') : Justified(ledger, n)'
  BY <1>4 DEF Justified, GrantedAt, Admin, Enrolled
<1> QED BY <1>2, <1>3, <1>4, <1>5, <1>6 DEF AccessInv

\* Steps that leave operations and receipts alone and log neither.
LEMMA KeptEffects ==
  ASSUME Inv, UNCHANGED <<op, receipt>>, ledger' \in Seq(LedgerRow), Len(ledger) <= Len(ledger'),
         Same(ledger, ledger', Len(ledger)),
         \A k \in (Len(ledger) + 1)..Len(ledger') :
            ledger'[k].row.event \notin Changes \cup {"artifact_viewed"},
         UNCHANGED <<credential, grant>>
  PROVE  EffectInv'
<1>1. ledger \in Seq(LedgerRow)
  BY DEF Inv, AccessInv
<1>2. ASSUME NEW a, NEW q
      PROVE  /\ RowsFor(ledger', Changes, a, q) = RowsFor(ledger, Changes, a, q)
             /\ RowsFor(ledger', {"artifact_viewed"}, a, q) = RowsFor(ledger, {"artifact_viewed"}, a, q)
  <2>1. \A k \in (Len(ledger) + 1)..Len(ledger') :
          /\ ~Matches(ledger'[k].row, Changes, a, q)
          /\ ~Matches(ledger'[k].row, {"artifact_viewed"}, a, q)
    BY DEF Matches
  <2> QED BY <1>1, <2>1, RowsSame
<1>3. \A a, q : Acknowledged(a, q)' = Acknowledged(a, q)
  BY DEF Acknowledged
<1>4. ASSUME NEW a \in Analysts, NEW q \in Requests
      PROVE  /\ Cardinality(RowsFor(ledger, Changes, a, q)') = (IF op'[<<a, q>>] = Null THEN 0 ELSE 1)
             /\ Cardinality(RowsFor(ledger, {"artifact_viewed"}, a, q)')
                  = Cardinality(Acknowledged(a, q)')
             /\ op'[<<a, q>>] # Null /\ op'[<<a, q>>].payload \in Grants =>
                  grant'[op'[<<a, q>>].payload] # Null /\ grant'[op'[<<a, q>>].payload].revoked
  <2>1. \A E : RowsFor(ledger, E, a, q)' = RowsFor(ledger', E, a, q)
    BY DEF RowsFor
  <2> QED BY <1>2, <1>3, <2>1 DEF Inv, EffectInv
<1>5. \A g, h \in Grants :
        /\ Held(g)' /\ Held(h)'
        /\ grant'[g].analyst = grant'[h].analyst /\ grant'[g].case = grant'[h].case
        => g = h
  BY DEF Inv, EffectInv, Held
<1> QED BY <1>4, <1>5, Zenon DEF EffectInv

\* Steps that log rows of no delivery, enrollment, change or compromise, and
\* change nothing else.
LEMMA DullStep ==
  ASSUME Inv, ChainInv', UNCHANGED <<issued, credential, grant, op, receipt, compromised>>,
         damaged' \subseteq Artifacts,
         ledger' \in Seq(LedgerRow), Len(ledger) <= Len(ledger'),
         Same(ledger, ledger', Len(ledger)),
         \A k \in (Len(ledger) + 1)..Len(ledger') : ledger'[k].row.event \in Refusals
  PROVE  Inv'
<1>1. TypeOK'
  BY DEF Inv, AccessInv, TypeOK
<1>2. \A k \in (Len(ledger) + 1)..Len(ledger') :
        ledger'[k].row.event \notin Delivered \cup Changes \cup
          {"artifact_access_identity_enrolled", "artifact_key_compromised"}
  BY DEF Refusals, Delivered, Changes
<1>3. AccessInv'
  <2>1. \A k \in (Len(ledger) + 1)..Len(ledger') : Justified(ledger', k)
    BY <1>2 DEF Justified
  <2>2. \A k \in (Len(ledger) + 1)..Len(ledger') :
          ledger'[k].row.event \notin {"artifact_access_identity_enrolled",
                                       "artifact_access_revoked", "artifact_key_compromised"}
    BY <1>2 DEF Changes
  <2> QED BY <1>1, <2>1, <2>2, KeptAccess DEF Inv
<1>4. EffectInv'
  <2>1. \A k \in (Len(ledger) + 1)..Len(ledger') :
          ledger'[k].row.event \notin Changes \cup {"artifact_viewed"}
    BY <1>2 DEF Delivered
  <2> QED BY <2>1, KeptEffects
<1> QED BY <1>3, <1>4 DEF Inv

\* Nothing new in the ledger.
LEMMA SilentStep ==
  ASSUME Inv, ChainInv', UNCHANGED <<ledger, issued, credential, grant, op, receipt, compromised>>,
         damaged' \subseteq Artifacts
  PROVE  Inv'
<1>1. ledger \in Seq(LedgerRow) /\ Len(ledger) \in Nat
  BY DEF Inv, AccessInv
<1>2. /\ ledger' \in Seq(LedgerRow) /\ Len(ledger) <= Len(ledger')
      /\ Same(ledger, ledger', Len(ledger))
      /\ \A k \in (Len(ledger) + 1)..Len(ledger') : FALSE
  BY <1>1 DEF Same
<1> QED BY <1>2, DullStep

LEMMA RefuseChangeInv ==
  ASSUME Inv, NEW actor \in Analysts, NEW q \in Requests, RefuseChange(actor, q)
  PROVE  Inv'
<1> DEFINE e == Entry("artifact_access_refused", actor, Null, Null, q)
<1>1. e \in AuditRow /\ e.event \in Refusals
  BY EntryTyped DEF Events, Refusals
<1>2. LogSecurity(e) /\ UNCHANGED accessVars
  BY DEF RefuseChange
<1> HIDE DEF e
<1>3. ChainInv' /\ Grew(e) /\ ledger \in Seq(LedgerRow)
  BY <1>1, <1>2, SecurityGrew DEF Inv, AccessInv
<1>4. /\ Len(ledger) <= Len(ledger')
      /\ \A k \in (Len(ledger) + 1)..Len(ledger') : ledger'[k].row.event \in Refusals
  BY <1>1, <1>3 DEF Grew
<1>5. damaged' \subseteq Artifacts
  BY <1>2 DEF accessVars, Inv, AccessInv, TypeOK
<1> QED BY <1>2, <1>3, <1>4, <1>5, DullStep DEF accessVars, Grew

LEMMA RefuseReadInv ==
  ASSUME Inv, NEW a \in Analysts, NEW x \in Artifacts, NEW kind \in Kinds, RefuseRead(a, x, kind)
  PROVE  Inv'
<1> DEFINE denied == Entry("artifact_access_denied", a, x, Null, Null)
           blocked == Entry(Blocked(x, kind), a, x, Null, Null)
<1>1. denied \in AuditRow /\ denied.event \in Refusals
  <2>1. "artifact_access_denied" \in Events /\ "artifact_access_denied" \in Refusals
    BY DEF Events, Refusals
  <2> QED BY <2>1, EntryTyped
<1>2. Blocked(x, kind) # Null => blocked \in AuditRow /\ blocked.event \in Refusals
  <2>1. Blocked(x, kind) # Null => Blocked(x, kind) \in Refusals
    BY DEF Blocked, Refusals
  <2>2. Refusals \subseteq Events
    BY DEF Events
  <2> QED BY <2>1, <2>2, EntryTyped
<1>3. UNCHANGED accessVars
  BY DEF RefuseRead
<1>4. damaged' \subseteq Artifacts
  BY <1>3 DEF accessVars, Inv, AccessInv, TypeOK
<1>5. \/ LogSecurity(denied)
      \/ Blocked(x, kind) # Null /\ LogBoth(x, blocked, denied)
      \/ Blocked(x, kind) # Null /\ LogCustody(x, blocked)
  BY NullAssumption DEF RefuseRead, Refusals
<1> HIDE DEF denied, blocked
<1>6. ASSUME NEW e \in {denied, blocked}, e \in AuditRow, e.event \in Refusals,
             LogSecurity(e) \/ LogCustody(x, e)
      PROVE  Inv'
  <2>1. ChainInv' /\ Grew(e) /\ ledger \in Seq(LedgerRow)
    BY <1>6, SecurityGrew, CustodyGrew DEF Inv, AccessInv
  <2>2. /\ Len(ledger) <= Len(ledger')
        /\ \A k \in (Len(ledger) + 1)..Len(ledger') : ledger'[k].row.event \in Refusals
    BY <1>6, <2>1 DEF Grew
  <2> QED BY <1>3, <1>4, <2>1, <2>2, DullStep DEF accessVars, Grew
<1>7. CASE Blocked(x, kind) # Null /\ LogBoth(x, blocked, denied)
  <2>1. /\ ChainInv' /\ ledger' \in Seq(LedgerRow)
        /\ Len(ledger') = Len(ledger) + 2 /\ Same(ledger, ledger', Len(ledger))
        /\ ledger'[Len(ledger) + 1].row = blocked /\ ledger'[Len(ledger) + 2].row = denied
        /\ Len(ledger) \in Nat
    BY <1>1, <1>2, <1>7, BothGrew DEF Inv, AccessInv
  <2>2. /\ Len(ledger) <= Len(ledger')
        /\ \A k \in (Len(ledger) + 1)..Len(ledger') : k \in {Len(ledger) + 1, Len(ledger) + 2}
    BY <2>1
  <2>3. \A k \in (Len(ledger) + 1)..Len(ledger') : ledger'[k].row.event \in Refusals
    BY <1>1, <1>2, <1>7, <2>1, <2>2
  <2> QED BY <1>3, <1>4, <2>1, <2>2, <2>3, DullStep DEF accessVars
<1> QED BY <1>1, <1>2, <1>5, <1>6, <1>7

LEMMA DamageInv ==
  ASSUME Inv, NEW x \in Artifacts, Damage(x)
  PROVE  Inv'
<1>1. damaged' \subseteq Artifacts
  BY DEF Damage, Inv, AccessInv, TypeOK
<1>2. ChainInv'
  BY ChainIdle DEF Damage, Inv
<1> QED BY <1>1, <1>2, SilentStep DEF Damage, chainVars

LEMMA CheckpointInv ==
  ASSUME Inv, NEW a \in Analysts, Checkpoint(a)
  PROVE  Inv'
<1>1. PICK k \in Keyholders : SignCheckpoint(k)
  BY DEF Checkpoint
<1>2. UNCHANGED accessVars /\ UNCHANGED ledger
  BY <1>1 DEF Checkpoint, SignCheckpoint
<1>3. ChainInv'
  BY <1>1, SignCheckpointInv DEF Inv
<1>4. damaged' \subseteq Artifacts
  BY <1>2 DEF accessVars, Inv, AccessInv, TypeOK
<1> QED BY <1>2, <1>3, <1>4, SilentStep DEF accessVars

LEMMA MarkCompromisedInv ==
  ASSUME Inv, NEW actor \in Analysts, NEW x \in Artifacts, MarkCompromised(actor, x)
  PROVE  Inv'
<1> DEFINE e == Entry("artifact_key_compromised", actor, x, Null, Null)
<1>1. e \in AuditRow /\ e.event = "artifact_key_compromised" /\ e.about = x
  BY EntryTyped DEF Events
<1>2. /\ LogSecurity(e) /\ UNCHANGED <<issued, credential, grant, op, receipt, damaged>>
      /\ compromised' = compromised \cup {x}
  BY DEF MarkCompromised
<1> HIDE DEF e
<1>3. ChainInv' /\ Grew(e) /\ ledger \in Seq(LedgerRow)
  BY <1>1, <1>2, SecurityGrew DEF Inv, AccessInv
<1>4. /\ Len(ledger) <= Len(ledger')
      /\ \A k \in (Len(ledger) + 1)..Len(ledger') :
           /\ ledger'[k].row.event = "artifact_key_compromised"
           /\ ledger'[k].row.about = x
  BY <1>1, <1>3 DEF Grew
<1>5. TypeOK'
  BY <1>2 DEF Inv, AccessInv, TypeOK
<1>6. AccessInv'
  <2>1. \A k \in (Len(ledger) + 1)..Len(ledger') : Justified(ledger', k)
    BY <1>4 DEF Justified, Delivered
  <2> QED BY <1>2, <1>3, <1>4, <1>5, <2>1, KeptAccess DEF Inv, Grew
<1>7. EffectInv'
  <2>1. \A k \in (Len(ledger) + 1)..Len(ledger') :
          ledger'[k].row.event \notin Changes \cup {"artifact_viewed"}
    BY <1>4 DEF Changes
  <2> QED BY <1>2, <1>3, <1>4, <2>1, KeptEffects DEF Grew
<1> QED BY <1>3, <1>6, <1>7 DEF Inv

\* A delivery that is granted now, by an analyst who may read and of evidence
\* that nothing blocks, is justified by what the ledger says already.
LEMMA DeliveryJustified ==
  ASSUME AccessInv, NEW a \in Analysts, NEW x \in Artifacts, CanRead(a, x),
         NEW e, e.event \in Delivered, e.actor = a, e.about = x,
         x \in compromised => e.event = "artifact_context_viewed", Grew(e)
  PROVE  /\ Len(ledger) <= Len(ledger')
         /\ \A k \in (Len(ledger) + 1)..Len(ledger') :
              /\ k = Len(ledger) + 1 /\ ledger'[k].row = e
              /\ Justified(ledger', k)
<1> DEFINE N == Len(ledger)
           c == CaseOf[x]
<1>1. N \in Nat /\ N <= Len(ledger') /\ \A k \in (N + 1)..Len(ledger') : k = N + 1
  BY DEF AccessInv, Grew
<1>2. PICK g \in Grants : Held(g) /\ grant[g].analyst = a /\ grant[g].case = c
  BY LiveMeans DEF CanRead
<1>3. PICK m \in 1..N : GrantedAt(ledger, a, c, m, N + 1)
  BY <1>2 DEF AccessInv, GrantOnFile
<1> HIDE DEF c
<1>4. GrantedAt(ledger', a, c, m, N + 1)
  <2>1. m \in 1..((N + 1) - 1) /\ N + 1 \in 1..(N + 1) /\ Same(ledger, ledger', N)
    BY <1>1 DEF Grew
  <2> HIDE DEF N
  <2> QED BY <1>1, <1>3, <2>1, SameGranted
<1>5. x \notin compromised => \A k \in 1..N : ledger'[k].row.event = "artifact_key_compromised" =>
                                ledger'[k].row.about # x
  BY DEF AccessInv, Grew, Same
<1>6. Justified(ledger', N + 1)
  <2>1. ledger'[N + 1].row = e /\ (N + 1) - 1 = N
    BY <1>1 DEF Grew
  <2> HIDE DEF N
  <2>2. \E k \in 1..((N + 1) - 1) :
          GrantedAt(ledger', ledger'[N + 1].row.actor, CaseOf[ledger'[N + 1].row.about], k, N + 1)
    BY <1>4, <2>1 DEF c
  <2>3. ledger'[N + 1].row.event # "artifact_context_viewed" =>
          \A k \in 1..((N + 1) - 1) : ledger'[k].row.event = "artifact_key_compromised" =>
                                    ledger'[k].row.about # ledger'[N + 1].row.about
    BY <1>5, <2>1
  <2> QED BY <2>2, <2>3 DEF Justified
<1> QED BY <1>1, <1>6 DEF Grew

LEMMA DeliverInv ==
  ASSUME Inv, NEW a \in Analysts, NEW x \in Artifacts, NEW kind \in Kinds, Deliver(a, x, kind)
  PROVE  Inv'
<1> DEFINE e == Entry(kind, a, x, Null, Null)
<1>0. kind \in Delivered /\ kind \in Events
  BY DEF Kinds, Delivered, Events
<1>1. e \in AuditRow /\ e.event = kind /\ e.actor = a /\ e.about = x
  BY <1>0, EntryTyped
<1>2. LogCustody(x, e) /\ UNCHANGED accessVars /\ CanRead(a, x)
  BY DEF Deliver
<1>3. x \in compromised => kind = "artifact_context_viewed"
  BY NullAssumption DEF Deliver, Blocked, Refusals
<1> HIDE DEF e
<1>4. ChainInv' /\ Grew(e)
  BY <1>1, <1>2, CustodyGrew DEF Inv
<1>5. /\ Len(ledger) <= Len(ledger')
      /\ \A k \in (Len(ledger) + 1)..Len(ledger') :
           k = Len(ledger) + 1 /\ ledger'[k].row = e /\ Justified(ledger', k)
  BY <1>0, <1>1, <1>2, <1>3, <1>4, DeliveryJustified DEF Inv
<1>6. TypeOK' /\ UNCHANGED <<issued, credential, grant, op, receipt, compromised>>
  BY <1>2 DEF accessVars, Inv, AccessInv, TypeOK
<1>7. AccessInv'
  <2>1. \A k \in (Len(ledger) + 1)..Len(ledger') :
          ledger'[k].row.event \notin {"artifact_access_identity_enrolled",
                                       "artifact_access_revoked", "artifact_key_compromised"}
    BY <1>0, <1>1, <1>5 DEF Delivered
  <2> QED BY <1>4, <1>5, <1>6, <2>1, KeptAccess DEF Inv, Grew
<1>8. EffectInv'
  <2>1. \A k \in (Len(ledger) + 1)..Len(ledger') :
          ledger'[k].row.event \notin Changes \cup {"artifact_viewed"}
    BY <1>1, <1>5 DEF Kinds, Changes
  <2> QED BY <1>4, <1>5, <1>6, <2>1, KeptEffects DEF Grew
<1> QED BY <1>4, <1>7, <1>8 DEF Inv

LEMMA AcknowledgeInv ==
  ASSUME Inv, NEW a \in Analysts, NEW x \in Artifacts, NEW q \in Requests, Acknowledge(a, x, q)
  PROVE  Inv'
<1> DEFINE e == Entry("artifact_viewed", a, x, Null, q)
           t == credential[a].token
<1>1. e \in AuditRow /\ e.event = "artifact_viewed" /\ e.actor = a /\ e.about = x /\ e.request = q
  <2>1. "artifact_viewed" \in Events
    BY DEF Events, Delivered
  <2> QED BY <2>1, EntryTyped
<1>2. /\ LogCustody(x, e) /\ CanRead(a, x)
      /\ UNCHANGED <<issued, credential, grant, op, compromised, damaged>>
      /\ receipt[<<a, t, q>>] = Null /\ receipt' = [receipt EXCEPT ![<<a, t, q>>] = x]
  BY DEF Acknowledge
<1>3. x \notin compromised
  BY NullAssumption DEF Acknowledge, Blocked, Refusals
<1>4. t \in Tokens
  BY <1>2 DEF CanRead, Holds, Inv, AccessInv, TypeOK
<1>5. receipt \in [Analysts \X Tokens \X Requests -> Artifacts \cup {Null}]
  BY DEF Inv, AccessInv, TypeOK
<1> HIDE DEF e, t
<1>6. ChainInv' /\ Grew(e)
  BY <1>1, <1>2, CustodyGrew DEF Inv
<1>7. /\ Len(ledger) <= Len(ledger')
      /\ \A k \in (Len(ledger) + 1)..Len(ledger') :
           k = Len(ledger) + 1 /\ ledger'[k].row = e /\ Justified(ledger', k)
  BY <1>1, <1>2, <1>3, <1>6, DeliveryJustified DEF Inv, Delivered
<1>8. TypeOK'
  BY <1>2, <1>5 DEF Inv, AccessInv, TypeOK
<1>9. AccessInv'
  <2>1. \A k \in (Len(ledger) + 1)..Len(ledger') :
          ledger'[k].row.event \notin {"artifact_access_identity_enrolled",
                                       "artifact_access_revoked", "artifact_key_compromised"}
    BY <1>1, <1>7
  <2> QED BY <1>2, <1>6, <1>7, <1>8, <2>1, KeptAccess DEF Inv, Grew
<1>10. \A b \in Analysts, s \in Tokens, p \in Requests :
         receipt'[<<b, s, p>>] = IF b = a /\ s = t /\ p = q THEN x ELSE receipt[<<b, s, p>>]
  BY <1>2, <1>4, <1>5
<1>11. ledger \in Seq(LedgerRow) /\ ledger' \in Seq(LedgerRow)
  BY <1>6 DEF Inv, AccessInv, Grew
<1>12. ASSUME NEW b \in Analysts, NEW p \in Requests
       PROVE  /\ RowsFor(ledger', Changes, b, p) = RowsFor(ledger, Changes, b, p)
              /\ Cardinality(RowsFor(ledger', {"artifact_viewed"}, b, p))
                   = Cardinality(Acknowledged(b, p)')
  <2>1. RowsFor(ledger', Changes, b, p) = RowsFor(ledger, Changes, b, p)
    <3>1. \A k \in (Len(ledger) + 1)..Len(ledger') : ~Matches(ledger'[k].row, Changes, b, p)
      BY <1>1, <1>7 DEF Matches, Changes
    <3> QED BY <1>6, <1>7, <1>11, <3>1, RowsSame DEF Grew
  <2>2. Cardinality(RowsFor(ledger, {"artifact_viewed"}, b, p)) = Cardinality(Acknowledged(b, p))
    BY DEF Inv, EffectInv
  <2>3. CASE b = a /\ p = q
    <3>1. Cardinality(RowsFor(ledger', {"artifact_viewed"}, b, p))
            = Cardinality(RowsFor(ledger, {"artifact_viewed"}, b, p)) + 1
      <4>1. Matches(ledger'[Len(ledger) + 1].row, {"artifact_viewed"}, b, p)
        BY <1>1, <1>6, <2>3 DEF Matches, Grew
      <4> QED BY <1>6, <1>11, <4>1, RowsMore DEF Grew
    <3>2. Acknowledged(b, p)' = Acknowledged(b, p) \cup {t} /\ t \notin Acknowledged(b, p)
      <4>1. x # Null
        BY ChainAssumption
      <4> QED BY <1>2, <1>4, <1>10, <2>3, <4>1 DEF Acknowledged
    <3>3. IsFiniteSet(Acknowledged(b, p))
      <4>1. IsFiniteSet(Tokens)
        BY AccessAssumption, FS_Interval DEF Tokens
      <4> QED BY <4>1, FS_Subset DEF Acknowledged
    <3>4. Cardinality(Acknowledged(b, p)') = Cardinality(Acknowledged(b, p)) + 1
      BY <3>2, <3>3, FS_AddElement
    <3> QED BY <2>1, <2>2, <3>1, <3>4
  <2>4. CASE ~(b = a /\ p = q)
    <3>1. \A k \in (Len(ledger) + 1)..Len(ledger') :
            ~Matches(ledger'[k].row, {"artifact_viewed"}, b, p)
      BY <1>1, <1>7, <2>4 DEF Matches
    <3>2. RowsFor(ledger', {"artifact_viewed"}, b, p) = RowsFor(ledger, {"artifact_viewed"}, b, p)
      BY <1>6, <1>7, <1>11, <3>1, RowsSame DEF Grew
    <3>3. Acknowledged(b, p)' = Acknowledged(b, p)
      BY <1>10, <2>4 DEF Acknowledged
    <3> QED BY <2>1, <2>2, <3>2, <3>3
  <2> QED BY <2>3, <2>4
<1>13. ASSUME NEW b \in Analysts, NEW p \in Requests
       PROVE  /\ Cardinality(RowsFor(ledger, Changes, b, p)')
                   = (IF op'[<<b, p>>] = Null THEN 0 ELSE 1)
              /\ Cardinality(RowsFor(ledger, {"artifact_viewed"}, b, p)')
                   = Cardinality(Acknowledged(b, p)')
              /\ op'[<<b, p>>] # Null /\ op'[<<b, p>>].payload \in Grants =>
                   grant'[op'[<<b, p>>].payload] # Null /\ grant'[op'[<<b, p>>].payload].revoked
  <2>1. \A E : RowsFor(ledger, E, b, p)' = RowsFor(ledger', E, b, p)
    BY DEF RowsFor
  <2> QED BY <1>2, <1>12, <2>1 DEF Inv, EffectInv
<1>14. \A g, h \in Grants :
         /\ Held(g)' /\ Held(h)'
         /\ grant'[g].analyst = grant'[h].analyst /\ grant'[g].case = grant'[h].case
         => g = h
  BY <1>2 DEF Inv, EffectInv, Held
<1>15. EffectInv'
  BY <1>13, <1>14, Zenon DEF EffectInv
<1> QED BY <1>6, <1>9, <1>15 DEF Inv

\* EffectInv in the next state, part by part.
LEMMA EffectsIf ==
  ASSUME \A a \in Analysts, q \in Requests :
           /\ Cardinality(RowsFor(ledger', Changes, a, q))
                = (IF op'[<<a, q>>] = Null THEN 0 ELSE 1)
           /\ Cardinality(RowsFor(ledger', {"artifact_viewed"}, a, q))
                = Cardinality(Acknowledged(a, q)')
           /\ op'[<<a, q>>] # Null /\ op'[<<a, q>>].payload \in Grants =>
                grant'[op'[<<a, q>>].payload] # Null /\ grant'[op'[<<a, q>>].payload].revoked,
         \A g, h \in Grants :
           /\ Held(g)' /\ Held(h)'
           /\ grant'[g].analyst = grant'[h].analyst /\ grant'[g].case = grant'[h].case
           => g = h
  PROVE  EffectInv'
<1>1. \A E, a, q : RowsFor(ledger, E, a, q)' = RowsFor(ledger', E, a, q)
  BY DEF RowsFor
<1> QED BY <1>1 DEF EffectInv

\* The new credential voids what its analyst held: no grant has its token yet.
LEMMA EnrollInv ==
  ASSUME Inv, NEW a \in Analysts, NEW role \in Roles, EnrollAnalyst(a, role)
  PROVE  Inv'
<1> DEFINE e == Entry("artifact_access_identity_enrolled", Null, <<a, role>>, Null, Null)
           new == [token |-> issued + 1, role |-> role]
           N == Len(ledger)
<1>1. e \in AuditRow /\ e.event = "artifact_access_identity_enrolled" /\ e.about = <<a, role>>
  <2>1. "artifact_access_identity_enrolled" \in Events
    BY DEF Events
  <2> QED BY <2>1, EntryTyped
<1>2. /\ LogSecurity(e) /\ UNCHANGED <<grant, op, receipt, compromised, damaged>>
      /\ issued' = issued + 1 /\ issued < MaxTokens
      /\ credential' = [credential EXCEPT ![a] = new]
  BY DEF EnrollAnalyst
<1>3. TypeOK /\ issued \in Nat /\ issued' \in 0..MaxTokens /\ issued + 1 \in Tokens
  BY <1>2, AccessAssumption DEF Inv, AccessInv, TypeOK, Tokens
<1>4. /\ credential' \in [Analysts -> [token: Tokens, role: Roles] \cup {Null}]
      /\ credential'[a] = new /\ \A b \in Analysts : b # a => credential'[b] = credential[b]
  BY <1>2, <1>3 DEF TypeOK
<1>5. TypeOK'
  BY <1>2, <1>3, <1>4 DEF TypeOK
<1> HIDE DEF e
<1>6. ChainInv' /\ Grew(e) /\ ledger \in Seq(LedgerRow) /\ N \in Nat
  BY <1>1, <1>2, SecurityGrew DEF Inv, AccessInv
<1>7. /\ N <= Len(ledger') /\ Len(ledger') = N + 1 /\ Same(ledger, ledger', N)
      /\ ledger' \in Seq(LedgerRow)
      /\ \A k \in (N + 1)..Len(ledger') : k = N + 1 /\ ledger'[k].row = e
  BY <1>6 DEF Grew
<1>8. \A k \in (N + 1)..Len(ledger') :
        /\ \A b : b # a => ~Enrolled(ledger', b, k)
        /\ ledger'[k].row.event # "artifact_access_revoked"
        /\ ledger'[k].row.event # "artifact_key_compromised"
        /\ ledger'[k].row.event \notin Changes \cup Delivered
  BY <1>1, <1>7 DEF Enrolled, Changes, Delivered
<1>9. ASSUME NEW b \in Analysts, credential'[b] # Null
      PROVE  credential'[b].token <= issued' /\ CredentialOnFile(ledger, b)'
  <2>1. CASE b = a
    <3>1. Enrolled(ledger', a, N + 1) /\ ledger'[N + 1].row.about[2] = credential'[a].role
      BY <1>1, <1>4, <1>6 DEF Enrolled, Grew
    <3>2. N + 1 \in 1..Len(ledger') /\ \A k \in (N + 1 + 1)..Len(ledger') : FALSE
      BY <1>6, <1>7
    <3>3. credential'[a].token <= issued'
      BY <1>2, <1>3, <1>4
    <3> QED BY <2>1, <3>1, <3>2, <3>3 DEF CredentialOnFile
  <2>2. CASE b # a
    <3>1. credential'[b] = credential[b] /\ credential[b].token <= issued
            /\ CredentialOnFile(ledger, b) /\ credential[b].token \in Nat
      BY <1>3, <1>4, <1>9, <2>2 DEF Inv, AccessInv, TypeOK, Tokens
    <3>2. CredentialOnFile(ledger', b)
      BY <1>6, <1>7, <1>8, <2>2, <3>1, CredentialStaysOnFile
    <3> QED BY <1>2, <1>3, <3>1, <3>2 DEF CredentialOnFile
  <2> QED BY <2>1, <2>2
<1>10. ASSUME NEW g \in Grants, Held(g)' PROVE Held(g) /\ grant[g].analyst # a
  <2>1. grant[g] \in GrantRow /\ grant'[g] = grant[g]
    BY <1>2, <1>3, <1>10 DEF TypeOK, Held
  <2>2. grant[g].token \in Nat /\ grant[g].token <= issued /\ grant[g].analyst \in Analysts
    BY <1>3, <1>10, <2>1 DEF Inv, AccessInv, Held, GrantRow, Tokens
  <2>3. grant[g].analyst # a
    BY <1>3, <1>4, <1>10, <2>1, <2>2 DEF Held
  <2> QED BY <1>4, <1>10, <2>1, <2>2, <2>3 DEF Held
<1>11. ASSUME NEW g \in Grants, Held(g)' PROVE GrantOnFile(ledger, g)'
  <2>1. Held(g) /\ grant[g].analyst # a
    BY <1>10, <1>11
  <2>2. GrantOnFile(ledger', g)
    BY <1>6, <1>7, <1>8, <2>1, GrantStaysOnFile DEF Inv, AccessInv
  <2> QED BY <1>2, <2>2 DEF GrantOnFile
<1>12. /\ \A k \in 1..Len(ledger') : ledger'[k].row.event = "artifact_key_compromised" =>
                                       ledger'[k].row.about \in compromised'
       /\ \A k \in 1..Len(ledger') : Justified(ledger', k)
  <2>1. \A k \in (N + 1)..Len(ledger') : Justified(ledger', k)
    BY <1>8 DEF Justified
  <2> QED BY <1>2, <1>7, <1>8, <2>1, RowsStayJustified DEF Inv
<1>13. \A g \in Grants : grant'[g] # Null => grant'[g].token <= issued'
  BY <1>2, <1>3 DEF Inv, AccessInv, TypeOK, GrantRow, Tokens
<1>14. AccessInv'
  <2>1. \A n \in 1..Len(ledger') : Justified(ledger, n)'
    BY <1>12 DEF Justified, GrantedAt, Admin, Enrolled
  <2> QED BY <1>5, <1>7, <1>9, <1>11, <1>12, <1>13, <2>1 DEF AccessInv
<1>15. EffectInv'
  <2>1. ASSUME NEW b, NEW p
        PROVE  /\ RowsFor(ledger', Changes, b, p) = RowsFor(ledger, Changes, b, p)
               /\ RowsFor(ledger', {"artifact_viewed"}, b, p)
                    = RowsFor(ledger, {"artifact_viewed"}, b, p)
    <3>1. \A k \in (N + 1)..Len(ledger') :
            /\ ~Matches(ledger'[k].row, Changes, b, p)
            /\ ~Matches(ledger'[k].row, {"artifact_viewed"}, b, p)
      BY <1>8 DEF Matches, Delivered
    <3> QED BY <1>6, <1>7, <3>1, RowsSame
  <2>2. \A b, p : Acknowledged(b, p)' = Acknowledged(b, p)
    BY <1>2 DEF Acknowledged
  <2>3. \A g, h \in Grants :
          /\ Held(g)' /\ Held(h)'
          /\ grant'[g].analyst = grant'[h].analyst /\ grant'[g].case = grant'[h].case
          => g = h
    BY <1>2, <1>10 DEF Inv, EffectInv
  <2>4. \A b \in Analysts, q \in Requests :
          /\ Cardinality(RowsFor(ledger', Changes, b, q))
               = (IF op'[<<b, q>>] = Null THEN 0 ELSE 1)
          /\ Cardinality(RowsFor(ledger', {"artifact_viewed"}, b, q))
               = Cardinality(Acknowledged(b, q)')
          /\ op'[<<b, q>>] # Null /\ op'[<<b, q>>].payload \in Grants =>
               grant'[op'[<<b, q>>].payload] # Null /\ grant'[op'[<<b, q>>].payload].revoked
    <3> SUFFICES ASSUME NEW b \in Analysts, NEW q \in Requests
                 PROVE  /\ Cardinality(RowsFor(ledger', Changes, b, q))
                             = (IF op'[<<b, q>>] = Null THEN 0 ELSE 1)
                        /\ Cardinality(RowsFor(ledger', {"artifact_viewed"}, b, q))
                             = Cardinality(Acknowledged(b, q)')
                        /\ op'[<<b, q>>] # Null /\ op'[<<b, q>>].payload \in Grants =>
                             grant'[op'[<<b, q>>].payload] # Null /\ grant'[op'[<<b, q>>].payload].revoked
      OBVIOUS
    <3>1. /\ RowsFor(ledger', Changes, b, q) = RowsFor(ledger, Changes, b, q)
          /\ RowsFor(ledger', {"artifact_viewed"}, b, q) = RowsFor(ledger, {"artifact_viewed"}, b, q)
          /\ Acknowledged(b, q)' = Acknowledged(b, q)
      BY <2>1, <2>2, Zenon
    <3>2. op' = op /\ grant' = grant
      BY <1>2
    <3>3. /\ Cardinality(RowsFor(ledger, Changes, b, q)) = (IF op[<<b, q>>] = Null THEN 0 ELSE 1)
          /\ Cardinality(RowsFor(ledger, {"artifact_viewed"}, b, q)) = Cardinality(Acknowledged(b, q))
          /\ op[<<b, q>>] # Null /\ op[<<b, q>>].payload \in Grants =>
               grant[op[<<b, q>>].payload] # Null /\ grant[op[<<b, q>>].payload].revoked
      BY Zenon DEF Inv, EffectInv
    <3> QED BY <3>1, <3>2, <3>3, Zenon
  <2> QED BY <2>3, <2>4, EffectsIf, Zenon
<1> QED BY <1>6, <1>14, <1>15 DEF Inv

\* One change of access of the request (actor, q) is logged: what is told of
\* it, and of no other request, grows by one row.
LEMMA ChangeTold ==
  ASSUME Inv, NEW actor \in Analysts, NEW q \in Requests, op[<<actor, q>>] = Null,
         NEW e, e.event \in Changes, e.actor = actor, e.request = q, Grew(e),
         NEW o \in Operation, op' = [op EXCEPT ![<<actor, q>>] = o], UNCHANGED receipt
  PROVE  /\ op' \in [Analysts \X Requests -> Operation \cup {Null}]
         /\ \A b \in Analysts, p \in Requests :
              op'[<<b, p>>] = IF b = actor /\ p = q THEN o ELSE op[<<b, p>>]
         /\ \A b \in Analysts, p \in Requests :
              /\ Cardinality(RowsFor(ledger', Changes, b, p))
                   = (IF op'[<<b, p>>] = Null THEN 0 ELSE 1)
              /\ Cardinality(RowsFor(ledger', {"artifact_viewed"}, b, p))
                   = Cardinality(Acknowledged(b, p)')
<1>1. op \in [Analysts \X Requests -> Operation \cup {Null}] /\ o # Null
  BY NullAssumption DEF Inv, AccessInv, TypeOK
<1>2. /\ op' \in [Analysts \X Requests -> Operation \cup {Null}]
      /\ \A b \in Analysts, p \in Requests :
           op'[<<b, p>>] = IF b = actor /\ p = q THEN o ELSE op[<<b, p>>]
  BY <1>1
<1>3. /\ ledger \in Seq(LedgerRow) /\ ledger' \in Seq(LedgerRow) /\ Len(ledger) \in Nat
      /\ Len(ledger) <= Len(ledger') /\ Len(ledger') = Len(ledger) + 1
      /\ Same(ledger, ledger', Len(ledger))
      /\ \A k \in (Len(ledger) + 1)..Len(ledger') : ledger'[k].row = e
  BY DEF Inv, AccessInv, Grew
<1>4. ASSUME NEW b \in Analysts, NEW p \in Requests
      PROVE  /\ Cardinality(RowsFor(ledger', Changes, b, p))
                  = (IF op'[<<b, p>>] = Null THEN 0 ELSE 1)
             /\ Cardinality(RowsFor(ledger', {"artifact_viewed"}, b, p))
                  = Cardinality(Acknowledged(b, p)')
  <2>1. RowsFor(ledger', {"artifact_viewed"}, b, p) = RowsFor(ledger, {"artifact_viewed"}, b, p)
    <3>1. \A k \in (Len(ledger) + 1)..Len(ledger') :
            ~Matches(ledger'[k].row, {"artifact_viewed"}, b, p)
      BY <1>3 DEF Matches, Changes
    <3> QED BY <1>3, <3>1, RowsSame
  <2>2. Acknowledged(b, p)' = Acknowledged(b, p)
    BY DEF Acknowledged
  <2>3. /\ Cardinality(RowsFor(ledger, Changes, b, p)) = (IF op[<<b, p>>] = Null THEN 0 ELSE 1)
        /\ Cardinality(RowsFor(ledger, {"artifact_viewed"}, b, p)) = Cardinality(Acknowledged(b, p))
    BY DEF Inv, EffectInv
  <2>4. CASE b = actor /\ p = q
    <3>1. Matches(ledger'[Len(ledger) + 1].row, Changes, b, p)
      BY <2>4 DEF Matches, Grew
    <3>2. Cardinality(RowsFor(ledger', Changes, b, p))
            = Cardinality(RowsFor(ledger, Changes, b, p)) + 1
      BY <1>3, <3>1, RowsMore
    <3> QED BY <1>1, <1>2, <2>1, <2>2, <2>3, <2>4, <3>2
  <2>5. CASE ~(b = actor /\ p = q)
    <3>1. \A k \in (Len(ledger) + 1)..Len(ledger') : ~Matches(ledger'[k].row, Changes, b, p)
      BY <1>3, <2>5 DEF Matches
    <3>2. RowsFor(ledger', Changes, b, p) = RowsFor(ledger, Changes, b, p)
      BY <1>3, <3>1, RowsSame
    <3> QED BY <1>2, <2>1, <2>2, <2>3, <2>5, <3>2
  <2> QED BY <2>4, <2>5
<1> QED BY <1>2, <1>4

\* A new grant stands in the ledger, given by an administrator; a live one of
\* the same scope is named again.
LEMMA GrantInv ==
  ASSUME Inv, NEW actor \in Analysts, NEW q \in Requests, NEW a \in Analysts, NEW c \in Cases,
         Grant(actor, q, a, c)
  PROVE  Inv'
<1> DEFINE row == [analyst |-> a, token |-> credential[a].token, case |-> c, revoked |-> FALSE]
           N == Len(ledger)
<1>1. PICK g \in Grants :
        /\ IF LiveFor(a, c) # {} THEN g \in LiveFor(a, c) /\ grant' = grant
           ELSE grant[g] = Null /\ grant' = [grant EXCEPT ![g] = row]
        /\ op' = [op EXCEPT ![<<actor, q>>] = [payload |-> <<a, c>>, grant |-> g]]
        /\ LogSecurity(Entry("artifact_access_granted", actor, <<a, c>>, g, q))
  BY DEF Grant
<1> DEFINE e == Entry("artifact_access_granted", actor, <<a, c>>, g, q)
           o == [payload |-> <<a, c>>, grant |-> g]
<1>2. /\ e \in AuditRow /\ e.event = "artifact_access_granted" /\ e.actor = actor
      /\ e.about = <<a, c>> /\ e.grant = g /\ e.request = q
  <2>1. "artifact_access_granted" \in Events
    BY DEF Events, Changes
  <2> QED BY <2>1, EntryTyped
<1>3. /\ Holds(actor, "manage") /\ op[<<actor, q>>] = Null /\ Holds(a, "read")
      /\ UNCHANGED <<issued, credential, receipt, compromised, damaged>>
  BY DEF Grant
<1>4. TypeOK /\ credential[a] # Null /\ credential[a].token \in Tokens
        /\ credential[a].token <= issued
  BY <1>3 DEF Inv, AccessInv, TypeOK, Holds
<1>5. row \in GrantRow /\ row.analyst = a /\ row.case = c /\ row.token = credential[a].token
        /\ row.revoked = FALSE
  BY <1>4 DEF GrantRow
<1>6. o \in Operation /\ o.payload = <<a, c>> /\ o.payload \notin Grants
  BY NullAssumption DEF Operation
<1> HIDE DEF row, e, o
<1>7. ChainInv' /\ Grew(e) /\ ledger \in Seq(LedgerRow) /\ N \in Nat
  BY <1>1, <1>2, SecurityGrew DEF Inv, AccessInv, e
<1>8. /\ op' \in [Analysts \X Requests -> Operation \cup {Null}]
      /\ \A b \in Analysts, p \in Requests :
           op'[<<b, p>>] = IF b = actor /\ p = q THEN o ELSE op[<<b, p>>]
      /\ \A b \in Analysts, p \in Requests :
           /\ Cardinality(RowsFor(ledger', Changes, b, p))
                = (IF op'[<<b, p>>] = Null THEN 0 ELSE 1)
           /\ Cardinality(RowsFor(ledger', {"artifact_viewed"}, b, p))
                = Cardinality(Acknowledged(b, p)')
  <2>1. e.event \in Changes
    BY <1>2 DEF Changes
  <2>2. op' = [op EXCEPT ![<<actor, q>>] = o] /\ UNCHANGED receipt
    BY <1>1, <1>3 DEF o
  <2> QED BY <1>2, <1>3, <1>6, <1>7, <2>1, <2>2, ChangeTold
<1>9. \/ grant' = grant
      \/ /\ LiveFor(a, c) = {} /\ grant[g] = Null /\ grant'[g] = row
         /\ grant' \in [Grants -> GrantRow \cup {Null}]
         /\ \A h \in Grants : h # g => grant'[h] = grant[h]
  BY <1>1, <1>4, <1>5 DEF TypeOK, row
<1>10. TypeOK'
  BY <1>3, <1>4, <1>8, <1>9 DEF TypeOK
<1>11. /\ N <= Len(ledger') /\ Len(ledger') = N + 1 /\ Same(ledger, ledger', N)
       /\ ledger' \in Seq(LedgerRow)
       /\ \A k \in (N + 1)..Len(ledger') : k = N + 1 /\ ledger'[k].row = e
  BY <1>7 DEF Grew
<1>12. \A k \in (N + 1)..Len(ledger') :
         /\ \A b : ~Enrolled(ledger', b, k)
         /\ ledger'[k].row.event \notin {"artifact_access_identity_enrolled",
                                         "artifact_access_revoked", "artifact_key_compromised"}
         /\ Justified(ledger', k)
  BY <1>2, <1>11 DEF Enrolled, Justified, Delivered
<1>13. /\ \A k \in 1..Len(ledger') : ledger'[k].row.event = "artifact_key_compromised" =>
                                       ledger'[k].row.about \in compromised'
       /\ \A k \in 1..Len(ledger') : Justified(ledger', k)
  BY <1>3, <1>11, <1>12, RowsStayJustified DEF Inv
<1>14. ASSUME NEW b \in Analysts, credential'[b] # Null
       PROVE  credential'[b].token <= issued' /\ CredentialOnFile(ledger, b)'
  <2>1. credential[b].token <= issued /\ CredentialOnFile(ledger, b)
    BY <1>3, <1>14 DEF Inv, AccessInv
  <2>2. CredentialOnFile(ledger', b)
    BY <1>7, <1>11, <1>12, <2>1, CredentialStaysOnFile
  <2> QED BY <1>3, <2>1, <2>2 DEF CredentialOnFile
<1>15. ASSUME NEW h \in Grants, Held(h), grant'[h] = grant[h] PROVE GrantOnFile(ledger, h)'
  <2>1. GrantOnFile(ledger', h)
    <3>1. GrantOnFile(ledger, h)
      BY <1>15 DEF Inv, AccessInv
    <3>2. \A k \in (N + 1)..Len(ledger') :
            /\ ~Enrolled(ledger', grant[h].analyst, k)
            /\ ledger'[k].row.event # "artifact_access_revoked"
      BY <1>12
    <3> QED BY <1>7, <1>11, <3>1, <3>2, GrantStaysOnFile
  <2> QED BY <1>15, <2>1 DEF GrantOnFile
<1>16. CASE grant' = grant
  <2>1. AccessInv'
    <3>1. \A h \in Grants : Held(h)' => GrantOnFile(ledger, h)'
      BY <1>3, <1>15, <1>16 DEF Held
    <3>2. \A n \in 1..Len(ledger') : Justified(ledger, n)'
      BY <1>13 DEF Justified, GrantedAt, Admin, Enrolled
    <3>3. \A h \in Grants : grant'[h] # Null => grant'[h].token <= issued'
      BY <1>3, <1>16 DEF Inv, AccessInv
    <3> QED BY <1>10, <1>11, <1>13, <1>14, <3>1, <3>2, <3>3 DEF AccessInv
  <2>2. EffectInv'
    <3>1. \A b \in Analysts, p \in Requests :
            op'[<<b, p>>] # Null /\ op'[<<b, p>>].payload \in Grants =>
              grant'[op'[<<b, p>>].payload] # Null /\ grant'[op'[<<b, p>>].payload].revoked
      BY <1>6, <1>8, <1>16 DEF Inv, EffectInv
    <3>2. \A h, i \in Grants :
            /\ Held(h)' /\ Held(i)'
            /\ grant'[h].analyst = grant'[i].analyst /\ grant'[h].case = grant'[i].case
            => h = i
      BY <1>3, <1>16 DEF Inv, EffectInv, Held
    <3> QED BY <1>8, <3>1, <3>2, EffectsIf
  <2> QED BY <1>7, <2>1, <2>2 DEF Inv
<1>17. CASE /\ LiveFor(a, c) = {} /\ grant[g] = Null /\ grant'[g] = row
            /\ grant' \in [Grants -> GrantRow \cup {Null}]
            /\ \A h \in Grants : h # g => grant'[h] = grant[h]
  <2>1. GrantOnFile(ledger, g)'
    <3>1. Admin(ledger', actor, N + 1)
      <4>1. Admin(ledger, actor, N + 1) /\ N + 1 \in 1..(N + 1)
        BY <1>3, <1>7, ManagerIsAdmin DEF Inv
      <4> QED BY <1>7, <1>11, <4>1, SameAdmin
    <3>2. ledger'[N + 1].row = e /\ N + 1 \in 1..Len(ledger') /\ (Len(ledger') + 1) - 1 = N + 1
      BY <1>7, <1>11 DEF Grew
    <3>3. \A k \in ((N + 1) + 1)..((Len(ledger') + 1) - 1) : FALSE
      BY <1>7, <3>2
    <3> HIDE DEF N
    <3>4. GrantedAt(ledger', a, c, N + 1, Len(ledger') + 1)
      BY <1>2, <3>1, <3>2, <3>3 DEF GrantedAt
    <3> QED BY <1>2, <1>5, <1>17, <3>2, <3>4 DEF GrantOnFile
  <2>2. \A h \in Grants : h # g /\ Held(h)' => Held(h) /\ grant'[h] = grant[h]
    BY <1>3, <1>17 DEF Held
  <2>3. AccessInv'
    <3>1. \A h \in Grants : Held(h)' => GrantOnFile(ledger, h)'
      BY <1>15, <2>1, <2>2
    <3>2. \A n \in 1..Len(ledger') : Justified(ledger, n)'
      BY <1>13 DEF Justified, GrantedAt, Admin, Enrolled
    <3>3. \A h \in Grants : grant'[h] # Null => grant'[h].token <= issued'
      BY <1>3, <1>4, <1>5, <1>17 DEF Inv, AccessInv
    <3> QED BY <1>10, <1>11, <1>13, <1>14, <3>1, <3>2, <3>3 DEF AccessInv
  <2>4. EffectInv'
    <3>1. ASSUME NEW b \in Analysts, NEW p \in Requests,
                 op'[<<b, p>>] # Null, op'[<<b, p>>].payload \in Grants
          PROVE  grant'[op'[<<b, p>>].payload] # Null /\ grant'[op'[<<b, p>>].payload].revoked
      <4>1. op'[<<b, p>>] = op[<<b, p>>]
        BY <1>6, <1>8, <3>1
      <4>2. grant[op[<<b, p>>].payload] # Null /\ grant[op[<<b, p>>].payload].revoked
        BY <3>1, <4>1 DEF Inv, EffectInv
      <4> QED BY <1>17, <3>1, <4>1, <4>2
    <3>2. \A h \in Grants : Held(h) => ~(grant[h].analyst = a /\ grant[h].case = c)
      BY <1>17, LiveMeans
    <3>3. \A h, i \in Grants :
            /\ Held(h)' /\ Held(i)'
            /\ grant'[h].analyst = grant'[i].analyst /\ grant'[h].case = grant'[i].case
            => h = i
      BY <1>5, <1>17, <2>2, <3>2 DEF Inv, EffectInv
    <3> QED BY <1>8, <3>1, <3>3, EffectsIf
  <2> QED BY <1>7, <2>3, <2>4 DEF Inv
<1> QED BY <1>9, <1>16, <1>17

LEMMA RevokeInv ==
  ASSUME Inv, NEW actor \in Analysts, NEW q \in Requests, NEW g \in Grants, Revoke(actor, q, g)
  PROVE  Inv'
<1> DEFINE e == Entry("artifact_access_revoked", actor, g, g, q)
           o == [payload |-> g, grant |-> g]
           N == Len(ledger)
<1>1. /\ op[<<actor, q>>] = Null /\ grant[g] # Null
      /\ grant' = [grant EXCEPT ![g].revoked = TRUE]
      /\ op' = [op EXCEPT ![<<actor, q>>] = o] /\ LogSecurity(e)
      /\ UNCHANGED <<issued, credential, receipt, compromised, damaged>>
  BY DEF Revoke
<1>2. /\ e \in AuditRow /\ e.event = "artifact_access_revoked" /\ e.actor = actor
      /\ e.grant = g /\ e.request = q
  <2>1. "artifact_access_revoked" \in Events
    BY DEF Events, Changes
  <2> QED BY <2>1, EntryTyped
<1>3. o \in Operation /\ o.payload = g
  BY DEF Operation
<1>4. TypeOK
  BY DEF Inv, AccessInv
<1>5. /\ grant' \in [Grants -> GrantRow \cup {Null}]
      /\ grant'[g] \in GrantRow /\ grant'[g].revoked = TRUE /\ grant'[g].token = grant[g].token
      /\ \A h \in Grants : h # g => grant'[h] = grant[h]
  <2> DEFINE r == [grant[g] EXCEPT !.revoked = TRUE]
  <2>1. grant \in [Grants -> GrantRow \cup {Null}] /\ grant[g] \in GrantRow
    BY <1>1, <1>4 DEF TypeOK
  <2>2. r \in GrantRow /\ r.revoked = TRUE /\ r.token = grant[g].token
    BY <2>1 DEF GrantRow
  <2>3. grant' = [grant EXCEPT ![g] = r]
    BY <1>1
  <2> HIDE DEF r
  <2> QED BY <2>1, <2>2, <2>3
<1> HIDE DEF e, o
<1>6. ChainInv' /\ Grew(e) /\ ledger \in Seq(LedgerRow) /\ N \in Nat
  BY <1>1, <1>2, SecurityGrew DEF Inv, AccessInv
<1>7. /\ op' \in [Analysts \X Requests -> Operation \cup {Null}]
      /\ \A b \in Analysts, p \in Requests :
           op'[<<b, p>>] = IF b = actor /\ p = q THEN o ELSE op[<<b, p>>]
      /\ \A b \in Analysts, p \in Requests :
           /\ Cardinality(RowsFor(ledger', Changes, b, p))
                = (IF op'[<<b, p>>] = Null THEN 0 ELSE 1)
           /\ Cardinality(RowsFor(ledger', {"artifact_viewed"}, b, p))
                = Cardinality(Acknowledged(b, p)')
  <2>1. e.event \in Changes
    BY <1>2 DEF Changes
  <2> QED BY <1>1, <1>2, <1>3, <1>6, <2>1, ChangeTold
<1>8. TypeOK'
  BY <1>1, <1>4, <1>5, <1>7 DEF TypeOK
<1>9. /\ N <= Len(ledger') /\ Len(ledger') = N + 1 /\ Same(ledger, ledger', N)
      /\ ledger' \in Seq(LedgerRow)
      /\ \A k \in (N + 1)..Len(ledger') : k = N + 1 /\ ledger'[k].row = e
  BY <1>6 DEF Grew
<1>10. \A k \in (N + 1)..Len(ledger') :
         /\ \A b : ~Enrolled(ledger', b, k)
         /\ ledger'[k].row.event # "artifact_key_compromised"
         /\ ledger'[k].row.grant = g
         /\ Justified(ledger', k)
  BY <1>2, <1>9 DEF Enrolled, Justified, Delivered
<1>11. /\ \A k \in 1..Len(ledger') : ledger'[k].row.event = "artifact_key_compromised" =>
                                       ledger'[k].row.about \in compromised'
       /\ \A k \in 1..Len(ledger') : Justified(ledger', k)
  BY <1>1, <1>9, <1>10, RowsStayJustified DEF Inv
<1>12. ASSUME NEW b \in Analysts, credential'[b] # Null
       PROVE  credential'[b].token <= issued' /\ CredentialOnFile(ledger, b)'
  <2>1. credential[b].token <= issued /\ CredentialOnFile(ledger, b)
    BY <1>1, <1>12 DEF Inv, AccessInv
  <2>2. CredentialOnFile(ledger', b)
    BY <1>6, <1>9, <1>10, <2>1, CredentialStaysOnFile
  <2> QED BY <1>1, <2>1, <2>2 DEF CredentialOnFile
<1>13. \A h \in Grants : Held(h)' => h # g /\ Held(h) /\ grant'[h] = grant[h]
  BY <1>1, <1>5 DEF Held
<1>14. ASSUME NEW h \in Grants, Held(h)' PROVE GrantOnFile(ledger, h)'
  <2>1. h # g /\ grant'[h] = grant[h] /\ GrantOnFile(ledger, h)
    BY <1>13, <1>14 DEF Inv, AccessInv
  <2>2. \A k \in (N + 1)..Len(ledger') :
          /\ ~Enrolled(ledger', grant[h].analyst, k)
          /\ ledger'[k].row.event = "artifact_access_revoked" => ledger'[k].row.grant # h
    BY <1>10, <2>1
  <2>3. GrantOnFile(ledger', h)
    BY <1>6, <1>9, <2>1, <2>2, GrantStaysOnFile
  <2> QED BY <2>1, <2>3 DEF GrantOnFile
<1>15. AccessInv'
  <2>1. \A n \in 1..Len(ledger') : Justified(ledger, n)'
    BY <1>11 DEF Justified, GrantedAt, Admin, Enrolled
  <2>2. \A h \in Grants : grant'[h] # Null => grant'[h].token <= issued'
    BY <1>1, <1>5 DEF Inv, AccessInv
  <2> QED BY <1>8, <1>9, <1>11, <1>12, <1>14, <2>1, <2>2 DEF AccessInv
<1>16. EffectInv'
  <2>1. ASSUME NEW b \in Analysts, NEW p \in Requests,
               op'[<<b, p>>] # Null, op'[<<b, p>>].payload \in Grants
        PROVE  grant'[op'[<<b, p>>].payload] # Null /\ grant'[op'[<<b, p>>].payload].revoked
    <3>1. grant'[g] # Null /\ grant'[g].revoked
      BY <1>5, NullAssumption
    <3>2. CASE op'[<<b, p>>].payload = g
      BY <3>1, <3>2
    <3>3. CASE op'[<<b, p>>].payload # g
      <4>1. op'[<<b, p>>] = op[<<b, p>>]
        BY <1>3, <1>7, <3>3
      <4>2. grant[op[<<b, p>>].payload] # Null /\ grant[op[<<b, p>>].payload].revoked
        BY <2>1, <4>1 DEF Inv, EffectInv
      <4> QED BY <1>5, <2>1, <3>3, <4>1, <4>2
    <3> QED BY <3>2, <3>3
  <2>2. \A h, i \in Grants :
          /\ Held(h)' /\ Held(i)'
          /\ grant'[h].analyst = grant'[i].analyst /\ grant'[h].case = grant'[i].case
          => h = i
    BY <1>13 DEF Inv, EffectInv
  <2> QED BY <1>7, <2>1, <2>2, EffectsIf
<1> QED BY <1>6, <1>15, <1>16 DEF Inv

----------------------------------------------------------------------------
(* The theorems.                                                           *)

LEMMA InitInv == Init => Inv
<1> SUFFICES ASSUME Init PROVE Inv
  OBVIOUS
<1>1. ChainInv
  BY ChainInitInv DEF Init
<1>2. TypeOK
  BY AccessAssumption DEF Init, TypeOK
<1>3. /\ ledger \in Seq(LedgerRow)
      /\ \A n \in DOMAIN ledger : ledger[n].row.event = "received"
  <2>1. \A n \in DOMAIN ledger : ledger[n].row = Received
    BY DEF Init, ChainInit, Chained
  <2> QED BY <1>1, <2>1 DEF ChainInv, ChainTyped, Received, Entry
<1>4. AccessInv
  <2>1. \A n \in 1..Len(ledger) : ledger[n].row.event = "received"
    BY <1>3
  <2>2. \A n \in 1..Len(ledger) : Justified(ledger, n)
    BY <2>1 DEF Justified, Delivered
  <2>3. \A g \in Grants : grant[g] = Null
    BY DEF Init
  <2>4. \A a \in Analysts : credential[a] = Null
    BY DEF Init
  <2> QED BY <1>2, <1>3, <2>1, <2>2, <2>3, <2>4 DEF AccessInv, Held
<1>5. EffectInv
  <2>1. \A a, q : RowsFor(ledger, Changes, a, q) = {} /\ RowsFor(ledger, {"artifact_viewed"}, a, q) = {}
    BY <1>3 DEF RowsFor, Matches, Changes
  <2>2. \A a \in Analysts, q \in Requests : op[<<a, q>>] = Null /\ Acknowledged(a, q) = {}
    BY DEF Init, Acknowledged
  <2>3. \A g \in Grants : ~Held(g)
    BY DEF Init, Held
  <2> QED BY <2>1, <2>2, <2>3, FS_EmptySet DEF EffectInv
<1> QED BY <1>1, <1>4, <1>5 DEF Inv

LEMMA NextInv == Inv /\ [Next]_vars => Inv'
<1> SUFFICES ASSUME Inv, [Next]_vars PROVE Inv'
  OBVIOUS
<1>1. CASE UNCHANGED vars
  <2>1. UNCHANGED chainVars /\ UNCHANGED accessVars
    BY <1>1 DEF vars
  <2>2. ChainInv'
    BY <2>1, ChainIdle DEF Inv
  <2>3. damaged' \subseteq Artifacts
    BY <2>1 DEF accessVars, Inv, AccessInv, TypeOK
  <2> QED BY <2>1, <2>2, <2>3, SilentStep DEF chainVars, accessVars
<1>2. CASE Next
  BY <1>2, EnrollInv, GrantInv, RefuseChangeInv, RevokeInv, DeliverInv, RefuseReadInv,
     AcknowledgeInv, MarkCompromisedInv, DamageInv, CheckpointInv DEF Next
<1> QED BY <1>1, <1>2

\* The invariant the theorems below rest on.
THEOREM AccessInductive == Spec => []Inv
BY InitInv, NextInv, PTL DEF Spec

\* Whichever requests were granted or refused, in whatever order, the ledger
\* verifies against its sources, and so does every checkpoint ever signed.
THEOREM ChainAlwaysVerifies == Spec => []ChainVerifies
<1>1. Inv => ChainVerifies
  BY ChainInvImplies DEF Inv
<1> QED BY <1>1, AccessInductive, PTL

\* Every delivery of evidence is justified by the rows before it alone: a grant
\* an administrator gave, neither revoked nor voided since, and no report of a
\* compromised key (can_read, operate, verified).
THEOREM DeliveriesAlwaysJustified == Spec => []DeliveriesAreJustified
<1>1. Inv => DeliveriesAreJustified
  <2> SUFFICES ASSUME Inv PROVE DeliveriesAreJustified
    OBVIOUS
  <2>1. DOMAIN ledger = 1..Len(ledger)
    BY DEF Inv, AccessInv
  <2> QED BY <2>1, DeliveriesMean DEF Inv, AccessInv
<1> QED BY <1>1, AccessInductive, PTL

\* A request has one effect and leaves one row, however often and in whatever
\* order it is sent, and no credential holds two live grants of one scope.
THEOREM OneEffectHolds == Spec => []OneEffectPerRequest
<1>1. Inv => OneEffectPerRequest
  BY EffectInvImplies DEF Inv, AccessInv
<1> QED BY <1>1, AccessInductive, PTL
=============================================================================
