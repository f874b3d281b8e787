------------------------- MODULE RecordStoresProofs -------------------------
(***************************************************************************)
(* What the stores keep, for any number of agents, streams, records,       *)
(* batches, incidents and reports: evidence stays, the acknowledged prefix *)
(* and the gaps are exact, every execution is detected on once, incidents  *)
(* add up, in their own store and beside the others, the state shown of a  *)
(* Windows endpoint is the newest proved one and no age is understated.    *)
(***************************************************************************)
EXTENDS RecordStores, SequenceTheorems, WellFoundedInduction, FiniteSetTheorems, TLAPS

----------------------------------------------------------------------------
(* Least and greatest members of sets of numbers.                          *)

\* A set of naturals has a least member.
LEMMA LeastExists ==
  ASSUME NEW S \in SUBSET Nat, S # {}
  PROVE  \E m \in S : \A n \in S : m <= n
<1>1. PICK m \in S : \A n \in S : ~(<<n, m>> \in OpToRel(<, Nat))
  BY WFMin, NatLessThanWellFounded
<1>2. ASSUME NEW n \in S PROVE m <= n
  <2>1. m \in Nat /\ n \in Nat
    OBVIOUS
  <2>2. ~(n < m)
    BY <1>1, <2>1, Zenon DEF OpToRel
  <2> QED BY <2>1, <2>2
<1> QED BY <1>2

\* A bounded one has a greatest member.
LEMMA GreatestExists ==
  ASSUME NEW M \in Nat, NEW S \in SUBSET (1..M), S # {}
  PROVE  \E m \in S : \A n \in S : n <= m
<1> DEFINE D == {M - n : n \in S}
<1>1. D \in SUBSET Nat /\ D # {}
  <2>1. \A n \in S : n \in Nat /\ M - n \in Nat
    OBVIOUS
  <2> QED BY <2>1
<1>2. PICK d \in D : \A e \in D : d <= e
  BY <1>1, LeastExists
<1>3. PICK m \in S : d = M - m
  OBVIOUS
<1>4. ASSUME NEW n \in S PROVE n <= m
  <2>1. M - n \in D
    OBVIOUS
  <2> QED BY <1>2, <1>3, <2>1
<1> QED BY <1>4

----------------------------------------------------------------------------
(* The audit trail of one incident.                                        *)

TrailRow == EngineRow \cup AnalystRow

\* The rows of the engine and of analysts in a trail, the one before a row and
\* the last one.
ByEngine(t) == {n \in DOMAIN t : t[n].event # "status_changed"}
ByAnalyst(t) == DOMAIN t \ ByEngine(t)
Previous(S, n) == {m \in S : m < n /\ \A k \in S : k < n => k <= m}
Final(S) == {m \in S : \A k \in S : k <= m}

\* TrailExplainsRow, of one trail and one row.
Explains(t, row) ==
  /\ \A n \in DOMAIN t : t[n].event = "opened" <=> n = 1
  /\ \A n \in ByEngine(t) : \A m \in Previous(ByEngine(t), n) :
       t[n].from = t[m].rev /\ t[m].rev < t[n].rev
  /\ \A n \in ByAnalyst(t) :
       IF Previous(ByAnalyst(t), n) = {} THEN t[n].was = "open"
       ELSE \A m \in Previous(ByAnalyst(t), n) : t[n].was = t[m].status
  /\ row # None =>
       /\ \A n \in Final(ByEngine(t)) : t[n].rev = row.rev
       /\ IF ByAnalyst(t) = {} THEN row.status = "open"
          ELSE \A n \in Final(ByAnalyst(t)) : t[n].status = row.status

\* The invariant of the trails, trail by trail.
LEMMA TrailMeans ==
  TrailExplainsRow <=> \A i \in Incidents : Explains(trail[i], incident[i])
BY DEF TrailExplainsRow, Explains, ByEngine, ByAnalyst, Previous, Final

\* A row that is appended becomes the last one of its kind; the last one there
\* was becomes the one before it.
LEMMA AppendedLast ==
  ASSUME NEW S \in SUBSET Nat, NEW N \in Nat, \A k \in S : k < N
  PROVE  /\ Final(S \cup {N}) = {N}
         /\ Previous(S \cup {N}, N) = Final(S)
         /\ \A n \in S : Previous(S \cup {N}, n) = Previous(S, n)
<1>0. \A k \in S : k \in Nat /\ k < N /\ k <= N /\ ~(N <= k)
  OBVIOUS
<1>1. Final(S \cup {N}) = {N}
  <2>1. N \in Final(S \cup {N})
    BY <1>0 DEF Final
  <2>2. ASSUME NEW m \in Final(S \cup {N}) PROVE m = N
    BY <1>0 DEF Final
  <2> QED BY <2>1, <2>2
<1>2. Previous(S \cup {N}, N) = Final(S)
  <2>1. ASSUME NEW m \in Final(S) PROVE m \in Previous(S \cup {N}, N)
    BY <1>0 DEF Previous, Final
  <2>2. ASSUME NEW m \in Previous(S \cup {N}, N) PROVE m \in Final(S)
    BY <1>0 DEF Previous, Final
  <2> QED BY <2>1, <2>2
<1>3. ASSUME NEW n \in S PROVE Previous(S \cup {N}, n) = Previous(S, n)
  BY DEF Previous
<1> QED BY <1>1, <1>2, <1>3

\* What an appended row does to the rows of the engine and of analysts.
LEMMA AppendedKinds ==
  ASSUME NEW t \in Seq(TrailRow), NEW r \in TrailRow
  PROVE  LET N == Len(t) + 1  u == Append(t, r) IN
         /\ N \in Nat /\ DOMAIN u = DOMAIN t \cup {N} /\ u[N] = r
         /\ \A n \in DOMAIN t : n \in Nat /\ n < N /\ u[n] = t[n]
         /\ ByEngine(t) \in SUBSET Nat /\ ByAnalyst(t) \in SUBSET Nat
         /\ r.event # "status_changed" =>
              ByEngine(u) = ByEngine(t) \cup {N} /\ ByAnalyst(u) = ByAnalyst(t)
         /\ r.event = "status_changed" =>
              ByEngine(u) = ByEngine(t) /\ ByAnalyst(u) = ByAnalyst(t) \cup {N}
<1> DEFINE N == Len(t) + 1
           u == Append(t, r)
<1>1. N \in Nat /\ DOMAIN t = 1..Len(t) /\ DOMAIN u = 1..N /\ u[N] = r
  OBVIOUS
<1>2. \A n \in DOMAIN t : n \in Nat /\ n < N /\ u[n] = t[n]
  OBVIOUS
<1>3. DOMAIN u = DOMAIN t \cup {N} /\ N \notin DOMAIN t
  BY <1>1
<1>4. DOMAIN t \in SUBSET Nat
  BY <1>1
<1> HIDE DEF N, u
<1>5. r.event # "status_changed" =>
        ByEngine(u) = ByEngine(t) \cup {N} /\ ByAnalyst(u) = ByAnalyst(t)
  BY <1>1, <1>2, <1>3 DEF ByEngine, ByAnalyst
<1>6. r.event = "status_changed" =>
        ByEngine(u) = ByEngine(t) /\ ByAnalyst(u) = ByAnalyst(t) \cup {N}
  BY <1>1, <1>2, <1>3 DEF ByEngine, ByAnalyst
<1> QED BY <1>1, <1>2, <1>3, <1>4, <1>5, <1>6 DEF N, u, ByEngine, ByAnalyst

\* An opening explains the row it opens.
LEMMA OpeningExplains ==
  ASSUME NEW x \in Revisions, NEW row, row # None, row.rev = x, row.status = "open"
  PROVE  Explains(Append(<<>>, [event |-> "opened", from |-> 0, rev |-> x]), row)
<1> DEFINE u == Append(<<>>, [event |-> "opened", from |-> 0, rev |-> x])
<1>1. DOMAIN u = {1} /\ u[1] = [event |-> "opened", from |-> 0, rev |-> x]
  OBVIOUS
<1> HIDE DEF u
<1>2. ByEngine(u) = {1} /\ ByAnalyst(u) = {}
  BY <1>1 DEF ByEngine, ByAnalyst
<1>3. Previous(ByEngine(u), 1) = {} /\ Final(ByEngine(u)) \subseteq {1}
  BY <1>2 DEF Previous, Final
<1> QED BY <1>1, <1>2, <1>3 DEF Explains, u

\* A revision that is taken goes on from the row's, and keeps its status.
LEMMA RevisionExplains ==
  ASSUME NEW t \in Seq(TrailRow), t # <<>>, NEW old, old # None, Explains(t, old),
         old.rev \in Nat, NEW x \in Revisions, x > old.rev,
         NEW row, row.rev = x, row.status = old.status
  PROVE  Explains(Append(t, [event |-> "revised", from |-> old.rev, rev |-> x]), row)
<1> DEFINE r == [event |-> "revised", from |-> old.rev, rev |-> x]
           N == Len(t) + 1
           u == Append(t, r)
           E == ByEngine(t)
           A == ByAnalyst(t)
<1>0. r \in TrailRow /\ r.event = "revised" /\ r.from = old.rev /\ r.rev = x /\ x \in Nat
  BY IncidentsAssumption DEF TrailRow, EngineRow
<1>1. /\ N \in Nat /\ DOMAIN u = DOMAIN t \cup {N} /\ u[N] = r
      /\ \A n \in DOMAIN t : n \in Nat /\ n < N /\ u[n] = t[n]
      /\ E \in SUBSET Nat /\ ByEngine(u) = E \cup {N} /\ ByAnalyst(u) = A
  BY <1>0, AppendedKinds
<1>2. N # 1
  OBVIOUS
<1>3. E \subseteq DOMAIN t /\ A \subseteq DOMAIN t
  BY DEF ByEngine, ByAnalyst
<1> HIDE DEF r, N, u, E, A
<1>4. /\ Final(E \cup {N}) = {N}
      /\ Previous(E \cup {N}, N) = Final(E)
      /\ \A n \in E : Previous(E \cup {N}, n) = Previous(E, n)
  BY <1>1, <1>3, AppendedLast
<1>5. \A n \in DOMAIN u : u[n].event = "opened" <=> n = 1
  BY <1>0, <1>1, <1>2 DEF Explains
<1>6. \A n \in E \cup {N} : \A m \in Previous(E \cup {N}, n) :
        u[n].from = u[m].rev /\ u[m].rev < u[n].rev
  <2>1. ASSUME NEW m \in Final(E) PROVE r.from = u[m].rev /\ u[m].rev < r.rev
    <3>1. m \in E /\ t[m].rev = old.rev
      BY <2>1 DEF Explains, Final, E
    <3> QED BY <3>1, <1>0, <1>1, <1>3
  <2>2. ASSUME NEW n \in E, NEW m \in Previous(E, n)
        PROVE  u[n].from = u[m].rev /\ u[m].rev < u[n].rev
    <3>1. m \in E /\ t[n].from = t[m].rev /\ t[m].rev < t[n].rev
      BY <2>2 DEF Explains, Previous, E
    <3> QED BY <3>1, <1>1, <1>3
  <2> QED BY <2>1, <2>2, <1>1, <1>4
<1>7. \A n \in A : IF Previous(A, n) = {} THEN u[n].was = "open"
                   ELSE \A m \in Previous(A, n) : u[n].was = u[m].status
  <2>1. \A n \in A : Previous(A, n) \subseteq A
    BY DEF Previous
  <2>2. \A n \in A : IF Previous(A, n) = {} THEN t[n].was = "open"
                     ELSE \A m \in Previous(A, n) : t[n].was = t[m].status
    BY DEF Explains, A
  <2> QED BY <2>1, <2>2, <1>1, <1>3
<1>8. \A n \in Final(E \cup {N}) : u[n].rev = row.rev
  BY <1>0, <1>1, <1>4
<1>9. IF A = {} THEN row.status = "open" ELSE \A n \in Final(A) : u[n].status = row.status
  <2>1. Final(A) \subseteq A
    BY DEF Final
  <2>2. IF A = {} THEN old.status = "open" ELSE \A n \in Final(A) : t[n].status = old.status
    BY DEF Explains, A
  <2> QED BY <2>1, <2>2, <1>1, <1>3
<1> QED BY <1>1, <1>5, <1>6, <1>7, <1>8, <1>9 DEF Explains, u, r

\* A change of status goes on from the row's, and keeps its revision.
LEMMA StatusExplains ==
  ASSUME NEW t \in Seq(TrailRow), t # <<>>, NEW old, old # None, Explains(t, old),
         old.status \in Statuses, NEW status \in Statuses,
         NEW row, row.rev = old.rev, row.status = status
  PROVE  Explains(Append(t, [event |-> "status_changed", was |-> old.status,
                             status |-> status]), row)
<1> DEFINE r == [event |-> "status_changed", was |-> old.status, status |-> status]
           N == Len(t) + 1
           u == Append(t, r)
           E == ByEngine(t)
           A == ByAnalyst(t)
<1>0. r \in TrailRow /\ r.event = "status_changed" /\ r.was = old.status /\ r.status = status
  BY DEF TrailRow, AnalystRow
<1>1. /\ N \in Nat /\ DOMAIN u = DOMAIN t \cup {N} /\ u[N] = r
      /\ \A n \in DOMAIN t : n \in Nat /\ n < N /\ u[n] = t[n]
      /\ A \in SUBSET Nat /\ ByEngine(u) = E /\ ByAnalyst(u) = A \cup {N}
  BY <1>0, AppendedKinds
<1>2. N # 1
  OBVIOUS
<1>3. E \subseteq DOMAIN t /\ A \subseteq DOMAIN t /\ A \in SUBSET (1..Len(t)) /\ Len(t) \in Nat
  BY DEF ByEngine, ByAnalyst
<1> HIDE DEF r, N, u, E, A
<1>4. /\ Final(A \cup {N}) = {N}
      /\ Previous(A \cup {N}, N) = Final(A)
      /\ \A n \in A : Previous(A \cup {N}, n) = Previous(A, n)
  BY <1>1, <1>3, AppendedLast
<1>5. \A n \in DOMAIN u : u[n].event = "opened" <=> n = 1
  BY <1>0, <1>1, <1>2 DEF Explains
<1>6. \A n \in E : \A m \in Previous(E, n) : u[n].from = u[m].rev /\ u[m].rev < u[n].rev
  <2>1. \A n \in E : Previous(E, n) \subseteq E
    BY DEF Previous
  <2>2. \A n \in E : \A m \in Previous(E, n) : t[n].from = t[m].rev /\ t[m].rev < t[n].rev
    BY DEF Explains, E
  <2> QED BY <2>1, <2>2, <1>1, <1>3
<1>7. \A n \in A \cup {N} :
        IF Previous(A \cup {N}, n) = {} THEN u[n].was = "open"
        ELSE \A m \in Previous(A \cup {N}, n) : u[n].was = u[m].status
  <2>1. ASSUME NEW n \in A
        PROVE  IF Previous(A, n) = {} THEN u[n].was = "open"
               ELSE \A m \in Previous(A, n) : u[n].was = u[m].status
    <3>1. Previous(A, n) \subseteq A
      BY DEF Previous
    <3>2. IF Previous(A, n) = {} THEN t[n].was = "open"
          ELSE \A m \in Previous(A, n) : t[n].was = t[m].status
      BY DEF Explains, A
    <3> QED BY <3>1, <3>2, <1>1, <1>3
  <2>2. Final(A) = {} => r.was = "open"
    <3>1. A # {} => Final(A) # {}
      BY <1>3, GreatestExists DEF Final
    <3>2. A = {} => old.status = "open"
      BY DEF Explains, A
    <3> QED BY <3>1, <3>2, <1>0
  <2>3. \A m \in Final(A) : r.was = u[m].status
    <3>1. \A m \in Final(A) : m \in A /\ t[m].status = old.status
      BY DEF Explains, A, Final
    <3> QED BY <3>1, <1>0, <1>1, <1>3
  <2> QED BY <2>1, <2>2, <2>3, <1>1, <1>4
<1>8. \A n \in Final(E) : u[n].rev = row.rev
  <2>1. \A n \in Final(E) : n \in E /\ t[n].rev = old.rev
    BY DEF Explains, E, Final
  <2> QED BY <2>1, <1>1, <1>3
<1>9. \A n \in Final(A \cup {N}) : u[n].status = row.status
  BY <1>0, <1>1, <1>4
<1>10. ByAnalyst(u) # {}
  BY <1>1
<1>11. Explains(u, row)
  BY <1>1, <1>5, <1>6, <1>7, <1>8, <1>9, <1>10 DEF Explains
<1> QED BY <1>11 DEF u, r

----------------------------------------------------------------------------
(* The inductive invariant and its preservation.                           *)

\* The types of the tables, with trails as sequences.
IncidentsTyped ==
  /\ held \subseteq AlertIds
  /\ incident \in [Incidents -> IncidentRow \cup {None}]
  /\ member \subseteq Incidents \X AlertIds
  /\ trail \in [Incidents -> Seq(TrailRow)]
  /\ folded \subseteq Reports

\* WindowIsMerged, of one incident: M are its reports, t its trail.
Covers(M, t, row) ==
  \A n \in DOMAIN t : t[n].event # "status_changed" =>
    \E y \in M : y.rev = t[n].rev /\ row.first <= y.first /\ y.last <= row.last

Spans(M, row) == \E y, z \in M : y.first = row.first /\ z.last = row.last

LEMMA WindowMeans ==
  WindowIsMerged <=>
    \A i \in Incidents :
      /\ Covers({y \in folded : y.incident = i}, trail[i], incident[i])
      /\ incident[i] # None => Spans({y \in folded : y.incident = i}, incident[i])
BY DEF WindowIsMerged, Covers, Spans

\* A window that reaches over another covers what that one covered, for more
\* reports too.
LEMMA CoversMore ==
  ASSUME NEW M \in SUBSET Reports, NEW N \in SUBSET Reports, M \subseteq N,
         NEW t, NEW r \in IncidentRow, NEW s \in IncidentRow,
         Covers(M, t, r), s.first <= r.first, r.last <= s.last
  PROVE  Covers(N, t, s)
<1>1. \A y \in M : y.first \in Nat /\ y.last \in Nat
  BY IncidentsAssumption
<1>2. r.first \in Nat /\ r.last \in Nat /\ s.first \in Nat /\ s.last \in Nat
  BY DEF IncidentRow
<1>3. ASSUME NEW n \in DOMAIN t, t[n].event # "status_changed"
      PROVE  \E y \in N : y.rev = t[n].rev /\ s.first <= y.first /\ y.last <= s.last
  <2>1. PICK y \in M : y.rev = t[n].rev /\ r.first <= y.first /\ y.last <= r.last
    BY <1>3 DEF Covers
  <2>2. s.first <= y.first /\ y.last <= s.last
    BY <1>1, <1>2, <2>1
  <2> QED BY <2>1, <2>2
<1> QED BY <1>3 DEF Covers

\* A trail that grows by a row is covered if the row is.
LEMMA CoversAppended ==
  ASSUME NEW M, NEW t \in Seq(TrailRow), NEW row, NEW u \in TrailRow, Covers(M, t, row),
         u.event # "status_changed" =>
           \E y \in M : y.rev = u.rev /\ row.first <= y.first /\ y.last <= row.last
  PROVE  Covers(M, Append(t, u), row)
<1>1. PICK v : v = Append(t, u)
  OBVIOUS
<1>2. /\ DOMAIN t = 1..Len(t) /\ DOMAIN v = 1..(Len(t) + 1) /\ Len(t) \in Nat
      /\ v[Len(t) + 1] = u /\ \A n \in 1..Len(t) : v[n] = t[n]
  BY <1>1, AppendProperties, LenProperties
<1>3. \A n \in DOMAIN v : n \in DOMAIN t \/ n = Len(t) + 1
  BY <1>2
<1>4. Covers(M, v, row)
  BY <1>2, <1>3 DEF Covers
<1> QED BY <1>1, <1>4

\* A row and its trail begin together.
OpenedTogether == \A i \in Incidents : incident[i] = None <=> trail[i] = <<>>

IncidentsInv ==
  /\ IncidentsTyped
  /\ OpenedTogether
  /\ SummaryIsNewest
  /\ WindowIsMerged
  /\ TrailExplainsRow
  /\ LinksAreJustified

\* The invariant has what the model checker is asked.
LEMMA IncidentsInvImplies == IncidentsInv => IncidentsAddUp
<1> SUFFICES ASSUME IncidentsInv PROVE IncidentsAddUp
  OBVIOUS
<1>1. \A i \in Incidents : trail[i] \in Seq(TrailRow)
  BY DEF IncidentsInv, IncidentsTyped
<1>2. \A i \in Incidents : \A n \in 1..Len(trail[i]) :
         trail[i][n] \in EngineRow \/ trail[i][n] \in AnalystRow
  BY <1>1 DEF TrailRow
<1>3. IncidentsTypeOK
  BY <1>2 DEF IncidentsInv, IncidentsTyped, IncidentsTypeOK
<1> QED BY <1>3 DEF IncidentsInv, IncidentsAddUp

\* Nothing is on file at first.
LEMMA IncidentsInitInv == IncidentsInit => IncidentsInv
<1> SUFFICES ASSUME IncidentsInit PROVE IncidentsInv
  OBVIOUS
<1>1. \A i \in Incidents : incident[i] = None /\ trail[i] = <<>>
  BY DEF IncidentsInit
<1>2. IncidentsTyped
  BY DEF IncidentsInit, IncidentsTyped
<1>3. OpenedTogether
  BY <1>1 DEF OpenedTogether
<1>4. SummaryIsNewest /\ WindowIsMerged
  BY <1>1 DEF IncidentsInit, SummaryIsNewest, WindowIsMerged
<1>5. TrailExplainsRow
  <2>1. Explains(<<>>, None)
    BY DEF Explains, ByEngine, ByAnalyst
  <2> QED BY <1>1, <2>1, TrailMeans
<1>6. LinksAreJustified
  BY DEF IncidentsInit, LinksAreJustified
<1> QED BY <1>2, <1>3, <1>4, <1>5, <1>6 DEF IncidentsInv

\* A report of the engine: it opens, revises or is older than the row.
LEMMA ReportKeepsInv ==
  ASSUME IncidentsInv, NEW x \in Reports, EmitReport(x)
  PROVE  IncidentsInv'
<1> DEFINE i == x.incident
           old == incident[i]
           row == [rev |-> x.rev, latest |-> IdOf(x), status |-> "open",
                   first |-> x.first, last |-> x.last]
           next == Merged(old, row)
           mine == {y \in folded : y.incident = i}
           more == {y \in folded' : y.incident = i}
<1>1. /\ i \in Incidents /\ x.rev \in Revisions /\ x.rev \in Nat
      /\ x.stages \subseteq RuleAlerts /\ x.first \in Nat /\ x.last \in Nat
      /\ IdOf(x) = <<i, x.rev>> /\ IdOf(x) \in Incidents \X Revisions
      /\ Reports \subseteq [incident: Incidents, rev: Revisions,
                            stages: SUBSET RuleAlerts, first: Nat, last: Nat]
  BY IncidentsAssumption DEF IdOf
<1>2. /\ IncidentsTyped /\ OpenedTogether /\ SummaryIsNewest /\ LinksAreJustified
      /\ \A j \in Incidents : Explains(trail[j], incident[j])
      /\ \A j \in Incidents :
           /\ Covers({y \in folded : y.incident = j}, trail[j], incident[j])
           /\ incident[j] # None => Spans({y \in folded : y.incident = j}, incident[j])
  BY TrailMeans, WindowMeans DEF IncidentsInv
<1>3. /\ held' = held \cup {IdOf(x)}
      /\ folded' = folded \cup {x}
      /\ member' = member \cup {<<i, id>> : id \in {IdOf(x)} \cup (x.stages \cap held)}
  BY DEF EmitReport
<1>4. /\ held' \subseteq AlertIds /\ folded' \subseteq Reports
      /\ member' \subseteq Incidents \X AlertIds
  BY <1>1, <1>2, <1>3 DEF IncidentsTyped, AlertIds
<1>5. LinksAreJustified'
  <2>1. ASSUME NEW l \in member'
        PROVE  /\ l[2] \in held'
               /\ \E y \in folded' : y.incident = l[1] /\ (l[2] = IdOf(y) \/ l[2] \in y.stages)
    <3>1. CASE l \in member
      BY <3>1, <1>2, <1>3 DEF LinksAreJustified
    <3>2. CASE \E id \in {IdOf(x)} \cup (x.stages \cap held) : l = <<i, id>>
      BY <3>2, <1>3
    <3> QED BY <3>1, <3>2, <1>3
  <2> QED BY <2>1 DEF LinksAreJustified, IdOf
<1>6. old \in IncidentRow \cup {None} /\ trail[i] \in Seq(TrailRow)
  BY <1>1, <1>2 DEF IncidentsTyped
<1>7. row \in IncidentRow /\ "open" \in Statuses /\ None \notin IncidentRow
  BY <1>1, IncidentsAssumption DEF IncidentRow
\* It is enough that the row and the trail of this incident fit together.
<1>8. ASSUME NEW r \in IncidentRow, NEW t \in Seq(TrailRow), t # <<>>,
             incident' = [incident EXCEPT ![i] = r], trail' = [trail EXCEPT ![i] = t],
             Explains(t, r),
             r.latest = <<i, r.rev>>,
             Covers(more, t, r), Spans(more, r),
             \E y \in folded' : y.incident = i /\ y.rev = r.rev,
             \A y \in folded' : y.incident = i => y.rev <= r.rev
      PROVE  IncidentsInv'
  <2>1. /\ incident' \in [Incidents -> IncidentRow \cup {None}]
        /\ trail' \in [Incidents -> Seq(TrailRow)]
        /\ incident'[i] = r /\ trail'[i] = t /\ r # None
        /\ \A j \in Incidents : j # i => incident'[j] = incident[j] /\ trail'[j] = trail[j]
    BY <1>1, <1>2, <1>7, <1>8 DEF IncidentsTyped
  <2>2. IncidentsTyped'
    BY <1>4, <2>1 DEF IncidentsTyped
  <2>3. OpenedTogether'
    BY <1>2, <1>8, <2>1 DEF OpenedTogether
  <2>4. \A j \in Incidents : Explains(trail'[j], incident'[j])
    BY <1>2, <1>8, <2>1
  <2>5. TrailExplainsRow'
    BY <2>4 DEF TrailExplainsRow, Explains, ByEngine, ByAnalyst, Previous, Final
  <2>6. ASSUME NEW j \in Incidents
        PROVE  LET own == {y \in folded' : y.incident = j} IN
                 /\ incident'[j] = None <=> own = {}
                 /\ incident'[j] # None =>
                      /\ incident'[j].latest = <<j, incident'[j].rev>>
                      /\ \E y \in own : y.rev = incident'[j].rev
                      /\ \A y \in own : y.rev <= incident'[j].rev
    <3>1. CASE j = i
      <4>1. incident'[j] = r /\ r # None
        BY <3>1, <2>1
      <4>2. \E y \in {z \in folded' : z.incident = j} : y.rev = r.rev
        BY <3>1, <1>8
      <4>3. \A y \in {z \in folded' : z.incident = j} : y.rev <= r.rev
        BY <3>1, <1>8
      <4>4. r.latest = <<j, r.rev>>
        BY <3>1, <1>8
      <4> QED BY <4>1, <4>2, <4>3, <4>4
    <3>2. CASE j # i
      <4>1. {y \in folded' : y.incident = j} = {y \in folded : y.incident = j}
        BY <3>2, <1>3
      <4>2. incident'[j] = incident[j]
        BY <3>2, <2>1
      <4>3. LET own == {y \in folded : y.incident = j} IN
              /\ incident[j] = None <=> own = {}
              /\ incident[j] # None =>
                   /\ incident[j].latest = <<j, incident[j].rev>>
                   /\ \E y \in own : y.rev = incident[j].rev
                   /\ \A y \in own : y.rev <= incident[j].rev
        BY <1>2 DEF SummaryIsNewest
      <4> QED BY <4>1, <4>2, <4>3
    <3> QED BY <3>1, <3>2
  <2>7. SummaryIsNewest'
    BY <2>6 DEF SummaryIsNewest
  <2>8. WindowIsMerged'
    <3>1. ASSUME NEW j \in Incidents
          PROVE  /\ Covers({y \in folded' : y.incident = j}, trail'[j], incident'[j])
                 /\ incident'[j] # None => Spans({y \in folded' : y.incident = j}, incident'[j])
      <4>1. CASE j = i
        BY <1>8, <2>1, <4>1
      <4>2. CASE j # i
        <5>1. {y \in folded' : y.incident = j} = {y \in folded : y.incident = j}
          BY <4>2, <1>3
        <5> QED BY <1>2, <2>1, <4>2, <5>1
      <4> QED BY <4>1, <4>2
    <3> QED BY <3>1 DEF WindowIsMerged, Covers, Spans
  <2> QED BY <1>5, <2>2, <2>3, <2>5, <2>7, <2>8 DEF IncidentsInv
<1>9. CASE /\ old = None
           /\ incident' = [incident EXCEPT ![i] = row]
           /\ trail' = [trail EXCEPT ![i] =
                Append(@, [event |-> "opened", from |-> 0, rev |-> x.rev])]
  <2> DEFINE t == Append(<<>>, [event |-> "opened", from |-> 0, rev |-> x.rev])
  <2>1. trail[i] = <<>> /\ \A y \in folded : y.incident # i
    BY <1>1, <1>2, <1>9 DEF OpenedTogether, SummaryIsNewest
  <2>2. trail' = [trail EXCEPT ![i] = t]
    BY <1>1, <1>2, <1>9, <2>1 DEF IncidentsTyped
  <2>3. [event |-> "opened", from |-> 0, rev |-> x.rev] \in TrailRow
    BY <1>1 DEF TrailRow, EngineRow
  <2>4. t \in Seq(TrailRow) /\ t # <<>>
    BY <2>3
  <2>5. row.rev = x.rev /\ row.status = "open" /\ row # None /\ row.latest = <<i, row.rev>>
        /\ row.first = x.first /\ row.last = x.last
    BY <1>1, <1>7
  <2> HIDE DEF row
  <2>6. Explains(t, row)
    BY <1>1, <2>5, OpeningExplains
  <2>7. \E y \in folded' : y.incident = i /\ y.rev = row.rev
    BY <1>1, <1>3, <2>5
  <2>9. x \in more /\ Spans(more, row)
    BY <1>1, <1>3, <2>5 DEF Spans
  <2>10. Covers(more, t, row)
    <3>1. Covers(more, <<>>, row) /\ <<>> \in Seq(TrailRow)
      BY DEF Covers
    <3>2. PICK u : u = [event |-> "opened", from |-> 0, rev |-> x.rev]
      OBVIOUS
    <3>3. u \in TrailRow /\ u.rev = x.rev
      BY <2>3, <3>2
    <3>4. \E y \in more : y.rev = u.rev /\ row.first <= y.first /\ y.last <= row.last
      BY <1>1, <2>5, <2>9, <3>3
    <3> HIDE DEF more
    <3> QED BY <3>1, <3>2, <3>3, <3>4, CoversAppended
  <2>8. \A y \in folded' : y.incident = i => y.rev <= row.rev
    BY <1>1, <1>3, <2>1, <2>5
  <2> HIDE DEF t
  <2> QED BY <1>7, <1>8, <1>9, <2>2, <2>4, <2>5, <2>6, <2>7, <2>8, <2>9, <2>10
<1>10. CASE /\ old # None /\ x.rev > old.rev
            /\ incident' = [incident EXCEPT ![i] = next]
            /\ trail' = [trail EXCEPT ![i] =
                 Append(@, [event |-> "revised", from |-> old.rev, rev |-> x.rev])]
  <2> DEFINE r == [event |-> "revised", from |-> old.rev, rev |-> x.rev]
             t == Append(trail[i], r)
  <2>1. /\ old \in IncidentRow /\ old.rev \in Nat /\ old.status \in Statuses
        /\ old.first \in Nat /\ old.last \in Nat
    BY <1>6, <1>10, IncidentsAssumption DEF IncidentRow
  <2>2. trail' = [trail EXCEPT ![i] = t]
    BY <1>1, <1>2, <1>10 DEF IncidentsTyped
  <2>3. r \in TrailRow
    BY <1>1, <2>1 DEF TrailRow, EngineRow
  <2>4. t \in Seq(TrailRow) /\ t # <<>>
    <3> HIDE DEF r, old, i
    <3> QED BY <1>6, <2>3, AppendProperties
  <2>5. /\ next \in IncidentRow
        /\ next.rev = x.rev /\ next.status = old.status /\ next.latest = <<i, next.rev>>
        /\ next.first <= x.first /\ x.last <= next.last
        /\ next.first <= old.first /\ old.last <= next.last
        /\ next.first \in {x.first, old.first} /\ next.last \in {x.last, old.last}
    <3> DEFINE f == IF old.first < x.first THEN old.first ELSE x.first
               l == IF old.last > x.last THEN old.last ELSE x.last
    <3>1. /\ row.rev = x.rev /\ row.latest = <<i, x.rev>>
          /\ row.first = x.first /\ row.last = x.last
      BY <1>1
    <3>2. /\ f \in Nat /\ l \in Nat /\ f <= x.first /\ x.last <= l
          /\ f <= old.first /\ old.last <= l /\ f \in {x.first, old.first} /\ l \in {x.last, old.last}
      BY <1>1, <2>1
    <3> HIDE DEF row, old
    <3>3. next = [row EXCEPT !.status = old.status, !.first = f, !.last = l]
      BY <3>1 DEF Merged
    <3> HIDE DEF next, f, l
    <3>4. next \in IncidentRow
      BY <1>7, <2>1, <3>2, <3>3 DEF IncidentRow
    <3>5. /\ next.rev = row.rev /\ next.latest = row.latest /\ next.status = old.status
          /\ next.first = f /\ next.last = l
      BY <1>7, <3>3 DEF IncidentRow
    <3> QED BY <3>1, <3>2, <3>4, <3>5
  <2> HIDE DEF next
  <2>6. Explains(t, next)
    <3>1. trail[i] # <<>> /\ Explains(trail[i], old)
      BY <1>1, <1>2, <1>10 DEF OpenedTogether
    <3> QED BY <1>1, <1>6, <1>10, <2>1, <2>5, <3>1, RevisionExplains
  <2>7. \E y \in folded' : y.incident = i /\ y.rev = next.rev
    BY <1>1, <1>3, <2>5
  <2>8. ASSUME NEW y \in folded', y.incident = i PROVE y.rev <= next.rev
    <3>1. CASE y = x
      BY <3>1, <1>1, <2>5
    <3>2. CASE y \in folded
      <4>1. y.rev \in Nat /\ y.rev <= old.rev
        BY <3>2, <2>8, <1>1, <1>2, <1>10, IncidentsAssumption
        DEF SummaryIsNewest, IncidentsTyped
      <4> QED BY <4>1, <1>1, <1>10, <2>1, <2>5
    <3> QED BY <3>1, <3>2, <1>3
  <2>9. /\ x \in more /\ mine \subseteq more /\ mine \in SUBSET Reports
        /\ more \in SUBSET Reports
        /\ Covers(mine, trail[i], old) /\ Spans(mine, old)
    BY <1>1, <1>2, <1>3, <1>4, <1>10 DEF IncidentsTyped
  <2>10. Spans(more, next)
    BY <2>5, <2>9 DEF Spans
  <2>11. Covers(more, t, next)
    <3> HIDE DEF more, mine, old, i, row
    <3>1. Covers(more, trail[i], next)
      BY <2>1, <2>5, <2>9, CoversMore
    <3>2. r.rev = x.rev
      OBVIOUS
    <3>3. \E y \in more : y.rev = r.rev /\ next.first <= y.first /\ y.last <= next.last
      BY <2>5, <2>9, <3>2
    <3> HIDE DEF r
    <3> QED BY <1>6, <2>3, <3>1, <3>3, CoversAppended
  <2> HIDE DEF t
  <2> QED BY <1>8, <1>10, <2>2, <2>4, <2>5, <2>6, <2>7, <2>8, <2>10, <2>11
<1>11. CASE old # None /\ x.rev <= old.rev /\ UNCHANGED <<incident, trail>>
  <2>1. IncidentsTyped' /\ OpenedTogether' /\ TrailExplainsRow'
    <3>1. IncidentsTyped' /\ OpenedTogether'
      BY <1>2, <1>4, <1>11 DEF IncidentsTyped, OpenedTogether
    <3>2. TrailExplainsRow
      BY DEF IncidentsInv
    <3>3. TrailExplainsRow'
      BY <3>2, <1>11 DEF TrailExplainsRow
    <3> QED BY <3>1, <3>3
  <2>2. ASSUME NEW j \in Incidents
        PROVE  LET own == {y \in folded' : y.incident = j} IN
                 /\ incident[j] = None <=> own = {}
                 /\ incident[j] # None =>
                      /\ incident[j].latest = <<j, incident[j].rev>>
                      /\ \E y \in own : y.rev = incident[j].rev
                      /\ \A y \in own : y.rev <= incident[j].rev
    <3>1. CASE j = i
      BY <3>1, <1>1, <1>2, <1>3, <1>11 DEF SummaryIsNewest
    <3>2. CASE j # i
      <4>1. {y \in folded' : y.incident = j} = {y \in folded : y.incident = j}
        BY <3>2, <1>3
      <4> QED BY <4>1, <1>2 DEF SummaryIsNewest
    <3> QED BY <3>1, <3>2
  <2>3. SummaryIsNewest'
    BY <2>2, <1>11 DEF SummaryIsNewest
  <2>4. WindowIsMerged'
    <3>1. WindowIsMerged /\ folded \subseteq folded'
      BY <1>3 DEF IncidentsInv
    <3> QED BY <3>1, <1>11 DEF WindowIsMerged
  <2> QED BY <1>5, <2>1, <2>3, <2>4 DEF IncidentsInv
<1> QED BY <1>9, <1>10, <1>11 DEF EmitReport

\* A decision of an analyst on an incident that is open.
LEMMA StatusKeepsInv ==
  ASSUME IncidentsInv, NEW i \in Incidents, NEW status \in Statuses, SetStatus(i, status)
  PROVE  IncidentsInv'
<1> DEFINE old == incident[i]
           row == [old EXCEPT !.status = status]
           r == [event |-> "status_changed", was |-> old.status, status |-> status]
           t == Append(trail[i], r)
<1>1. /\ IncidentsTyped /\ OpenedTogether /\ SummaryIsNewest /\ LinksAreJustified
      /\ \A j \in Incidents : Explains(trail[j], incident[j])
  BY TrailMeans DEF IncidentsInv
<1>2. /\ old \in IncidentRow /\ old # None /\ trail[i] \in Seq(TrailRow)
      /\ trail[i] # <<>> /\ Explains(trail[i], old)
  BY <1>1 DEF IncidentsTyped, OpenedTogether, SetStatus
<1>3. /\ row \in IncidentRow /\ row # None
      /\ row.rev = old.rev /\ row.latest = old.latest /\ row.first = old.first
      /\ row.last = old.last /\ row.status = status /\ old.status \in Statuses
  BY <1>2, IncidentsAssumption DEF IncidentRow
<1>4. r \in TrailRow
  BY <1>3 DEF TrailRow, AnalystRow
<1>5. t \in Seq(TrailRow) /\ t # <<>>
  BY <1>2, <1>4
<1>6. Explains(t, row)
  <2> HIDE DEF row
  <2> QED BY <1>2, <1>3, StatusExplains
<1>7. /\ incident' = [incident EXCEPT ![i] = row] /\ trail' = [trail EXCEPT ![i] = t]
      /\ UNCHANGED <<held, member, folded>>
  BY <1>1 DEF SetStatus, IncidentsTyped
<1> HIDE DEF row, t, r
<1>8. /\ incident' \in [Incidents -> IncidentRow \cup {None}]
      /\ trail' \in [Incidents -> Seq(TrailRow)]
      /\ incident'[i] = row /\ trail'[i] = t
      /\ \A j \in Incidents : j # i => incident'[j] = incident[j] /\ trail'[j] = trail[j]
  BY <1>1, <1>3, <1>5, <1>7 DEF IncidentsTyped
<1>9. IncidentsTyped'
  BY <1>1, <1>7, <1>8 DEF IncidentsTyped
<1>10. OpenedTogether'
  BY <1>1, <1>3, <1>5, <1>8 DEF OpenedTogether
<1>11. \A j \in Incidents : Explains(trail'[j], incident'[j])
  BY <1>1, <1>6, <1>8
<1>12. TrailExplainsRow'
  BY <1>11 DEF TrailExplainsRow, Explains, ByEngine, ByAnalyst, Previous, Final
<1>13. SummaryIsNewest'
  <2>1. ASSUME NEW j \in Incidents
        PROVE  /\ incident'[j] = None <=> incident[j] = None
               /\ incident[j] # None =>
                    /\ incident'[j].rev = incident[j].rev
                    /\ incident'[j].latest = incident[j].latest
                    /\ incident'[j].first = incident[j].first
                    /\ incident'[j].last = incident[j].last
    BY <1>2, <1>3, <1>8
  <2> QED BY <2>1, <1>1, <1>7 DEF SummaryIsNewest
<1>14. LinksAreJustified'
  BY <1>1, <1>7 DEF LinksAreJustified, IdOf
<1>15. WindowIsMerged'
  <2>1. \A j \in Incidents :
           /\ Covers({y \in folded : y.incident = j}, trail[j], incident[j])
           /\ incident[j] # None => Spans({y \in folded : y.incident = j}, incident[j])
    BY WindowMeans DEF IncidentsInv
  <2>2. PICK mine : mine = {y \in folded : y.incident = i}
    OBVIOUS
  <2>3. Covers(mine, trail[i], row) /\ Spans(mine, row)
    <3>1. Covers(mine, trail[i], old) /\ Spans(mine, old)
      BY <1>2, <2>1, <2>2
    <3> QED BY <1>3, <3>1 DEF Covers, Spans
  <2>4. Covers(mine, t, row)
    <3>1. r.event = "status_changed"
      BY DEF r
    <3>2. t = Append(trail[i], r)
      BY DEF t
    <3> QED BY <1>2, <1>4, <2>3, <3>1, <3>2, CoversAppended
  <2>5. ASSUME NEW j \in Incidents
        PROVE  /\ Covers({y \in folded' : y.incident = j}, trail'[j], incident'[j])
               /\ incident'[j] # None => Spans({y \in folded' : y.incident = j}, incident'[j])
    BY <1>7, <1>8, <2>1, <2>2, <2>3, <2>4
  <2> QED BY <2>5 DEF WindowIsMerged, Covers, Spans
<1> QED BY <1>9, <1>10, <1>12, <1>13, <1>14, <1>15 DEF IncidentsInv

\* Every step keeps the inductive invariant.
LEMMA IncidentsStepInv == IncidentsInv /\ [IncidentsNext]_incidentVars => IncidentsInv'
<1> SUFFICES ASSUME IncidentsInv, [IncidentsNext]_incidentVars PROVE IncidentsInv'
  OBVIOUS
<1>1. ASSUME NEW id \in RuleAlerts, EmitRule(id) PROVE IncidentsInv'
  <2>1. /\ held \subseteq held' /\ held' \subseteq AlertIds
        /\ UNCHANGED <<incident, member, trail, folded>>
    BY <1>1 DEF EmitRule, IncidentsInv, IncidentsTyped, AlertIds
  <2>2. IncidentsTyped' /\ OpenedTogether'
    BY <2>1 DEF IncidentsInv, IncidentsTyped, OpenedTogether
  <2>3. SummaryIsNewest' /\ WindowIsMerged' /\ TrailExplainsRow'
    BY <2>1 DEF IncidentsInv, SummaryIsNewest, WindowIsMerged, TrailExplainsRow
  <2>4. LinksAreJustified'
    BY <2>1 DEF IncidentsInv, LinksAreJustified, IdOf
  <2> QED BY <2>2, <2>3, <2>4 DEF IncidentsInv
<1>2. CASE UNCHANGED incidentVars
  <2>1. UNCHANGED <<held, incident, member, trail, folded>>
    BY <1>2 DEF incidentVars
  <2>2. IncidentsTyped' /\ OpenedTogether'
    BY <2>1 DEF IncidentsInv, IncidentsTyped, OpenedTogether
  <2>3. SummaryIsNewest' /\ WindowIsMerged' /\ TrailExplainsRow'
    BY <2>1 DEF IncidentsInv, SummaryIsNewest, WindowIsMerged, TrailExplainsRow
  <2>4. LinksAreJustified'
    BY <2>1 DEF IncidentsInv, LinksAreJustified, IdOf
  <2> QED BY <2>2, <2>3, <2>4 DEF IncidentsInv
<1> QED BY <1>1, <1>2, ReportKeepsInv, StatusKeepsInv DEF IncidentsNext

\* The summary of an incident is that of its newest report, its trail explains
\* it and its links are justified, whatever order reports and decisions come in
\* (upsert_incident, update_status).
THEOREM IncidentsAlwaysAddUp == IncidentsSpec => []IncidentsAddUp
BY IncidentsInitInv, IncidentsStepInv, IncidentsInvImplies, PTL DEF IncidentsSpec

----------------------------------------------------------------------------
(* The accounting row.                                                     *)

\* The walk of _advance_stream ends at the first number that is not on file.
LEMMA WalkEnds ==
  ASSUME NEW M \in Nat, NEW S \in SUBSET (1..M), NEW from \in 0..M
  PROVE  \E n \in from..M : (from + 1)..n \subseteq S /\ n + 1 \notin S
<1> DEFINE W == {n \in from..M : n + 1 \notin S}
<1>1. W \in SUBSET Nat /\ M \in W
  OBVIOUS
<1>2. PICK n \in W : \A m \in W : n <= m
  BY <1>1, LeastExists
<1>3. ASSUME NEW k \in (from + 1)..n PROVE k \in S
  <2>1. k - 1 \in from..M /\ k - 1 < n
    BY <1>1
  <2>2. k - 1 \notin W
    BY <1>1, <1>2, <2>1
  <2> QED BY <2>1, <2>2
<1> QED BY <1>2, <1>3

\* The row of a stream is exact for the sequence numbers S on file.
ExactRow(r, S) ==
  /\ r = Null <=> S = {}
  /\ S # {} =>
       /\ r.first \in S /\ r.highest \in S
       /\ S \subseteq r.first..r.highest
       /\ r.count = Cardinality(S)
       /\ r.first <= r.acked /\ r.first..r.acked \subseteq S
       /\ r.acked + 1 \notin S

\* The start and the walk of _advance_stream stay on what is on file: with a
\* row that was exact for P, Advance is exact for everything that came since.
LEMMA AdvanceExact ==
  ASSUME NEW S \in SUBSET (1..MaxSeq), NEW P \in SUBSET S, S # {},
         NEW prior \in StreamRow \cup {Null}, ExactRow(prior, P)
  PROVE  Advance(S, prior) \in StreamRow /\ ExactRow(Advance(S, prior), S)
<1> DEFINE lo == CHOOSE n \in S : \A m \in S : n <= m
           hi == CHOOSE n \in S : \A m \in S : m <= n
           first == IF prior = Null \/ lo < prior.first THEN lo ELSE prior.first
           from == IF prior = Null \/ first < prior.first THEN first - 1 ELSE prior.acked
           acked == CHOOSE n \in from..MaxSeq : (from + 1)..n \subseteq S /\ n + 1 \notin S
           row == [first |-> first, highest |-> hi, acked |-> acked, count |-> Cardinality(S)]
<1>0. /\ MaxSeq \in Nat
      /\ S \in SUBSET Nat
      /\ Null \notin StreamRow
  BY StreamsAssumption DEF StreamRow
<1>1. lo \in S /\ \A m \in S : lo <= m
  BY <1>0, LeastExists
<1>2. hi \in S /\ \A m \in S : m <= hi
  BY <1>0, GreatestExists
<1>3. /\ first \in S
      /\ \A m \in S : first <= m
      /\ from \in 0..MaxSeq /\ first - 1 <= from
      /\ \A n \in from..MaxSeq : (from + 1)..n \subseteq S => first..n \subseteq S
  <2>1. CASE prior = Null \/ lo < prior.first
    <3>1. first = lo /\ from = lo - 1
      BY <2>1, <1>0, <1>1
    <3> HIDE DEF first, from, lo
    <3> QED BY <3>1, <1>0, <1>1
  <2>2. CASE ~(prior = Null \/ lo < prior.first)
    <3>1. first = prior.first /\ from = prior.acked
      <4>1. prior \in StreamRow
        BY <2>2
      <4>2. prior.first \in Nat
        BY <4>1 DEF StreamRow
      <4> QED BY <2>2, <4>2
    <3>2. prior \in StreamRow /\ prior # Null
      BY <2>2
    <3>3. prior.first \in Nat /\ prior.acked \in Nat
      BY <3>2 DEF StreamRow
    <3>4. prior.first \in P /\ prior.first <= prior.acked /\ prior.first..prior.acked \subseteq P
      BY <3>2 DEF ExactRow
    <3>5. prior.first \in S /\ \A m \in S : prior.first <= m
      <4> HIDE DEF lo
      <4>1. lo \in Nat /\ prior.first <= lo
        BY <2>2, <3>3, <1>0, <1>1
      <4>2. prior.first \in S
        BY <3>4
      <4>3. ASSUME NEW m \in S PROVE prior.first <= m
        BY <3>3, <4>1, <1>0, <1>1
      <4> QED BY <4>2, <4>3
    <3>6. prior.acked <= MaxSeq
      <4>1. CASE prior.acked < prior.first
        BY <4>1, <3>3, <3>5, <1>0
      <4>2. CASE prior.first <= prior.acked
        <5>1. prior.acked \in prior.first..prior.acked
          BY <4>2, <3>3
        <5> QED BY <5>1, <3>4, <1>0
      <4> QED BY <4>1, <4>2, <3>3
    <3>7. ASSUME NEW n \in prior.acked..MaxSeq, (prior.acked + 1)..n \subseteq S,
                 NEW k \in prior.first..n
          PROVE  k \in S
      <4>1. k \in prior.first..prior.acked \/ k \in (prior.acked + 1)..n
        BY <3>3, <1>0
      <4> QED BY <4>1, <3>4, <3>7
    <3> HIDE DEF first, from
    <3> QED BY <3>1, <3>3, <3>4, <3>5, <3>6, <3>7, <1>0
  <2> QED BY <2>1, <2>2
<1>4. acked \in from..MaxSeq /\ (from + 1)..acked \subseteq S /\ acked + 1 \notin S
  <2> HIDE DEF from
  <2>1. \E n \in from..MaxSeq : (from + 1)..n \subseteq S /\ n + 1 \notin S
    BY <1>0, <1>3, WalkEnds
  <2> QED BY <2>1
<1>5. Cardinality(S) \in Nat
  <2>1. IsFiniteSet(1..MaxSeq)
    BY <1>0, FS_Interval
  <2>2. IsFiniteSet(S)
    BY <2>1, FS_Subset
  <2> QED BY <2>2, FS_CardinalityType
<1>6. Advance(S, prior) = row
  BY DEF Advance
<1> HIDE DEF lo, hi, first, from, acked
<1>7. row \in StreamRow
  BY <1>0, <1>2, <1>3, <1>4, <1>5 DEF StreamRow
<1>8. row # Null
  BY <1>0, <1>7
<1>9. S \subseteq first..hi
  BY <1>0, <1>2, <1>3
<1>10. first <= acked /\ first..acked \subseteq S
  <2>1. first \in Nat /\ from \in Nat /\ acked \in Nat /\ first - 1 <= from /\ from <= acked
    BY <1>0, <1>3, <1>4
  <2>2. acked + 1 # first
    BY <1>3, <1>4
  <2> QED BY <1>3, <1>4, <2>1, <2>2
<1>11. ExactRow(row, S)
  BY <1>2, <1>3, <1>4, <1>8, <1>9, <1>10 DEF ExactRow
<1> QED BY <1>6, <1>7, <1>11

----------------------------------------------------------------------------
(* The gaps of an answer.                                                  *)

\* A loop over lo..hi that takes values of V to values of V has a run.
Loops(lo, hi, V, F) == lo <= hi /\ \A n \in (lo + 1)..hi : \A v \in V : F[<<n, v>>] \in V

IsRun(f, lo, hi, V, base, F) ==
  /\ f \in [lo..hi -> V]
  /\ f[lo] = base /\ \A n \in (lo + 1)..hi : f[n] = F[<<n, f[n - 1]>>]

LEMMA Iteration ==
  ASSUME NEW lo \in Int, NEW hi \in Int, NEW V, NEW base \in V, NEW F, Loops(lo, hi, V, F)
  PROVE  \E f : IsRun(f, lo, hi, V, base, F)
<1>0. lo <= hi /\ \A n \in (lo + 1)..hi : \A v \in V : F[<<n, v>>] \in V
  BY DEF Loops
<1> DEFINE Runs(k) == \E f \in [lo..(lo + k) -> V] :
                        f[lo] = base /\ \A n \in (lo + 1)..(lo + k) : f[n] = F[<<n, f[n - 1]>>]
           Bad == {k \in 0..(hi - lo) : ~Runs(k)}
<1>1. Runs(0)
  <2> DEFINE f == [n \in lo..(lo + 0) |-> base]
  <2>1. f \in [lo..(lo + 0) -> V] /\ f[lo] = base
    OBVIOUS
  <2>2. (lo + 1)..(lo + 0) = {}
    OBVIOUS
  <2> HIDE DEF f
  <2> QED BY <2>1, <2>2
<1>2. ASSUME NEW k \in 1..(hi - lo), Runs(k - 1) PROVE Runs(k)
  <2>0. lo + (k - 1) \in Int /\ lo + k \in lo..hi /\ lo + k = (lo + (k - 1)) + 1
    OBVIOUS
  <2>1. PICK f \in [lo..(lo + (k - 1)) -> V] :
          f[lo] = base /\ \A n \in (lo + 1)..(lo + (k - 1)) : f[n] = F[<<n, f[n - 1]>>]
    BY <1>2
  <2> DEFINE m == lo + k
             g == [n \in lo..m |-> IF n = m THEN F[<<m, f[m - 1]>>] ELSE f[n]]
  <2>2. m \in (lo + 1)..hi /\ m - 1 = lo + (k - 1) /\ f[m - 1] \in V
    BY <2>0, <2>1
  <2>3. F[<<m, f[m - 1]>>] \in V
    BY <1>0, <2>2
  <2>4. \A n \in lo..m : n # m => n \in lo..(lo + (k - 1)) /\ f[n] \in V
    BY <2>0, <2>1
  <2>5. g \in [lo..m -> V]
    BY <2>3, <2>4
  <2>6. g[lo] = base
    BY <2>0, <2>1
  <2>7. ASSUME NEW n \in (lo + 1)..m PROVE g[n] = F[<<n, g[n - 1]>>]
    <3>1. n - 1 \in lo..m /\ n - 1 # m /\ n \in lo..m
      OBVIOUS
    <3>2. g[n - 1] = f[n - 1]
      BY <3>1
    <3>3. CASE n = m
      <4>1. g[n] = F[<<m, f[m - 1]>>]
        BY <3>1, <3>3
      <4> HIDE DEF g, m
      <4> QED BY <3>2, <3>3, <4>1
    <3>4. CASE n # m
      <4>1. g[n] = f[n] /\ n \in (lo + 1)..(lo + (k - 1))
        BY <3>1, <3>4
      <4> HIDE DEF g, m
      <4> QED BY <2>1, <3>2, <4>1
    <3> QED BY <3>3, <3>4
  <2> HIDE DEF g
  <2> QED BY <2>5, <2>6, <2>7
<1> HIDE DEF Runs
<1>3. Bad = {}
  <2> SUFFICES ASSUME Bad # {} PROVE FALSE
    OBVIOUS
  <2>1. Bad \in SUBSET Nat
    OBVIOUS
  <2>2. PICK k \in Bad : \A j \in Bad : k <= j
    <3> HIDE DEF Bad
    <3> QED BY <2>1, LeastExists
  <2>3. k \in 0..(hi - lo) /\ ~Runs(k) /\ k # 0
    BY <1>1
  <2>4. k \in 1..(hi - lo) /\ k - 1 \in 0..(hi - lo) /\ ~(k <= k - 1)
    BY <2>3
  <2>5. Runs(k - 1)
    <3>1. k - 1 \notin Bad
      <4> HIDE DEF Bad
      <4> QED BY <2>2, <2>4
    <3> QED BY <2>4, <3>1
  <2> QED BY <1>2, <2>3, <2>4, <2>5
<1>4. Runs(hi - lo)
  <2>1. hi - lo \in 0..(hi - lo)
    BY <1>0
  <2> QED BY <1>3, <2>1
<1>5. lo + (hi - lo) = hi
  OBVIOUS
<1> QED BY <1>4, <1>5 DEF Runs, IsRun

\* The gaps found so far and the number expected next.
Walks == [gaps: Seq(Nat \X Nat), expected: Nat]

\* _missing_ranges at number n.
Walked(S, n, w) ==
  IF n \notin S \/ Len(w.gaps) = MaxRanges THEN w
  ELSE [gaps |-> IF n > w.expected THEN Append(w.gaps, <<w.expected, n - 1>>) ELSE w.gaps,
        expected |-> n + 1]

\* What it has found when it passed n: the gaps G it lists lie between numbers
\* on file, and until the limit they are all there are.
WalkFacts(S, acked, n, G, e) ==
  /\ acked < e /\ e <= n + 1 /\ e - 1 \in S
  /\ Len(G) <= MaxRanges
  /\ \A i \in 1..Len(G) :
       /\ acked < G[i][1] /\ G[i][2] < e
       /\ G[i][1] - 1 \in S /\ G[i][2] + 1 \in S
       /\ \A k \in G[i][1]..G[i][2] : k \notin S
  /\ Len(G) < MaxRanges =>
       /\ \A k \in e..n : k \notin S
       /\ \A k \in (acked + 1)..(e - 1) :
            k \in S \/ \E i \in 1..Len(G) : k \in G[i][1]..G[i][2]

WalkInv(S, acked, n, w) == w \in Walks /\ WalkFacts(S, acked, n, w.gaps, w.expected)

\* A number on file after missing ones closes a gap.
LEMMA GapCloses ==
  ASSUME NEW S \in SUBSET Nat, NEW acked \in Nat, NEW m \in S, NEW G \in Seq(Nat \X Nat),
         NEW e \in Nat, e < m, WalkFacts(S, acked, m - 1, G, e), Len(G) < MaxRanges
  PROVE  WalkFacts(S, acked, m, Append(G, <<e, m - 1>>), m + 1)
<1> DEFINE H == Append(G, <<e, m - 1>>)
           L == Len(G)
<1>0. MaxRanges \in Nat /\ m \in Nat /\ L \in Nat
  BY StreamsAssumption
<1>1. \A i \in 1..L : G[i] \in Nat \X Nat /\ G[i][1] \in Nat /\ G[i][2] \in Nat
  OBVIOUS
<1>2. <<e, m - 1>> \in Nat \X Nat
  BY <1>0
<1>3. Len(H) = L + 1 /\ (\A i \in 1..L : H[i] = G[i]) /\ H[L + 1] = <<e, m - 1>>
  BY <1>2
<1> HIDE DEF H
<1>4. acked < e /\ e - 1 \in S /\ (\A k \in e..(m - 1) : k \notin S)
  BY DEF WalkFacts
<1>5. acked < m + 1 /\ m + 1 <= m + 1 /\ (m + 1) - 1 \in S /\ Len(H) <= MaxRanges
  BY <1>0, <1>3, <1>4
<1>6. ASSUME NEW i \in 1..Len(H)
      PROVE  /\ acked < H[i][1] /\ H[i][2] < m + 1
             /\ H[i][1] - 1 \in S /\ H[i][2] + 1 \in S
             /\ \A k \in H[i][1]..H[i][2] : k \notin S
  <2>1. CASE i \in 1..L
    <3>1. /\ acked < G[i][1] /\ G[i][2] < e
          /\ G[i][1] - 1 \in S /\ G[i][2] + 1 \in S
          /\ \A k \in G[i][1]..G[i][2] : k \notin S
      BY <2>1 DEF WalkFacts
    <3>2. G[i][2] < m + 1
      <4>1. G[i][2] \in Nat
        BY <1>1, <2>1
      <4>2. \A g \in Nat : g < e => g < m + 1
        BY <1>0
      <4> QED BY <3>1, <4>1, <4>2
    <3>3. H[i] = G[i]
      BY <1>3, <2>1
    <3> QED BY <3>1, <3>2, <3>3
  <2>2. CASE i = L + 1
    <3>1. H[i][1] = e /\ H[i][2] = m - 1
      BY <1>3, <2>2
    <3>2. (m - 1) + 1 = m /\ m - 1 < m + 1
      BY <1>0
    <3> QED BY <1>4, <3>1, <3>2
  <2> QED BY <1>0, <1>3, <2>1, <2>2
<1>7. ASSUME NEW k \in (acked + 1)..((m + 1) - 1), k \notin S
      PROVE  \E i \in 1..Len(H) : k \in H[i][1]..H[i][2]
  <2>0. k \in (acked + 1)..m /\ k # m
    BY <1>0, <1>7
  <2>1. CASE k \in (acked + 1)..(e - 1)
    <3>1. PICK i \in 1..L : k \in G[i][1]..G[i][2]
      BY <1>7, <2>1 DEF WalkFacts
    <3>2. i \in 1..Len(H) /\ H[i] = G[i]
      <4>1. \A l \in Nat : 1..l \subseteq 1..(l + 1)
        OBVIOUS
      <4> QED BY <1>0, <1>3, <4>1
    <3> QED BY <3>1, <3>2
  <2>2. CASE k \in e..(m - 1)
    <3>1. L + 1 \in 1..Len(H) /\ H[L + 1][1] = e /\ H[L + 1][2] = m - 1
      BY <1>0, <1>3
    <3> QED BY <2>2, <3>1
  <2> QED BY <1>0, <2>0, <2>1, <2>2
<1>8. \A k \in (m + 1)..m : k \notin S
  BY <1>0
<1>9. WalkFacts(S, acked, m, H, m + 1)
  BY <1>5, <1>6, <1>7, <1>8 DEF WalkFacts
<1> QED BY <1>9 DEF H

\* The expected number opens none.
LEMMA GapStays ==
  ASSUME NEW S \in SUBSET Nat, NEW acked \in Nat, NEW m \in S, NEW G \in Seq(Nat \X Nat),
         WalkFacts(S, acked, m - 1, G, m), Len(G) < MaxRanges
  PROVE  WalkFacts(S, acked, m, G, m + 1)
<1>0. MaxRanges \in Nat /\ m \in Nat /\ Len(G) \in Nat
  BY StreamsAssumption
<1>1. \A i \in 1..Len(G) : G[i] \in Nat \X Nat /\ G[i][1] \in Nat /\ G[i][2] \in Nat
  OBVIOUS
<1>2. acked < m + 1 /\ m + 1 <= m + 1 /\ (m + 1) - 1 \in S /\ Len(G) <= MaxRanges
  BY <1>0 DEF WalkFacts
<1>3. ASSUME NEW i \in 1..Len(G)
      PROVE  /\ acked < G[i][1] /\ G[i][2] < m + 1
             /\ G[i][1] - 1 \in S /\ G[i][2] + 1 \in S
             /\ \A k \in G[i][1]..G[i][2] : k \notin S
  <2>1. /\ acked < G[i][1] /\ G[i][2] < m
        /\ G[i][1] - 1 \in S /\ G[i][2] + 1 \in S
        /\ \A k \in G[i][1]..G[i][2] : k \notin S
    BY DEF WalkFacts
  <2>2. G[i][2] < m + 1
    BY <1>0, <1>1, <2>1
  <2> QED BY <2>1, <2>2
<1>4. \A k \in (m + 1)..m : k \notin S
  BY <1>0
<1>5. ASSUME NEW k \in (acked + 1)..((m + 1) - 1), k \notin S
      PROVE  \E i \in 1..Len(G) : k \in G[i][1]..G[i][2]
  <2>1. k \in (acked + 1)..(m - 1)
    BY <1>0, <1>5
  <2> QED BY <1>5, <2>1 DEF WalkFacts
<1> QED BY <1>2, <1>3, <1>4, <1>5 DEF WalkFacts

LEMMA WalkStep ==
  ASSUME NEW S \in SUBSET Nat, NEW acked \in Nat, NEW m \in Nat, acked < m,
         NEW w, WalkInv(S, acked, m - 1, w)
  PROVE  WalkInv(S, acked, m, Walked(S, m, w))
<1> DEFINE G == w.gaps
           e == w.expected
<1>0. /\ w \in Walks /\ e \in Nat /\ G \in Seq(Nat \X Nat) /\ Len(G) \in Nat
      /\ MaxRanges \in Nat /\ WalkFacts(S, acked, m - 1, G, e)
  BY StreamsAssumption DEF WalkInv, Walks
<1> HIDE DEF G, e
<1>1. CASE m \notin S \/ Len(G) = MaxRanges
  <2>1. Walked(S, m, w) = w
    BY <1>1 DEF Walked, G
  <2>2. Len(G) < MaxRanges => \A k \in e..m : k \notin S
    BY <1>0, <1>1 DEF WalkFacts
  <2>3. WalkFacts(S, acked, m, G, e)
    BY <1>0, <2>2 DEF WalkFacts
  <2> QED BY <1>0, <2>1, <2>3 DEF WalkInv, G, e
<1>2. CASE m \in S /\ Len(G) # MaxRanges
  <2>1. Len(G) < MaxRanges /\ e <= m
    BY <1>0, <1>2 DEF WalkFacts
  <2>2. Walked(S, m, w) =
          [gaps |-> IF m > e THEN Append(G, <<e, m - 1>>) ELSE G, expected |-> m + 1]
    BY <1>2 DEF Walked, G, e
  <2>3. CASE m = e
    <3>1. Walked(S, m, w) = [gaps |-> G, expected |-> m + 1]
      BY <2>2, <2>3
    <3>2. WalkFacts(S, acked, m, G, m + 1)
      BY <1>0, <1>2, <2>1, <2>3, GapStays
    <3> QED BY <1>0, <3>1, <3>2 DEF WalkInv, Walks
  <2>4. CASE e < m
    <3> DEFINE H == Append(G, <<e, m - 1>>)
    <3>1. Walked(S, m, w) = [gaps |-> H, expected |-> m + 1]
      BY <2>2, <2>4
    <3>2. WalkFacts(S, acked, m, H, m + 1)
      BY <1>0, <1>2, <2>1, <2>4, GapCloses
    <3>3. H \in Seq(Nat \X Nat)
      <4>1. <<e, m - 1>> \in Nat \X Nat
        BY <1>0, <2>4
      <4> QED BY <1>0, <4>1
    <3> HIDE DEF H
    <3> QED BY <3>1, <3>2, <3>3 DEF WalkInv, Walks
  <2> QED BY <1>0, <2>1, <2>3, <2>4
<1> QED BY <1>1, <1>2

\* The walk exists, and what it lists satisfies the invariant at the end.
LEMMA RangesMean ==
  ASSUME NEW S \in SUBSET (1..MaxSeq), NEW acked \in S
  PROVE  \E w : WalkInv(S, acked, MaxSeq, w) /\ MissingRanges(S, acked) = w.gaps
<1> DEFINE base == [gaps |-> <<>>, expected |-> acked + 1]
           IsWalk(f) == f = [n \in acked..MaxSeq |->
                               IF n = acked THEN base ELSE Walked(S, n, f[n - 1])]
           F == [p \in ((acked + 1)..MaxSeq) \X Walks |-> Walked(S, p[1], p[2])]
<1>0. MaxSeq \in Nat /\ acked \in 1..MaxSeq /\ S \in SUBSET Nat /\ MaxRanges \in Nat
  BY StreamsAssumption
<1>1. base \in Walks
  BY <1>0 DEF Walks
<1>2. \A n \in (acked + 1)..MaxSeq : \A w \in Walks : Walked(S, n, w) \in Walks
  <2> SUFFICES ASSUME NEW n \in (acked + 1)..MaxSeq, NEW w \in Walks PROVE Walked(S, n, w) \in Walks
    OBVIOUS
  <2>1. n \in Nat /\ n - 1 \in Nat /\ w.gaps \in Seq(Nat \X Nat) /\ w.expected \in Nat
    BY <1>0 DEF Walks
  <2>2. Append(w.gaps, <<w.expected, n - 1>>) \in Seq(Nat \X Nat)
    <3>1. <<w.expected, n - 1>> \in Nat \X Nat
      BY <2>1
    <3> QED BY <2>1, <3>1
  <2> DEFINE H == IF n > w.expected THEN Append(w.gaps, <<w.expected, n - 1>>) ELSE w.gaps
  <2>3. H \in Seq(Nat \X Nat)
    BY <2>1, <2>2
  <2>4. Walked(S, n, w) = w \/ Walked(S, n, w) = [gaps |-> H, expected |-> n + 1]
    BY DEF Walked
  <2> HIDE DEF H
  <2> QED BY <2>1, <2>3, <2>4 DEF Walks
<1>4. \A n \in (acked + 1)..MaxSeq : \A w \in Walks : F[<<n, w>>] = Walked(S, n, w)
  OBVIOUS
<1> HIDE DEF base, F
<1>5. PICK f \in [acked..MaxSeq -> Walks] :
        f[acked] = base /\ \A n \in (acked + 1)..MaxSeq : f[n] = F[<<n, f[n - 1]>>]
  <2>1. acked \in Int /\ MaxSeq \in Int /\ acked <= MaxSeq
    BY <1>0
  <2> HIDE DEF IsWalk
  <2>2. Loops(acked, MaxSeq, Walks, F)
    BY <1>2, <1>4, <2>1 DEF Loops
  <2>3. \E f : IsRun(f, acked, MaxSeq, Walks, base, F)
    BY <1>1, <2>1, <2>2, Iteration
  <2> QED BY <2>3 DEF IsRun
<1>6. IsWalk(f)
  <2>1. ASSUME NEW n \in acked..MaxSeq
        PROVE  f[n] = IF n = acked THEN base ELSE Walked(S, n, f[n - 1])
    <3>1. CASE n = acked
      BY <1>5, <3>1
    <3>2. CASE n # acked
      <4>1. n \in (acked + 1)..MaxSeq /\ n - 1 \in acked..MaxSeq
        BY <1>0, <3>2
      <4>2. f[n - 1] \in Walks
        BY <4>1
      <4> QED BY <1>4, <1>5, <3>2, <4>1, <4>2
    <3> QED BY <3>1, <3>2
  <2>2. f = [n \in acked..MaxSeq |-> f[n]]
    OBVIOUS
  <2> QED BY <2>1, <2>2
<1> DEFINE W == CHOOSE g : IsWalk(g)
<1>7. MissingRanges(S, acked) = W[MaxSeq].gaps
  BY DEF MissingRanges, Walked, base
<1>8. IsWalk(W)
  <2> HIDE DEF IsWalk
  <2> QED BY <1>6
<1> HIDE DEF W
<1>9. W[acked] = base
  BY <1>0, <1>8
<1>10. \A n \in (acked + 1)..MaxSeq : W[n] = Walked(S, n, W[n - 1])
  <2> SUFFICES ASSUME NEW n \in (acked + 1)..MaxSeq PROVE W[n] = Walked(S, n, W[n - 1])
    OBVIOUS
  <2>1. n \in acked..MaxSeq /\ n # acked
    BY <1>0
  <2> QED BY <1>8, <2>1
<1> HIDE DEF IsWalk
<1>11. WalkInv(S, acked, acked, base)
  <2>1. base.gaps = <<>> /\ base.expected = acked + 1
    BY DEF base
  <2>2. Len(<<>>) = 0
    OBVIOUS
  <2>3. WalkFacts(S, acked, acked, <<>>, acked + 1)
    BY <1>0, <2>2 DEF WalkFacts
  <2> QED BY <1>1, <2>1, <2>3 DEF WalkInv
<1> DEFINE Bad == {n \in acked..MaxSeq : ~WalkInv(S, acked, n, W[n])}
<1>12. Bad = {}
  <2> SUFFICES ASSUME Bad # {} PROVE FALSE
    OBVIOUS
  <2>1. Bad \in SUBSET Nat
    BY <1>0
  <2>2. PICK n \in Bad : \A k \in Bad : n <= k
    <3> HIDE DEF Bad
    <3> QED BY <2>1, LeastExists
  <2>3. n \in acked..MaxSeq /\ ~WalkInv(S, acked, n, W[n]) /\ n # acked
    BY <1>9, <1>11
  <2>4. n \in (acked + 1)..MaxSeq /\ n - 1 \in acked..MaxSeq /\ ~(n <= n - 1)
    BY <1>0, <2>3
  <2>5. WalkInv(S, acked, n - 1, W[n - 1])
    <3>1. n - 1 \notin Bad
      <4> HIDE DEF Bad
      <4> QED BY <2>2, <2>4
    <3> QED BY <2>4, <3>1
  <2>6. WalkInv(S, acked, n, Walked(S, n, W[n - 1]))
    <3>1. n \in Nat /\ acked \in Nat /\ acked < n
      BY <1>0, <2>4
    <3> QED BY <1>0, <2>5, <3>1, WalkStep
  <2> QED BY <1>10, <2>3, <2>4, <2>6
<1>13. MaxSeq \in acked..MaxSeq
  BY <1>0
<1>14. WalkInv(S, acked, MaxSeq, W[MaxSeq])
  BY <1>12, <1>13
<1> QED BY <1>7, <1>14

\* The gaps listed for an exact row.
ExactGaps(r, S) ==
  LET gaps == MissingRanges(S, r.acked)
      listed == UNION {gaps[i][1]..gaps[i][2] : i \in DOMAIN gaps}
      missing == (r.first..r.highest) \ S
  IN /\ Len(gaps) <= MaxRanges
     /\ listed \subseteq missing
     /\ Len(gaps) < MaxRanges => listed = missing
     /\ \A i \in DOMAIN gaps : gaps[i][1] - 1 \in S /\ gaps[i][2] + 1 \in S

LEMMA GapsMean ==
  ASSUME NEW S \in SUBSET (1..MaxSeq), NEW r \in StreamRow, r # Null, ExactRow(r, S)
  PROVE  ExactGaps(r, S)
<1>0. MaxSeq \in Nat /\ MaxRanges \in Nat /\ S \in SUBSET Nat
  BY StreamsAssumption
<1>1. /\ r.first \in Nat /\ r.highest \in Nat /\ r.acked \in Nat
      /\ r.highest \in S /\ S \subseteq r.first..r.highest
      /\ r.first <= r.acked /\ r.first..r.acked \subseteq S
  BY DEF ExactRow, StreamRow
<1>2. r.acked \in S
  BY <1>1
<1>3. PICK w : WalkInv(S, r.acked, MaxSeq, w) /\ MissingRanges(S, r.acked) = w.gaps
  BY <1>2, RangesMean
<1> DEFINE G == MissingRanges(S, r.acked)
           e == w.expected
           listed == UNION {G[i][1]..G[i][2] : i \in DOMAIN G}
           missing == (r.first..r.highest) \ S
<1>4. WalkFacts(S, r.acked, MaxSeq, G, e) /\ G \in Seq(Nat \X Nat) /\ e \in Nat
  BY <1>3 DEF WalkInv, Walks
<1> HIDE DEF G, e
<1>5. DOMAIN G = 1..Len(G) /\ Len(G) \in Nat
  BY <1>4
<1>6. \A i \in DOMAIN G : /\ G[i][1] \in Nat /\ G[i][2] \in Nat
                          /\ r.acked < G[i][1] /\ G[i][1] - 1 \in S /\ G[i][2] + 1 \in S
                          /\ \A k \in G[i][1]..G[i][2] : k \notin S
  <2>1. \A i \in 1..Len(G) : G[i] \in Nat \X Nat
    BY <1>4
  <2> QED BY <1>4, <1>5, <2>1 DEF WalkFacts
<1>7. listed \subseteq missing
  <2> SUFFICES ASSUME NEW i \in DOMAIN G, NEW k \in G[i][1]..G[i][2]
               PROVE  k \in r.first..r.highest /\ k \notin S
    OBVIOUS
  <2>1. /\ G[i][1] \in Nat /\ G[i][2] \in Nat /\ r.acked < G[i][1] /\ G[i][2] + 1 \in S /\ k \notin S
    BY <1>6
  <2>2. G[i][2] + 1 <= r.highest
    BY <1>1, <2>1
  <2> QED BY <1>1, <2>1, <2>2
<1>8. ASSUME Len(G) < MaxRanges, NEW k \in missing PROVE k \in listed
  <2>1. e - 1 \in S /\ (\A j \in e..MaxSeq : j \notin S)
    BY <1>4, <1>8 DEF WalkFacts
  <2>2. k \in Nat /\ k \notin S /\ r.acked < k /\ k <= r.highest
    BY <1>1
  <2>3. r.highest < e
    BY <1>0, <1>1, <1>4, <2>1
  <2>4. k \in (r.acked + 1)..(e - 1)
    BY <1>1, <1>4, <2>2, <2>3
  <2>5. PICK i \in 1..Len(G) : k \in G[i][1]..G[i][2]
    BY <1>4, <1>8, <2>2, <2>4 DEF WalkFacts
  <2> QED BY <1>5, <2>5
<1>9. Len(G) <= MaxRanges
  BY <1>4 DEF WalkFacts
<1> HIDE DEF listed, missing
<1>10. /\ Len(G) <= MaxRanges /\ listed \subseteq missing
       /\ Len(G) < MaxRanges => listed = missing
       /\ \A i \in DOMAIN G : G[i][1] - 1 \in S /\ G[i][2] + 1 \in S
  BY <1>6, <1>7, <1>8, <1>9
<1> QED BY <1>10 DEF ExactGaps, G, listed, missing

----------------------------------------------------------------------------
(* The lines of a batch.                                                   *)

\* One record per (stream, seq) slot.
OneSlot(T) == \A x, y \in T : SameSlot(x, y) => x = y

\* Line j of a batch is the first one for the slot of line i.
FirstFor(batch, i, j) ==
  SameSlot(batch[j], batch[i]) /\ \A m \in 1..(j - 1) : ~SameSlot(batch[m], batch[i])

\* Some line of a batch is the first for its slot.
LEMMA FirstExists ==
  ASSUME NEW batch \in Seq(Records), NEW i \in DOMAIN batch
  PROVE  \E j \in 1..i : FirstFor(batch, i, j)
<1> DEFINE J == {j \in 1..i : SameSlot(batch[j], batch[i])}
<1>0. i \in Nat \ {0}
  OBVIOUS
<1>1. J \in SUBSET Nat /\ i \in J
  BY <1>0 DEF SameSlot
<1>2. PICK j \in J : \A m \in J : j <= m
  BY <1>1, LeastExists
<1>3. ASSUME NEW m \in 1..(j - 1) PROVE ~SameSlot(batch[m], batch[i])
  <2>1. m \in 1..i /\ m < j
    BY <1>0, <1>1
  <2>2. m \notin J
    BY <1>1, <1>2, <2>1
  <2> QED BY <2>1, <2>2
<1> QED BY <1>2, <1>3 DEF FirstFor

\* store takes a line exactly when its slot is free and it is the first for it,
\* and calls it a duplicate only when the holder has its digest.
LEMMA OutcomeMeans ==
  ASSUME NEW T, NEW batch \in Seq(Records), NEW i \in DOMAIN batch
  PROVE  /\ Outcome(T, batch, i) = "accepted" <=>
              /\ \A y \in T : ~SameSlot(y, batch[i])
              /\ FirstFor(batch, i, i)
         /\ Outcome(T, batch, i) = "duplicate" =>
              \/ \E y \in T : SameSlot(y, batch[i]) /\ y.digest = batch[i].digest
              \/ /\ \A y \in T : ~SameSlot(y, batch[i])
                 /\ \E j \in 1..i : FirstFor(batch, i, j) /\ batch[j].digest = batch[i].digest
<1> DEFINE rivals == {y \in T : SameSlot(y, batch[i])}
           k == CHOOSE j \in 1..i :
                  SameSlot(batch[j], batch[i])
                  /\ \A m \in 1..(j - 1) : ~SameSlot(batch[m], batch[i])
           some == CHOOSE y \in rivals : TRUE
           holder == IF rivals # {} THEN some ELSE batch[k]
<1>0. i \in Nat \ {0}
  OBVIOUS
<1>1. k \in 1..i /\ FirstFor(batch, i, k)
  BY FirstExists DEF FirstFor
<1>2. rivals # {} => some \in rivals
  OBVIOUS
<1>3. Outcome(T, batch, i) =
        IF rivals = {} /\ k = i THEN "accepted"
        ELSE IF holder.digest = batch[i].digest THEN "duplicate" ELSE "conflict"
  BY DEF Outcome
<1> HIDE DEF k, some
<1>4. FirstFor(batch, i, i) <=> k = i
  <2>1. ASSUME FirstFor(batch, i, i), k # i PROVE FALSE
    <3>1. k \in 1..(i - 1)
      BY <1>0, <1>1, <2>1
    <3> QED BY <1>1, <2>1, <3>1 DEF FirstFor
  <2> QED BY <1>1, <2>1
<1>5. rivals = {} <=> \A y \in T : ~SameSlot(y, batch[i])
  OBVIOUS
<1>6. Outcome(T, batch, i) = "accepted" <=> rivals = {} /\ k = i
  BY <1>3
<1>7. Outcome(T, batch, i) = "duplicate" => holder.digest = batch[i].digest
  BY <1>3
<1>8. CASE rivals # {}
  BY <1>2, <1>4, <1>5, <1>6, <1>7, <1>8
<1>9. CASE rivals = {}
  BY <1>1, <1>4, <1>5, <1>6, <1>7, <1>9
<1> QED BY <1>8, <1>9

\* What is taken from a batch fills free slots, one line each, and what is
\* answered as held is held.
LEMMA LinesFit ==
  ASSUME NEW T \in SUBSET Records, OneSlot(T), NEW batch \in Seq(Records)
  PROVE  LET new == Lines(T, batch, {"accepted"})
             answered == Lines(T, batch, {"accepted", "duplicate"})
         IN /\ new \subseteq Records
            /\ new \cap T = {}
            /\ OneSlot(T \cup new)
            /\ new \subseteq answered
            /\ answered \subseteq T \cup new
<1> DEFINE new == Lines(T, batch, {"accepted"})
           answered == Lines(T, batch, {"accepted", "duplicate"})
<1>1. \A i \in DOMAIN batch : i \in Nat \ {0} /\ batch[i] \in Records
  OBVIOUS
<1>2. \A x \in new : \E i \in DOMAIN batch : x = batch[i] /\ Outcome(T, batch, i) = "accepted"
  BY DEF Lines
<1>3. \A i \in DOMAIN batch : Outcome(T, batch, i) = "accepted" => batch[i] \in new
  BY DEF Lines
<1>4. \A x \in answered : \E i \in DOMAIN batch :
         x = batch[i] /\ Outcome(T, batch, i) \in {"accepted", "duplicate"}
  BY DEF Lines
<1>5. new \subseteq answered
  BY DEF Lines
<1> HIDE DEF new, answered
<1>6. new \subseteq Records
  BY <1>1, <1>2
<1>7. \A x \in new, y \in T : ~SameSlot(x, y) /\ x # y
  <2>1. SUFFICES ASSUME NEW x \in new, NEW y \in T, SameSlot(x, y) \/ x = y PROVE FALSE
    OBVIOUS
  <2>2. PICK i \in DOMAIN batch : x = batch[i] /\ Outcome(T, batch, i) = "accepted"
    BY <1>2
  <2>3. ~SameSlot(y, x)
    BY <2>2, OutcomeMeans
  <2> QED BY <2>1, <2>3 DEF SameSlot
<1>8. \A x, y \in new : SameSlot(x, y) => x = y
  <2>1. SUFFICES ASSUME NEW x \in new, NEW y \in new, SameSlot(x, y), x # y PROVE FALSE
    OBVIOUS
  <2>2. PICK i \in DOMAIN batch : x = batch[i] /\ FirstFor(batch, i, i)
    BY <1>2, OutcomeMeans
  <2>3. PICK j \in DOMAIN batch : y = batch[j] /\ FirstFor(batch, j, j)
    BY <1>2, OutcomeMeans
  <2>4. i \in Nat \ {0} /\ j \in Nat \ {0} /\ i # j
    BY <1>1, <2>1, <2>2, <2>3
  <2>5. i \in 1..(j - 1) \/ j \in 1..(i - 1)
    BY <2>4
  <2> QED BY <2>1, <2>2, <2>3, <2>5 DEF FirstFor, SameSlot
<1>9. OneSlot(T \cup new)
  BY <1>7, <1>8 DEF OneSlot, SameSlot
<1>10. ASSUME NEW x \in answered PROVE x \in T \cup new
  <2>1. PICK i \in DOMAIN batch :
           x = batch[i] /\ Outcome(T, batch, i) \in {"accepted", "duplicate"}
    BY <1>4
  <2>2. CASE Outcome(T, batch, i) = "accepted"
    BY <2>1, <2>2, <1>3
  <2>3. CASE \E y \in T : SameSlot(y, batch[i]) /\ y.digest = batch[i].digest
    BY <2>1, <2>3, <1>1, DigestsAssumption DEF SameSlot
  <2>4. CASE /\ \A y \in T : ~SameSlot(y, batch[i])
             /\ \E j \in 1..i : FirstFor(batch, i, j) /\ batch[j].digest = batch[i].digest
    <3>1. PICK j \in 1..i : FirstFor(batch, i, j) /\ batch[j].digest = batch[i].digest
      BY <2>4
    <3>2. j \in DOMAIN batch
      BY <1>1
    <3>3. SameSlot(batch[j], batch[i])
      BY <3>1 DEF FirstFor
    <3>4. batch[j] = batch[i]
      BY <3>1, <3>2, <3>3, <1>1, DigestsAssumption DEF SameSlot
    <3>5. FirstFor(batch, j, j) /\ \A y \in T : ~SameSlot(y, batch[j])
      BY <3>1, <3>4, <2>4 DEF FirstFor
    <3>6. Outcome(T, batch, j) = "accepted"
      BY <3>2, <3>5, OutcomeMeans
    <3> QED BY <3>2, <3>4, <3>6, <2>1, <1>3
  <2> QED BY <2>1, <2>2, <2>3, <2>4, OutcomeMeans
<1> QED BY <1>5, <1>6, <1>7, <1>9, <1>10 DEF new, answered

----------------------------------------------------------------------------
(* The health report that wins.                                            *)

\* The event times of a batch are bounded.
LEMMA TimesBounded ==
  ASSUME NEW batch \in Seq(Records)
  PROVE  \E b \in Nat : \A i \in DOMAIN batch : batch[i].time <= b
<1> DEFINE L == Len(batch)
           Bounds(k) == \E b \in Nat : \A i \in 1..k : batch[i].time <= b
           Bad == {k \in 0..L : ~Bounds(k)}
<1>1. L \in Nat /\ DOMAIN batch = 1..L /\ \A i \in 1..L : batch[i].time \in Nat
  BY StreamsAssumption DEF RecordType
<1>2. Bounds(0)
  <2>1. \A i \in 1..0 : batch[i].time <= 0
    OBVIOUS
  <2> QED BY <2>1
<1>3. ASSUME NEW k \in 1..L, Bounds(k - 1) PROVE Bounds(k)
  <2>1. PICK b \in Nat : \A i \in 1..(k - 1) : batch[i].time <= b
    BY <1>3
  <2> DEFINE t == batch[k].time
             c == IF b < t THEN t ELSE b
  <2>2. t \in Nat
    BY <1>1
  <2>3. c \in Nat /\ b <= c /\ t <= c
    BY <2>2
  <2>4. ASSUME NEW i \in 1..k PROVE batch[i].time <= c
    <3>1. CASE i = k
      BY <2>3, <3>1
    <3>2. CASE i # k
      <4>1. i \in 1..(k - 1) /\ i \in 1..L
        BY <1>1, <3>2
      <4>2. batch[i].time <= b /\ batch[i].time \in Nat
        BY <1>1, <2>1, <4>1
      <4> HIDE DEF c
      <4> QED BY <2>3, <4>2
    <3> QED BY <3>1, <3>2
  <2> HIDE DEF c
  <2> QED BY <2>3, <2>4
<1> HIDE DEF Bounds
<1>4. Bad = {}
  <2> SUFFICES ASSUME Bad # {} PROVE FALSE
    OBVIOUS
  <2>1. Bad \in SUBSET Nat
    BY <1>1
  <2>2. PICK k \in Bad : \A j \in Bad : k <= j
    <3> HIDE DEF Bad
    <3> QED BY <2>1, LeastExists
  <2>3. k \in 0..L /\ ~Bounds(k) /\ k # 0
    BY <1>2
  <2>4. k \in 1..L /\ k - 1 \in 0..L /\ ~(k <= k - 1)
    BY <1>1, <2>3
  <2>5. Bounds(k - 1)
    <3>1. k - 1 \notin Bad
      <4> HIDE DEF Bad
      <4> QED BY <2>2, <2>4
    <3> QED BY <2>4, <3>1
  <2> QED BY <1>3, <2>3, <2>4, <2>5
<1>5. L \in 0..L
  BY <1>1
<1>6. Bounds(L)
  BY <1>4, <1>5
<1> QED BY <1>1, <1>6 DEF Bounds

\* Some report of a batch is the latest, and of those the last line.
LEMMA BestExists ==
  ASSUME NEW batch \in Seq(Records), NEW X \in SUBSET Records, X # {},
         \A x \in X : \E i \in DOMAIN batch : batch[i] = x
  PROVE  LET at(x) == CHOOSE i \in DOMAIN batch : batch[i] = x
         IN  \E x \in X : \A y \in X : y.time < x.time \/ (y.time = x.time /\ at(y) <= at(x))
<1> DEFINE at(x) == CHOOSE i \in DOMAIN batch : batch[i] = x
<1>1. Len(batch) \in Nat /\ DOMAIN batch = 1..Len(batch)
  OBVIOUS
<1>2. \A x \in X : at(x) \in 1..Len(batch) /\ batch[at(x)] = x
  BY <1>1
<1>3. \A x \in X : x.time \in Nat
  BY StreamsAssumption DEF RecordType
<1>4. PICK b \in Nat : \A i \in DOMAIN batch : batch[i].time <= b
  BY TimesBounded
<1> HIDE DEF at
<1>5. \A x \in X : x.time <= b
  BY <1>1, <1>2, <1>4
<1> DEFINE S == {x.time + 1 : x \in X}
<1>6. S \in SUBSET (1..(b + 1)) /\ S # {}
  BY <1>3, <1>5
<1>7. PICK m \in S : \A n \in S : n <= m
  <2>1. b + 1 \in Nat
    OBVIOUS
  <2> HIDE DEF S
  <2> QED BY <1>6, <2>1, GreatestExists
<1> DEFINE Y == {x \in X : x.time + 1 = m}
           Q == {at(x) : x \in Y}
<1>8. Q \in SUBSET (1..Len(batch)) /\ Q # {}
  BY <1>2
<1>9. PICK q \in Q : \A n \in Q : n <= q
  <2> HIDE DEF Q
  <2> QED BY <1>1, <1>8, GreatestExists
<1>10. PICK x \in Y : q = at(x)
  OBVIOUS
<1>11. ASSUME NEW y \in X PROVE y.time < x.time \/ (y.time = x.time /\ at(y) <= at(x))
  <2>1. y.time + 1 <= m /\ x.time + 1 = m /\ x \in X
    BY <1>7, <1>10
  <2>2. CASE y.time + 1 = m
    <3>1. at(y) \in Q
      BY <2>2
    <3>2. at(y) <= at(x)
      BY <1>9, <1>10, <3>1
    <3>3. y.time \in Nat /\ x.time \in Nat
      BY <1>3, <2>1
    <3>4. y.time = x.time
      BY <2>1, <2>2, <3>3
    <3> QED BY <3>2, <3>4
  <2>3. CASE y.time + 1 # m
    <3>1. y.time \in Nat /\ x.time \in Nat
      BY <1>3, <2>1
    <3> QED BY <2>1, <2>3, <3>1
  <2> QED BY <2>2, <2>3
<1> QED BY <1>10, <1>11 DEF at

\* The row after a batch is the row before or a latest report of the batch.
LEMMA HealthMoves ==
  ASSUME NEW a \in Agents, NEW batch \in Seq(Records), NEW X \in SUBSET Records,
         \A x \in X : \E i \in DOMAIN batch : batch[i] = x
  PROVE  /\ X = {} => HealthAfter(a, X, batch) = health
         /\ X # {} => \E x \in X :
              /\ \A y \in X : y.time <= x.time
              /\ HealthAfter(a, X, batch) =
                   IF health # Null /\ x.time < health.rec.time THEN health
                   ELSE [agent |-> a, rec |-> x]
<1>1. X = {} => HealthAfter(a, X, batch) = health
  BY DEF HealthAfter
<1>2. ASSUME X # {}
      PROVE  \E x \in X :
              /\ \A y \in X : y.time <= x.time
              /\ HealthAfter(a, X, batch) =
                   IF health # Null /\ x.time < health.rec.time THEN health
                   ELSE [agent |-> a, rec |-> x]
  <2> DEFINE at(x) == CHOOSE i \in DOMAIN batch : batch[i] = x
             Wins(x) == \A y \in X : y.time < x.time \/ (y.time = x.time /\ at(y) <= at(x))
             best == CHOOSE x \in X : Wins(x)
  <2>1. \E x \in X : Wins(x)
    BY <1>2, BestExists
  <2>2. best \in X /\ Wins(best)
    <3> HIDE DEF Wins
    <3> QED BY <2>1
  <2>3. HealthAfter(a, X, batch) =
          IF health # Null /\ best.time < health.rec.time THEN health
          ELSE [agent |-> a, rec |-> best]
    BY <1>2 DEF HealthAfter
  <2>4. \A y \in X : y.time \in Nat
    BY StreamsAssumption DEF RecordType
  <2>5. \A y \in X : y.time <= best.time
    <3> HIDE DEF at, best
    <3> QED BY <2>2, <2>4
  <2> HIDE DEF best
  <2> QED BY <2>2, <2>3, <2>5
<1> QED BY <1>1, <1>2

----------------------------------------------------------------------------
(* The inductive invariant and its preservation.                           *)

LinuxTyped ==
  /\ stored \in [Agents -> SUBSET Records]
  /\ stream \in [Agents -> [Streams -> StreamRow \cup {Null}]]
  /\ request \in [agent: Agents, batch: Batches] \cup {Null}
  /\ retired \subseteq Agents \X Records

\* The executions on file, as the detection queue names them.
Executions ==
  UNION {{<<a, x>> : x \in {y \in stored[a] : y.kind = "exec"}} : a \in Agents}

Inv ==
  /\ LinuxTyped
  /\ \A a \in Agents : OneSlot(stored[a])
  /\ PrefixExact
  /\ DetectedOnce

\* An execution in the queue is one on file.
LEMMA ExecutionsMean ==
  \A r : r \in Executions <=>
    \E a \in Agents : \E x \in stored[a] : x.kind = "exec" /\ r = <<a, x>>
BY DEF Executions

\* The rows after a step are about the records after it.
LEMMA PrefixMeans ==
  PrefixExact <=> \A a \in Agents, s \in Streams : ExactRow(stream[a][s], Seqs(stored[a], s))
BY DEF PrefixExact, ExactRow

\* What the transaction of a batch writes when the enrollment still stands.
Taken ==
  /\ request # Null /\ live = request.agent /\ request' = Null
  /\ UNCHANGED <<live, done>>
  /\ LET a == request.agent
         new == Lines(stored[a], request.batch, {"accepted"})
         answered == Lines(stored[a], request.batch, {"accepted", "duplicate"})
         T == stored[a] \cup new
     IN /\ stored' = [stored EXCEPT ![a] = T]
        /\ stream' = [stream EXCEPT ![a] = [s \in Streams |->
             IF s \in {x.stream : x \in answered}
               THEN Advance(Seqs(T, s), stream[a][s]) ELSE stream[a][s]]]
        /\ health' = HealthAfter(a, {x \in new : x.kind = "health"}, request.batch)
        /\ queue' = queue \cup {<<a, x>> : x \in {y \in new : y.kind = "exec"}}
        /\ retired' \in {retired, retired \cup {<<a, x>> : x \in answered}}

\* A step that leaves the records alone, and at most settles an execution.
Quiet ==
  /\ UNCHANGED <<stored, stream, health, retired>>
  /\ request' \in [agent: Agents, batch: Batches] \cup {Null}
  /\ queue' \cup done' = queue \cup done
  /\ queue \cap done = {} => queue' \cap done' = {}

\* A step of the stores is one of these two.
LEMMA StepSplit == LinuxTyped /\ [Next]_vars => Taken \/ Quiet
<1> SUFFICES ASSUME LinuxTyped, [Next]_vars PROVE Taken \/ Quiet
  OBVIOUS
<1>1. request \in [agent: Agents, batch: Batches] \cup {Null}
  BY DEF LinuxTyped
<1>2. CASE UNCHANGED <<done, streamVars>>
  BY <1>1, <1>2 DEF Quiet, streamVars
<1>3. CASE \E row \in queue : Settle(row)
  BY <1>1, <1>3 DEF Settle, Quiet
<1>4. CASE StreamsNext /\ UNCHANGED done
  <2>1. CASE \E a \in Agents : EnrollLinux(a)
    BY <1>1, <1>4, <2>1 DEF EnrollLinux, Quiet
  <2>2. CASE RevokeLinux
    BY <1>1, <1>4, <2>2 DEF RevokeLinux, Quiet
  <2>3. CASE \E a \in Agents, b \in Batches : Validate(a, b)
    BY <1>1, <1>4, <2>3 DEF Validate, Quiet
  <2>4. ASSUME NEW heard \in BOOLEAN, Store(heard) PROVE Taken \/ Quiet
    <3>1. CASE live # request.agent
      BY <1>4, <2>4, <3>1 DEF Store, Quiet
    <3>2. CASE live = request.agent
      BY <1>4, <2>4, <3>2 DEF Store, Taken
    <3> QED BY <3>1, <3>2
  <2> QED BY <1>4, <2>1, <2>2, <2>3, <2>4 DEF StreamsNext
<1> QED BY <1>2, <1>3, <1>4 DEF Next, vars

\* The transaction of a batch keeps the invariant: free slots are filled, the
\* rows it touches are advanced over what is on file, and the executions it
\* queues are new.
LEMMA TakenKeepsInv == Inv /\ Taken => Inv'
<1> SUFFICES ASSUME Inv, Taken PROVE Inv'
  OBVIOUS
<1> DEFINE a == request.agent
           batch == request.batch
           new == Lines(stored[a], batch, {"accepted"})
           answered == Lines(stored[a], batch, {"accepted", "duplicate"})
           T == stored[a] \cup new
           touched == {x.stream : x \in answered}
<1>1. /\ LinuxTyped
      /\ \A b \in Agents : OneSlot(stored[b])
      /\ \A b \in Agents, s \in Streams : ExactRow(stream[b][s], Seqs(stored[b], s))
      /\ RetiredIsHeld
      /\ queue \cap done = {}
      /\ queue \cup done = Executions
  BY PrefixMeans DEF Inv, DetectedOnce, Executions
<1>2. a \in Agents /\ batch \in Seq(Records) /\ stored[a] \in SUBSET Records
  BY <1>1, StreamsAssumption DEF LinuxTyped, Taken
<1>3. /\ new \subseteq Records
      /\ new \cap stored[a] = {}
      /\ OneSlot(T)
      /\ new \subseteq answered
      /\ answered \subseteq T
  BY <1>1, <1>2, LinesFit
<1>4. /\ stored' = [stored EXCEPT ![a] = T]
      /\ stream' = [stream EXCEPT ![a] = [s \in Streams |->
           IF s \in touched THEN Advance(Seqs(T, s), stream[a][s]) ELSE stream[a][s]]]
      /\ queue' = queue \cup {<<a, x>> : x \in {y \in new : y.kind = "exec"}}
      /\ retired' \in {retired, retired \cup {<<a, x>> : x \in answered}}
      /\ request' = Null /\ done' = done
  BY DEF Taken
<1> HIDE DEF a, batch, new, answered
<1>5. T \subseteq Records /\ T \subseteq RecordType
  BY <1>2, <1>3, StreamsAssumption
<1>6. /\ stored' \in [Agents -> SUBSET Records]
      /\ stored'[a] = T
      /\ \A b \in Agents : b # a => stored'[b] = stored[b]
      /\ \A b \in Agents : stored[b] \subseteq stored'[b]
  BY <1>1, <1>2, <1>4, <1>5 DEF LinuxTyped
<1>7. \A b \in Agents : OneSlot(stored'[b])
  BY <1>1, <1>3, <1>6
<1>8. ASSUME NEW s \in Streams
      PROVE  stream'[a][s] \in StreamRow \cup {Null} /\ ExactRow(stream'[a][s], Seqs(T, s))
  <2>0. stream[a][s] \in StreamRow \cup {Null} /\ ExactRow(stream[a][s], Seqs(stored[a], s))
    BY <1>1, <1>2 DEF LinuxTyped
  <2>1. stream'[a][s] =
          IF s \in touched THEN Advance(Seqs(T, s), stream[a][s]) ELSE stream[a][s]
    BY <1>1, <1>2, <1>4 DEF LinuxTyped
  <2>2. Seqs(T, s) \subseteq 1..MaxSeq
    BY <1>5 DEF Seqs, RecordType
  <2>3. Seqs(stored[a], s) \subseteq Seqs(T, s)
    BY DEF Seqs
  <2>4. CASE s \in touched
    <3>1. PICK x \in T : x.stream = s
      BY <2>4, <1>3
    <3>2. x.seq \in Seqs(T, s)
      BY <3>1 DEF Seqs
    <3> HIDE DEF T
    <3>3. Advance(Seqs(T, s), stream[a][s]) \in StreamRow
          /\ ExactRow(Advance(Seqs(T, s), stream[a][s]), Seqs(T, s))
      BY <2>0, <2>2, <2>3, <3>2, AdvanceExact
    <3> QED BY <2>1, <2>4, <3>3
  <2>5. CASE s \notin touched
    <3>1. \A x \in new : x.stream # s
      BY <2>5, <1>3
    <3>2. Seqs(T, s) = Seqs(stored[a], s)
      BY <3>1 DEF Seqs
    <3> QED BY <2>0, <2>1, <2>5, <3>2
  <2> QED BY <2>4, <2>5
<1>9. /\ stream' \in [Agents -> [Streams -> StreamRow \cup {Null}]]
      /\ \A b \in Agents : b # a => stream'[b] = stream[b]
  <2>1. stream'[a] \in [Streams -> StreamRow \cup {Null}]
    <3>1. stream'[a] = [s \in Streams |->
            IF s \in touched THEN Advance(Seqs(T, s), stream[a][s]) ELSE stream[a][s]]
      BY <1>1, <1>2, <1>4 DEF LinuxTyped
    <3>2. \A s \in Streams : stream'[a][s] \in StreamRow \cup {Null}
      BY <1>8
    <3> HIDE DEF T, touched
    <3> QED BY <3>1, <3>2
  <2> HIDE DEF T, touched
  <2> QED BY <2>1, <1>1, <1>2, <1>4 DEF LinuxTyped
<1>10. \A b \in Agents, s \in Streams : ExactRow(stream'[b][s], Seqs(stored'[b], s))
  BY <1>1, <1>6, <1>8, <1>9
<1>11. RetiredIsHeld'
  <2>1. ASSUME NEW r \in retired' PROVE r[2] \in stored'[r[1]]
    <3>1. CASE r \in retired
      <4>1. r[1] \in Agents
        BY <3>1, <1>1 DEF LinuxTyped
      <4> QED BY <3>1, <4>1, <1>1, <1>6 DEF RetiredIsHeld
    <3>2. CASE \E x \in answered : r = <<a, x>>
      BY <3>2, <1>3, <1>6
    <3> QED BY <3>1, <3>2, <1>4
  <2> QED BY <2>1 DEF RetiredIsHeld
<1>12. \A r : r \in Executions' <=>
          r \in Executions \/ \E x \in new : x.kind = "exec" /\ r = <<a, x>>
  <2>1. \A r : r \in Executions' <=>
          \E b \in Agents : \E x \in stored'[b] : x.kind = "exec" /\ r = <<b, x>>
    BY DEF Executions
  <2> QED BY <2>1, <1>2, <1>6, ExecutionsMean
<1>13. queue' \cup done' = Executions'
  BY <1>1, <1>4, <1>12
<1>14. queue' \cap done' = {}
  <2>1. ASSUME NEW x \in new, <<a, x>> \in Executions PROVE FALSE
    <3>1. x \in stored[a]
      BY <2>1, ExecutionsMean
    <3> QED BY <3>1, <1>3
  <2> QED BY <2>1, <1>1, <1>4
<1>15. LinuxTyped'
  <2>1. retired' \subseteq Agents \X Records
    BY <1>1, <1>2, <1>3, <1>4, <1>5 DEF LinuxTyped
  <2> QED BY <2>1, <1>4, <1>6, <1>9 DEF LinuxTyped
<1>16. PrefixExact'
  BY <1>10 DEF PrefixExact, ExactRow
<1>17. DetectedOnce'
  BY <1>11, <1>13, <1>14 DEF DetectedOnce, Executions
<1> QED BY <1>7, <1>15, <1>16, <1>17 DEF Inv

\* So does every other step, which touches no record.
LEMMA QuietKeepsInv == Inv /\ Quiet => Inv'
<1> SUFFICES ASSUME Inv, Quiet PROVE Inv'
  OBVIOUS
<1>1. UNCHANGED <<stored, stream, retired>>
  BY DEF Quiet
<1>2. LinuxTyped'
  BY <1>1 DEF Inv, LinuxTyped, Quiet
<1>3. PrefixExact'
  BY <1>1 DEF Inv, PrefixExact
<1>4. DetectedOnce'
  BY <1>1 DEF Inv, DetectedOnce, RetiredIsHeld, Quiet
<1>5. (\A a \in Agents : OneSlot(stored[a]))'
  BY <1>1 DEF Inv
<1> QED BY <1>2, <1>3, <1>4, <1>5 DEF Inv

\* Nothing is on file at first.
LEMMA InitInv == Init => Inv
<1> SUFFICES ASSUME Init PROVE Inv
  OBVIOUS
<1>1. /\ stored = [a \in Agents |-> {}]
      /\ stream = [a \in Agents |-> [s \in Streams |-> Null]]
      /\ request = Null /\ retired = {} /\ queue = {} /\ done = {}
  BY DEF Init, StreamsInit
<1>2. LinuxTyped
  BY <1>1 DEF LinuxTyped
<1>3. \A a \in Agents : stored[a] = {}
  BY <1>1
<1>4. \A a \in Agents, s \in Streams : stream[a][s] = Null /\ Seqs(stored[a], s) = {}
  BY <1>1 DEF Seqs
<1>5. PrefixExact
  BY <1>4 DEF PrefixExact
<1>6. Executions = {}
  BY <1>3 DEF Executions
<1>7. DetectedOnce
  BY <1>1, <1>6 DEF DetectedOnce, RetiredIsHeld, Executions
<1>8. \A a \in Agents : OneSlot(stored[a])
  BY <1>3 DEF OneSlot
<1> QED BY <1>2, <1>5, <1>7, <1>8 DEF Inv

\* Every step keeps the inductive invariant.
LEMMA StepInv == Inv /\ [Next]_vars => Inv'
<1>1. Inv => LinuxTyped
  BY DEF Inv
<1> QED BY <1>1, StepSplit, TakenKeepsInv, QuietKeepsInv

\* A step only adds records, only for the enrolled agent, and keeps one per slot.
LEMMA StepStays ==
  Inv /\ Inv' /\ [Next]_vars =>
    \A a \in Agents :
      /\ stored[a] \subseteq stored'[a]
      /\ stored[a] # stored'[a] => live = a
      /\ \A x, y \in stored'[a] : SameSlot(x, y) => x = y
<1> SUFFICES ASSUME Inv, Inv', [Next]_vars, NEW a \in Agents
             PROVE  /\ stored[a] \subseteq stored'[a]
                    /\ stored[a] # stored'[a] => live = a
                    /\ \A x, y \in stored'[a] : SameSlot(x, y) => x = y
  OBVIOUS
<1>1. \A x, y \in stored'[a] : SameSlot(x, y) => x = y
  BY DEF Inv, OneSlot
<1>2. LinuxTyped
  BY DEF Inv
<1>3. CASE Quiet
  BY <1>1, <1>3 DEF Quiet
<1>4. CASE Taken
  <2>1. PICK T : stored[request.agent] \subseteq T /\ stored' = [stored EXCEPT ![request.agent] = T]
    BY <1>4 DEF Taken
  <2>2. live = request.agent
    BY <1>4 DEF Taken
  <2> QED BY <1>1, <1>2, <2>1, <2>2 DEF LinuxTyped
<1> QED BY <1>2, <1>3, <1>4, StepSplit

\* Evidence stays (linux_endpoint_store.store and the second look at the
\* enrollment in records): records are only added, one per slot, and only
\* under the enrollment that stands at that moment.
THEOREM EvidenceStaysHolds == Spec => EvidenceStays
<1>1. Inv /\ Inv' /\ [Next]_vars =>
        [\A a \in Agents :
           /\ stored[a] \subseteq stored'[a]
           /\ stored[a] # stored'[a] => live = a
           /\ \A x, y \in stored'[a] : SameSlot(x, y) => x = y]_streamVars
  BY StepStays
<1> QED BY InitInv, StepInv, <1>1, PTL DEF Spec, EvidenceStays

\* Every execution on file is in the detection queue or settled, never both,
\* nothing else is, and no record is retired by the sensor that is not held
\* (the INSERT into linux_endpoint_detection, process_claimed).
THEOREM DetectedOnceHolds == Spec => []DetectedOnce
<1>1. Inv => DetectedOnce
  BY DEF Inv
<1> QED BY InitInv, StepInv, <1>1, PTL DEF Spec

\* The acknowledged prefix of every stream is exact whatever order records
\* came in (_advance_stream).
THEOREM PrefixExactHolds == Spec => []PrefixExact
<1>1. Inv => PrefixExact
  BY DEF Inv
<1> QED BY InitInv, StepInv, <1>1, PTL DEF Spec

----------------------------------------------------------------------------
(* What is answered and shown of the streams.                              *)

\* The health row is the latest report on file, and stands for all of them.
HealthKept ==
  /\ health \in [agent: Agents, rec: Records] \cup {Null}
  /\ health = Null => \A a \in Agents : \A x \in stored[a] : x.kind # "health"
  /\ health # Null =>
       /\ health.rec \in stored[health.agent] /\ health.rec.kind = "health"
       /\ \A a \in Agents : \A x \in stored[a] : x.kind = "health" => x.time <= health.rec.time

AccountInv == Inv /\ StreamsTypeOK /\ HealthKept

\* What is taken from a batch are lines of it.
LEMMA LinesAreLines ==
  ASSUME NEW T, NEW batch, NEW O
  PROVE  \A x \in Lines(T, batch, O) : \E i \in DOMAIN batch : batch[i] = x
BY DEF Lines

LEMMA TakenKeepsHealth ==
  ASSUME Inv, HealthKept, Taken
  PROVE  HealthKept'
<1> DEFINE a == request.agent
           batch == request.batch
           new == Lines(stored[a], batch, {"accepted"})
           X == {x \in new : x.kind = "health"}
<1>1. /\ a \in Agents /\ batch \in Seq(Records) /\ stored[a] \in SUBSET Records
      /\ stored \in [Agents -> SUBSET Records] /\ OneSlot(stored[a])
  BY StreamsAssumption DEF Inv, LinuxTyped, Taken
<1>2. new \subseteq Records
  BY <1>1, LinesFit
<1>3. \A x \in new : \E i \in DOMAIN batch : batch[i] = x
  BY LinesAreLines
<1>4. stored' = [stored EXCEPT ![a] = stored[a] \cup new] /\ health' = HealthAfter(a, X, batch)
  BY DEF Taken
<1> HIDE DEF a, batch, new
<1>5. \A b \in Agents : stored[b] \subseteq stored'[b] /\ \A x \in stored'[b] : x \in stored[b] \/ (b = a /\ x \in new)
  BY <1>1, <1>4
<1>6. new \subseteq stored'[a] /\ X \in SUBSET Records /\ \A x \in X : x.kind = "health"
  BY <1>1, <1>2, <1>4
<1>7. \A b \in Agents : \A x \in stored'[b] : x.kind = "health" => x \in stored[b] \/ x \in X
  BY <1>5
<1>8. \A x \in X : \E i \in DOMAIN batch : batch[i] = x
  BY <1>3
<1>9. \A b \in Agents : \A x \in stored'[b] : x \in Records /\ x.time \in Nat
  BY <1>1, <1>2, <1>5, StreamsAssumption DEF RecordType
<1>10. X \subseteq stored'[a]
  BY <1>6
<1> HIDE DEF X
<1>11. CASE X = {}
  <2>1. health' = health
    BY <1>1, <1>4, <1>6, <1>8, <1>11, HealthMoves
  <2>2. \A b \in Agents : \A x \in stored'[b] : x.kind = "health" => x \in stored[b]
    BY <1>7, <1>11
  <2>3. CASE health = Null
    BY <2>1, <2>2, <2>3 DEF HealthKept
  <2>4. CASE health # Null
    <3>1. health \in [agent: Agents, rec: Records] /\ health.agent \in Agents
      BY <2>4 DEF HealthKept
    <3> QED BY <1>5, <2>1, <2>2, <2>4, <3>1 DEF HealthKept
  <2> QED BY <2>3, <2>4
<1>12. CASE X # {}
  <2>1. PICK x \in X : /\ \A y \in X : y.time <= x.time
                       /\ health' = IF health # Null /\ x.time < health.rec.time THEN health
                                    ELSE [agent |-> a, rec |-> x]
    BY <1>1, <1>4, <1>6, <1>8, <1>12, HealthMoves
  <2>2. x \in stored'[a] /\ x.kind = "health" /\ x \in Records /\ x.time \in Nat
    BY <1>1, <1>6, <1>9, <1>10
  <2>3. CASE health # Null /\ x.time < health.rec.time
    <3>1. health' = health /\ health \in [agent: Agents, rec: Records] /\ health.agent \in Agents
      BY <2>1, <2>3 DEF HealthKept
    <3>2. health.rec \in stored'[health.agent] /\ health.rec.kind = "health" /\ health.rec.time \in Nat
      BY <1>5, <1>9, <2>3, <3>1 DEF HealthKept
    <3>3. ASSUME NEW b \in Agents, NEW y \in stored'[b], y.kind = "health"
          PROVE  y.time <= health.rec.time
      <4>1. CASE y \in stored[b]
        BY <2>3, <3>3, <4>1 DEF HealthKept
      <4>2. CASE y \in X
        <5>1. y.time <= x.time /\ y.time \in Nat
          BY <1>9, <2>1, <3>3, <4>2
        <5> QED BY <2>2, <2>3, <3>2, <5>1
      <4> QED BY <1>7, <3>3, <4>1, <4>2
    <3> QED BY <2>3, <3>1, <3>2, <3>3 DEF HealthKept
  <2>4. CASE ~(health # Null /\ x.time < health.rec.time)
    <3> DEFINE h == [agent |-> a, rec |-> x]
    <3>1. health' = h
      BY <2>1, <2>4
    <3>2. h \in [agent: Agents, rec: Records] /\ h.agent = a /\ h.rec = x
      BY <1>1, <2>2
    <3>3. h # Null
      BY <3>2, StreamsAssumption
    <3> HIDE DEF h
    <3>4. ASSUME NEW b \in Agents, NEW y \in stored'[b], y.kind = "health"
          PROVE  y.time <= x.time
      <4>1. CASE y \in stored[b]
        <5>1. health # Null /\ health.rec \in stored[health.agent] /\ y.time <= health.rec.time
          BY <3>4, <4>1 DEF HealthKept
        <5>2. health.agent \in Agents
          BY <5>1 DEF HealthKept
        <5>3. health.rec.time \in Nat /\ y.time \in Nat
          BY <1>5, <1>9, <5>1, <5>2
        <5> QED BY <2>2, <2>4, <5>1, <5>3
      <4>2. CASE y \in X
        BY <2>1, <4>2
      <4> QED BY <1>7, <3>4, <4>1, <4>2
    <3> QED BY <2>2, <3>1, <3>2, <3>3, <3>4 DEF HealthKept
  <2> QED BY <2>3, <2>4
<1> QED BY <1>11, <1>12

\* Enrollment keeps its types.
LEMMA EnrollmentTyped ==
  ASSUME StreamsTypeOK, [Next]_vars
  PROVE  live' \in Agents \cup {Null} /\ unused' \subseteq Agents
<1>1. live \in Agents \cup {Null} /\ unused \subseteq Agents
  BY DEF StreamsTypeOK
<1>2. CASE UNCHANGED <<live, unused>>
  BY <1>1, <1>2
<1>3. ASSUME NEW a \in Agents, EnrollLinux(a) PROVE live' \in Agents \cup {Null} /\ unused' \subseteq Agents
  BY <1>1, <1>3 DEF EnrollLinux
<1>4. CASE RevokeLinux
  BY <1>1, <1>4 DEF RevokeLinux
<1>5. (\E heard \in BOOLEAN : Store(heard)) => UNCHANGED <<live, unused>>
  BY DEF Store
<1>6. (\E a \in Agents, b \in Batches : Validate(a, b)) => UNCHANGED <<live, unused>>
  BY DEF Validate
<1>7. (\E row \in queue : Settle(row)) => UNCHANGED <<live, unused>>
  BY DEF Settle
<1>8. UNCHANGED streamVars => UNCHANGED <<live, unused>>
  BY DEF streamVars
<1> QED BY <1>2, <1>3, <1>4, <1>5, <1>6, <1>7, <1>8 DEF Next, vars, StreamsNext

LEMMA InitAccount == Init => AccountInv
<1> SUFFICES ASSUME Init PROVE AccountInv
  OBVIOUS
<1>1. Inv
  BY InitInv
<1>2. StreamsTypeOK /\ HealthKept
  BY DEF Init, StreamsInit, StreamsTypeOK, HealthKept
<1> QED BY <1>1, <1>2 DEF AccountInv

LEMMA StepAccount == AccountInv /\ [Next]_vars => AccountInv'
<1> SUFFICES ASSUME AccountInv, [Next]_vars PROVE AccountInv'
  OBVIOUS
<1>1. Inv'
  BY StepInv DEF AccountInv
<1>2. live' \in Agents \cup {Null} /\ unused' \subseteq Agents
  BY EnrollmentTyped DEF AccountInv
<1>3. HealthKept'
  <2>1. CASE Taken
    BY <2>1, TakenKeepsHealth DEF AccountInv
  <2>2. CASE Quiet
    BY <2>2 DEF Quiet, AccountInv, HealthKept
  <2> QED BY <2>1, <2>2, StepSplit DEF AccountInv, Inv
<1>4. queue' \subseteq Agents \X Records
  <2>1. \A r \in queue' : r \in Executions'
    BY <1>1 DEF Inv, DetectedOnce, Executions
  <2>2. \A r \in Executions' : \E a \in Agents : \E x \in stored'[a] : r = <<a, x>>
    BY DEF Executions
  <2> QED BY <1>1, <2>1, <2>2 DEF Inv, LinuxTyped
<1>5. StreamsTypeOK'
  BY <1>1, <1>2, <1>3, <1>4 DEF StreamsTypeOK, Inv, LinuxTyped, HealthKept
<1> QED BY <1>1, <1>3, <1>5 DEF AccountInv

LEMMA AccountSuffices == AccountInv => AccountingExact
<1> SUFFICES ASSUME AccountInv PROVE AccountingExact
  OBVIOUS
<1>1. Inv /\ StreamsTypeOK /\ HealthKept /\ PrefixExact /\ LinuxTyped
  BY DEF AccountInv, Inv
<1>2. GapsExact
  <2>1. ASSUME NEW a \in Agents, NEW s \in Streams, stream[a][s] # Null
        PROVE  ExactGaps(stream[a][s], Seqs(stored[a], s))
    <3>1. stream[a][s] \in StreamRow
      BY <1>1, <2>1 DEF LinuxTyped
    <3>2. ExactRow(stream[a][s], Seqs(stored[a], s))
      BY <1>1, PrefixMeans
    <3>3. Seqs(stored[a], s) \in SUBSET (1..MaxSeq)
      <4>1. stored[a] \subseteq RecordType
        BY <1>1, StreamsAssumption DEF LinuxTyped
      <4> QED BY <4>1 DEF Seqs, RecordType
    <3> QED BY <2>1, <3>1, <3>2, <3>3, GapsMean
  <2> QED BY <2>1 DEF GapsExact, ExactGaps
<1>3. HealthIsLatest
  <2> DEFINE reports == UNION {{<<a, x>> : x \in {y \in stored[a] : y.kind = "health"}} : a \in Agents}
  <2>1. \A r : r \in reports <=> \E a \in Agents : \E x \in stored[a] : x.kind = "health" /\ r = <<a, x>>
    OBVIOUS
  <2> HIDE DEF reports
  <2>2. CASE health = Null
    <3>1. reports = {}
      BY <1>1, <2>1, <2>2 DEF HealthKept
    <3> QED BY <2>2, <3>1 DEF HealthIsLatest, reports
  <2>3. CASE health # Null
    <3>1. health.agent \in Agents
      BY <1>1, <2>3 DEF HealthKept
    <3>2. <<health.agent, health.rec>> \in reports
      BY <1>1, <2>1, <2>3, <3>1 DEF HealthKept
    <3>3. \A r \in reports : r[2].time <= health.rec.time
      BY <1>1, <2>1, <2>3 DEF HealthKept
    <3> QED BY <2>3, <3>2, <3>3 DEF HealthIsLatest, reports
  <2> QED BY <2>2, <2>3
<1> QED BY <1>1, <1>2, <1>3 DEF AccountingExact

\* What the Manager answers and shows of the streams of a host is exact: the
\* rows, the gaps up to the limit and the latest health report, for records
\* that come late, again, in conflict or below the first one seen
\* (_advance_stream, _missing_ranges, the health upsert).
THEOREM AccountingAlwaysExact == Spec => []AccountingExact
BY InitAccount, StepAccount, AccountSuffices, PTL DEF Spec

----------------------------------------------------------------------------
(* Windows endpoints: the tables during a batch.                           *)

\* What a clock reads lies less than a step behind the time since its start.
LEMMA ReadingBounds ==
  ASSUME NEW x \in Int
  PROVE  /\ Reading(x) \in Int /\ x - (Quantum - 1) <= Reading(x) /\ Reading(x) <= x
         /\ x >= 0 => Reading(x) \in Nat
<1>1. Quantum \in Nat /\ Quantum > 0
  BY EndpointAssumption
<1>2. x \div Quantum \in Int /\ x % Quantum \in Int
  BY <1>1
<1>3. Reading(x) \in Int /\ x - (Quantum - 1) <= Reading(x) /\ Reading(x) <= x
  BY <1>1 DEF Reading
<1>4. x >= 0 => Reading(x) \in Nat
  BY <1>1, <1>2, <1>3 DEF Reading
<1> QED BY <1>3, <1>4

LEMMA BodyTyped ==
  ASSUME NEW r \in Ids
  PROVE  /\ Body[r].inst \in Installs /\ Body[r].gen \in 0..MaxGen /\ Body[r].gen \in Nat
         /\ Body[r].epoch \in Epochs /\ Body[r].epoch # Absent
         /\ Body[r].seq \in Nat
         /\ Body[r].cat \in Categories \cup {Absent}
         /\ Body[r].gen # 0 => Body[r].gen \in Gens /\ <<Body[r].inst, Body[r].gen>> \in Installs \X Gens
<1>1. Body[r] \in BodyType /\ MaxGen \in Nat /\ MaxRecSeq \in Nat
  BY EndpointAssumption
<1>2. Absent \notin Epochs
  BY MissingAssumption
<1> QED BY <1>1, <1>2 DEF BodyType, Gens

Generations == [Installs \X Gens -> Epochs \cup {Absent}]
Latests == [Categories -> Ids \cup {Absent}]
Ages == [Ids -> AgeRow \cup {Absent}]

TableRows ==
  [records: SUBSET Ids, generation: Generations, active: ActiveRow \cup {Absent},
   latest: Latests, age: Ages]

\* What a new line r makes of the generations G, the active stream A and the
\* projection L.
NewG(G, r) == IF Body[r].gen = 0 THEN G ELSE [G EXCEPT ![<<Body[r].inst, Body[r].gen>>] = Body[r].epoch]

NewA(A, r) ==
  IF Body[r].gen # 0 /\ (A = Absent \/ (A.inst = Body[r].inst /\ Body[r].gen > A.gen))
    THEN [inst |-> Body[r].inst, gen |-> Body[r].gen, epoch |-> Body[r].epoch] ELSE A

Behind(old, r) ==
  ~(\/ Body[old].gen < Body[r].gen
    \/ Body[old].gen = Body[r].gen /\ Body[old].seq < Body[r].seq)

Passed(A, L, r) ==
  LET old == L[Body[r].cat]
      ordered == old # Absent /\ Body[old].gen # 0
  IN \/ Body[r].cat = Absent
     \/ Body[r].gen = 0 /\ (A # Absent \/ ordered)
     \/ Body[r].gen # 0 /\ (A.inst # Body[r].inst \/ A.gen # Body[r].gen)
     \/ Body[r].gen # 0 /\ ordered /\ Behind(old, r)

NewL(A, L, r) == IF Passed(A, L, r) THEN L ELSE [L EXCEPT ![Body[r].cat] = r]

\* The age a proof gives a line, and when it does.
Since(r, proof) == proof.uptime - Uptime(captured[r].at, captured[r].boot)

Dated(g, r, proof) ==
  /\ proof # Absent /\ r \in Timed
  /\ proof.boot = captured[r].boot
  /\ Body[r].gen # 0 /\ Origin(r) = proof.as
  /\ Since(r, proof) >= 0
  /\ g[r] = Absent

Dating(r, proof) ==
  [epoch |-> serving.epoch, received |-> ServerClock,
   bound |-> Since(r, proof) + proof.elapsed + Guard]

NewAges(g, r, proof) == IF Dated(g, r, proof) THEN [g EXCEPT ![r] = Dating(r, proof)] ELSE g

NewRow(D, r, proof) ==
  [records |-> D.records \cup {r}, generation |-> NewG(D.generation, r),
   active |-> NewA(D.active, r), latest |-> NewL(NewA(D.active, r), D.latest, r),
   age |-> NewAges(D.age, r, proof)]

\* A new line, table by table.
LEMMA InsertEffect ==
  ASSUME NEW D \in TableRows, NEW r \in Ids, r \notin D.records, NEW proof
  PROVE  Insert(D, r, proof) = NewRow(D, r, proof)
<1> DEFINE G == NewG(D.generation, r)
           A == NewA(D.active, r)
           N == NewAges(D.age, r, proof)
           D1 == [records |-> D.records \cup {r}, generation |-> G, active |-> A,
                  latest |-> D.latest, age |-> D.age]
           D2 == [records |-> D.records \cup {r}, generation |-> G, active |-> A,
                  latest |-> D.latest, age |-> N]
<1>1. ObserveGeneration(D, r) = [D EXCEPT !.generation = G, !.active = A]
  BY DEF ObserveGeneration, NewG, NewA, TableRows
<1> HIDE DEF G, A
<1>2. [ObserveGeneration(D, r) EXCEPT !.records = @ \cup {r}] = D1
  <2>1. D = [records |-> D.records, generation |-> D.generation, active |-> D.active,
             latest |-> D.latest, age |-> D.age]
    BY DEF TableRows
  <2> DEFINE R == D.records
             L == D.latest
             g == D.age
  <2>2. ObserveGeneration(D, r) = [records |-> R, generation |-> G, active |-> A, latest |-> L, age |-> g]
    BY <1>1, <2>1
  <2> HIDE DEF R, L, g
  <2>3. [ObserveGeneration(D, r) EXCEPT !.records = @ \cup {r}] =
          [records |-> R \cup {r}, generation |-> G, active |-> A, latest |-> L, age |-> g]
    BY <2>2
  <2> QED BY <2>3 DEF R, L, g
<1>3. RecordAge(D1, r, proof) = D2
  BY DEF RecordAge, NewAges, Dated, Dating, Since
<1> HIDE DEF N, D1
<1>4. ProjectState(D2, r) = [D2 EXCEPT !.latest = NewL(A, D.latest, r)]
  BY DEF ProjectState, NewL, Passed, Behind
<1>5. Insert(D, r, proof) = ProjectState(D2, r)
  BY <1>2, <1>3 DEF Insert
<1> QED BY <1>4, <1>5 DEF NewRow, G, A, N

----------------------------------------------------------------------------
(* The projection is the head of the active generation.                    *)

\* One line per id and one epoch per generation; the active stream is the
\* newest generation of the first installation; a projected line is on file,
\* and the one of a category is the newest of the active generation.
NamesOnce(R) == \A p, q \in R : NameOf[p] = NameOf[q] => p = q

EpochsAgree(R, G) == \A p \in R : Body[p].gen # 0 => G[<<Body[p].inst, Body[p].gen>>] = Body[p].epoch

ActiveLeads(R, G, A) ==
  /\ A # Absent => G[<<A.inst, A.gen>>] = A.epoch
  /\ \A p \in R : Body[p].gen # 0 => A # Absent /\ (Body[p].inst = A.inst => Body[p].gen <= A.gen)

OnFile(R, A, L) ==
  \A c \in Categories :
    L[c] # Absent => L[c] \in R /\ (Body[L[c]].gen # 0 => Body[L[c]].inst = A.inst)

InActive(A, p) == Body[p].cat # Absent /\ Body[p].gen # 0 /\ Body[p].inst = A.inst /\ Body[p].gen = A.gen

Heads(R, A, L) ==
  \A p \in R :
    InActive(A, p) =>
      LET h == L[Body[p].cat] IN
        h # Absent /\ Body[h].gen = Body[p].gen /\ Body[h].seq >= Body[p].seq

HeadInv(R, G, A, L) ==
  NamesOnce(R) /\ EpochsAgree(R, G) /\ ActiveLeads(R, G, A) /\ OnFile(R, A, L) /\ Heads(R, A, L)

\* Proved order is kept from the projection L to the projection K.
Forward(L, K) ==
  \A c \in Categories :
    L[c] # Absent /\ Body[L[c]].gen # 0 =>
      /\ K[c] # Absent /\ Body[K[c]].inst = Body[L[c]].inst
      /\ \/ Body[K[c]].gen > Body[L[c]].gen
         \/ Body[K[c]].gen = Body[L[c]].gen /\ Body[K[c]].seq >= Body[L[c]].seq

\* A line that is not refused keeps all of this.
LEMMA HeadStep ==
  ASSUME NEW R \in SUBSET Ids, NEW G \in Generations, NEW A \in ActiveRow \cup {Absent},
         NEW L \in Latests, NEW r \in Ids, HeadInv(R, G, A, L),
         \A q \in R \ {r} : NameOf[q] # NameOf[r],
         Body[r].gen # 0 => G[<<Body[r].inst, Body[r].gen>>] \in {Absent, Body[r].epoch}
  PROVE  /\ HeadInv(R \cup {r}, NewG(G, r), NewA(A, r), NewL(NewA(A, r), L, r))
         /\ Forward(L, NewL(NewA(A, r), L, r))
<1> DEFINE b == Body[r]
           g == <<b.inst, b.gen>>
           H == NewG(G, r)
           B == NewA(A, r)
           K == NewL(B, L, r)
<1>0. NamesOnce(R) /\ EpochsAgree(R, G) /\ ActiveLeads(R, G, A) /\ OnFile(R, A, L) /\ Heads(R, A, L)
  BY DEF HeadInv
<1>1. NamesOnce(R \cup {r})
  BY <1>0 DEF NamesOnce
<1>2. \A x \in Installs \X Gens : H[x] = IF b.gen # 0 /\ x = g THEN b.epoch ELSE G[x]
  BY BodyTyped DEF NewG, Generations
<1>3. b.gen # 0 => g \in Installs \X Gens /\ H[g] = b.epoch
  BY <1>2, BodyTyped
<1>4. EpochsAgree(R \cup {r}, H)
  <2> SUFFICES ASSUME NEW p \in R, Body[p].gen # 0
               PROVE  H[<<Body[p].inst, Body[p].gen>>] = Body[p].epoch
    BY <1>3 DEF EpochsAgree
  <2>1. p \in Ids /\ <<Body[p].inst, Body[p].gen>> \in Installs \X Gens /\ Body[p].epoch # Absent
    BY BodyTyped
  <2>2. G[<<Body[p].inst, Body[p].gen>>] = Body[p].epoch
    BY <1>0 DEF EpochsAgree
  <2> QED BY <1>2, <2>1, <2>2
<1>5. \/ B = A /\ (b.gen # 0 => A # Absent /\ (A.inst = b.inst => b.gen <= A.gen))
      \/ /\ b.gen # 0 /\ B # Absent /\ B.inst = b.inst /\ B.gen = b.gen /\ B.epoch = b.epoch
         /\ A = Absent \/ (A.inst = b.inst /\ A.gen < b.gen)
  <2>1. CASE b.gen # 0 /\ (A = Absent \/ (A.inst = b.inst /\ b.gen > A.gen))
    <3>1. B = [inst |-> b.inst, gen |-> b.gen, epoch |-> b.epoch]
      BY <2>1 DEF NewA
    <3>2. B \in ActiveRow
      BY <2>1, <3>1, BodyTyped DEF ActiveRow
    <3>3. A # Absent => A.gen \in Nat
      BY DEF ActiveRow, Gens
    <3>4. b.gen \in Nat
      BY BodyTyped
    <3> QED BY <2>1, <3>1, <3>2, <3>3, <3>4, MissingAssumption
  <2>2. CASE ~(b.gen # 0 /\ (A = Absent \/ (A.inst = b.inst /\ b.gen > A.gen)))
    <3>1. B = A
      BY <2>2 DEF NewA
    <3>2. A # Absent => A.gen \in Nat
      BY DEF ActiveRow, Gens
    <3>3. b.gen \in Nat
      BY BodyTyped
    <3> QED BY <2>2, <3>1, <3>2, <3>3
  <2> QED BY <2>1, <2>2
<1> HIDE DEF H, B
<1>6. A # Absent => A.gen \in Nat /\ <<A.inst, A.gen>> \in Installs \X Gens /\ A.epoch # Absent
  BY MissingAssumption DEF ActiveRow, Gens
<1>7. ActiveLeads(R \cup {r}, H, B)
  <2>1. B # Absent => H[<<B.inst, B.gen>>] = B.epoch
    <3>1. CASE B = A
      <4>1. A # Absent => G[<<A.inst, A.gen>>] = A.epoch
        BY <1>0 DEF ActiveLeads
      <4> QED BY <1>2, <1>6, <3>1, <4>1
    <3>2. CASE b.gen # 0 /\ B.inst = b.inst /\ B.gen = b.gen /\ B.epoch = b.epoch
      BY <1>3, <3>2
    <3> QED BY <1>5, <3>1, <3>2
  <2>2. ASSUME NEW p \in R \cup {r}, Body[p].gen # 0
        PROVE  B # Absent /\ (Body[p].inst = B.inst => Body[p].gen <= B.gen)
    <3>1. p \in R => A # Absent /\ (Body[p].inst = A.inst => Body[p].gen <= A.gen)
      BY <1>0, <2>2 DEF ActiveLeads
    <3>2. Body[p].gen \in Nat /\ b.gen \in Nat
      BY BodyTyped
    <3> QED BY <1>5, <1>6, <2>2, <3>1, <3>2
  <2> QED BY <2>1, <2>2 DEF ActiveLeads
<1>8. \A c \in Categories : K[c] = IF ~Passed(B, L, r) /\ c = b.cat THEN r ELSE L[c]
  BY DEF NewL, Latests
<1>9. ~Passed(B, L, r) => b.cat \in Categories
  BY BodyTyped DEF Passed
<1> HIDE DEF K
<1>10. OnFile(R \cup {r}, B, K)
  <2> SUFFICES ASSUME NEW c \in Categories, K[c] # Absent
               PROVE  K[c] \in R \cup {r} /\ (Body[K[c]].gen # 0 => Body[K[c]].inst = B.inst)
    BY DEF OnFile
  <2>1. CASE K[c] = r /\ ~Passed(B, L, r)
    BY <2>1 DEF Passed
  <2>2. CASE K[c] = L[c]
    <3>1. L[c] \in R /\ (Body[L[c]].gen # 0 => Body[L[c]].inst = A.inst)
      BY <1>0, <2>2 DEF OnFile
    <3>2. Body[L[c]].gen # 0 => A # Absent
      BY <1>0, <3>1 DEF ActiveLeads
    <3> QED BY <1>5, <2>2, <3>1, <3>2
  <2> QED BY <1>8, <2>1, <2>2
<1>11. A # Absent => B # Absent /\ B.inst = A.inst /\ A.gen <= B.gen
  BY <1>5, <1>6, BodyTyped
<1>12. \A c \in Categories :
         L[c] # Absent =>
           /\ L[c] \in R /\ L[c] \in Ids /\ Body[L[c]].gen \in Nat /\ Body[L[c]].seq \in Nat
           /\ Body[L[c]].gen # 0 => A # Absent /\ Body[L[c]].inst = A.inst /\ Body[L[c]].gen <= A.gen
  <2> SUFFICES ASSUME NEW c \in Categories, L[c] # Absent
               PROVE  /\ L[c] \in R /\ L[c] \in Ids /\ Body[L[c]].gen \in Nat /\ Body[L[c]].seq \in Nat
                      /\ Body[L[c]].gen # 0 =>
                           A # Absent /\ Body[L[c]].inst = A.inst /\ Body[L[c]].gen <= A.gen
    OBVIOUS
  <2>1. L[c] \in R /\ (Body[L[c]].gen # 0 => Body[L[c]].inst = A.inst)
    BY <1>0 DEF OnFile
  <2> QED BY <1>0, <2>1, BodyTyped DEF ActiveLeads
<1>13. b.gen \in Nat /\ b.seq \in Nat /\ b.cat \in Categories \cup {Absent}
  BY BodyTyped
<1>14. Heads(R \cup {r}, B, K)
  <2> SUFFICES ASSUME NEW p \in R \cup {r}, InActive(B, p)
               PROVE  LET h == K[Body[p].cat] IN
                        h # Absent /\ Body[h].gen = Body[p].gen /\ Body[h].seq >= Body[p].seq
    BY DEF Heads
  <2> DEFINE c == Body[p].cat
             old == L[c]
  <2>1. c \in Categories /\ Body[p].gen # 0 /\ Body[p].inst = B.inst /\ Body[p].gen = B.gen
    BY BodyTyped DEF InActive
  <2>2. CASE p = r
    <3>1. CASE ~Passed(B, L, r)
      <4>1. K[c] = r
        BY <1>8, <2>1, <2>2, <3>1
      <4>2. r # Absent
        BY MissingAssumption
      <4> QED BY <1>13, <2>2, <4>1, <4>2
    <3>2. CASE Passed(B, L, r)
      <4>1. K[c] = old
        BY <1>8, <2>1, <3>2
      <4>2. old # Absent /\ Body[old].gen # 0 /\ Behind(old, r)
        BY <2>1, <2>2, <3>2, MissingAssumption DEF Passed, InActive
      <4>3. Body[old].gen \in Nat /\ Body[old].seq \in Nat /\ A # Absent /\ Body[old].gen <= A.gen
        BY <1>12, <2>1, <4>2
      <4>4. Body[old].gen <= b.gen
        BY <1>6, <1>11, <1>13, <2>1, <2>2, <4>3
      <4>5. Body[old].gen = b.gen /\ Body[old].seq >= b.seq
        BY <1>13, <4>2, <4>3, <4>4 DEF Behind
      <4> QED BY <2>2, <4>1, <4>2, <4>5
    <3> QED BY <3>1, <3>2
  <2>3. CASE p \in R
    <3>1. A # Absent /\ (Body[p].inst = A.inst => Body[p].gen <= A.gen) /\ Body[p].gen \in Nat /\ Body[p].seq \in Nat
      BY <1>0, <2>1, <2>3, BodyTyped DEF ActiveLeads
    <3>2. B = A
      BY <1>5, <1>6, <1>11, <1>13, <2>1, <3>1
    <3>3. old # Absent /\ Body[old].gen = Body[p].gen /\ Body[old].seq >= Body[p].seq
      BY <1>0, <2>3, <3>2 DEF Heads
    <3>4. Body[old].gen \in Nat /\ Body[old].seq \in Nat
      BY <1>12, <2>1, <3>3
    <3>5. CASE K[c] = old
      BY <3>3, <3>5
    <3>6. CASE K[c] = r /\ ~Passed(B, L, r) /\ c = b.cat
      <4>1. b.gen # 0 /\ B.gen = b.gen /\ ~Behind(old, r)
        BY <2>1, <3>3, <3>6 DEF Passed
      <4>2. Body[old].seq < b.seq /\ b.gen = Body[p].gen
        BY <1>13, <2>1, <3>3, <3>4, <4>1 DEF Behind
      <4>3. r # Absent
        BY MissingAssumption
      <4> QED BY <1>13, <3>1, <3>3, <3>4, <3>6, <4>2, <4>3
    <3> QED BY <1>8, <2>1, <3>5, <3>6
  <2> QED BY <2>2, <2>3
<1>15. Forward(L, K)
  <2> SUFFICES ASSUME NEW c \in Categories, L[c] # Absent, Body[L[c]].gen # 0
               PROVE  /\ K[c] # Absent /\ Body[K[c]].inst = Body[L[c]].inst
                      /\ \/ Body[K[c]].gen > Body[L[c]].gen
                         \/ Body[K[c]].gen = Body[L[c]].gen /\ Body[K[c]].seq >= Body[L[c]].seq
    BY DEF Forward
  <2>1. /\ Body[L[c]].gen \in Nat /\ Body[L[c]].seq \in Nat
        /\ A # Absent /\ Body[L[c]].inst = A.inst
    BY <1>12
  <2>2. CASE K[c] = L[c]
    BY <2>1, <2>2
  <2>3. CASE K[c] = r /\ ~Passed(B, L, r) /\ c = b.cat
    <3>1. b.inst = B.inst /\ ~Behind(L[c], r)
      BY <2>3 DEF Passed
    <3>2. r # Absent
      BY MissingAssumption
    <3> QED BY <1>11, <1>13, <2>1, <2>3, <3>1, <3>2 DEF Behind
  <2> QED BY <1>8, <2>2, <2>3
<1>16. HeadInv(R \cup {r}, H, B, K)
  BY <1>1, <1>4, <1>7, <1>10, <1>14 DEF HeadInv
<1> QED BY <1>15, <1>16 DEF H, B, K

----------------------------------------------------------------------------
(* The age of a capture.                                                   *)

\* A bound and the reading it was recorded at say how far before the boot of
\* the server, give or take a step of its clock, the capture may lie at most.
\* Both stay as they are while the clock goes on.
AgesSound(g) ==
  \A r \in Ids :
    g[r] # Absent =>
      /\ captured[r] # Absent
      /\ g[r].epoch <= serving.epoch
      /\ g[r].epoch = serving.epoch =>
           g[r].bound - g[r].received >= (serving.base - captured[r].at) + (Quantum - 1)

\* The machines' clocks have started, and what was sent for the outstanding
\* challenge was sent after it was issued.
ClocksSound ==
  /\ serving.base <= clock /\ boot # <<>>
  /\ \A r \in Ids : captured[r] # Absent => captured[r].boot \in DOMAIN boot
  /\ \A m \in sent : m.context.boot \in DOMAIN boot
  /\ challenge # Absent => challenge.epoch <= serving.epoch
  /\ challenge # Absent /\ challenge.epoch = serving.epoch =>
       challenge.issued <= clock - serving.base
  /\ challenge # Absent /\ challenge.epoch = serving.epoch =>
       \A m \in sent :
         m.context.nonce = challenge.nonce => challenge.issued <= m.context.at - serving.base

\* A proof was sent at some time t, after reading i of the server's clock.
ProofSound(proof) ==
  proof # Absent =>
    /\ proof.boot \in DOMAIN boot
    /\ proof.elapsed \in Nat
    /\ \E t \in Nat, i \in Nat :
         /\ proof.uptime = Uptime(t, proof.boot)
         /\ proof.elapsed = ServerClock - i
         /\ i <= t - serving.base

LEMMA UptimeTyped ==
  ASSUME EndpointTypeOK, NEW t \in Nat, NEW b \in DOMAIN boot
  PROVE  /\ boot[b] \in Nat /\ Uptime(t, b) \in Int
         /\ (t - boot[b]) - (Quantum - 1) <= Uptime(t, b) /\ Uptime(t, b) <= t - boot[b]
<1>1. boot[b] \in Nat
  BY DEF EndpointTypeOK
<1>2. t - boot[b] \in Int
  BY <1>1
<1> QED BY <1>1, <1>2, ReadingBounds DEF Uptime

LEMMA ServerClockTyped ==
  ASSUME EndpointTypeOK, ClocksSound
  PROVE  /\ ServerClock \in Nat /\ serving.base \in Nat /\ serving.epoch \in Nat /\ clock \in Nat
         /\ (clock - serving.base) - (Quantum - 1) <= ServerClock
         /\ ServerClock <= clock - serving.base
<1>1. serving.base \in Nat /\ serving.epoch \in Nat /\ clock \in Nat /\ serving.base <= clock
  BY DEF EndpointTypeOK, ClocksSound
<1>2. clock - serving.base \in Int /\ clock - serving.base >= 0
  BY <1>1
<1> QED BY <1>1, <1>2, ReadingBounds DEF ServerClock

LEMMA AgeStep ==
  ASSUME EndpointTypeOK, ClocksSound, NEW proof, ProofSound(proof),
         NEW g \in Ages, NEW r \in Ids, captured[r] # Absent
  PROVE  /\ NewAges(g, r, proof) \in Ages
         /\ AgesSound(g) => AgesSound(NewAges(g, r, proof))
<1>1. CASE ~Dated(g, r, proof)
  BY <1>1 DEF NewAges
<1>2. CASE Dated(g, r, proof)
  <2> DEFINE a == Dating(r, proof)
             b == proof.boot
             tc == captured[r].at
  <2>1. /\ proof # Absent /\ captured[r].boot = b
        /\ Since(r, proof) >= 0 /\ g[r] = Absent
    BY <1>2 DEF Dated
  <2>2. PICK t \in Nat, i \in Nat :
          /\ proof.uptime = Uptime(t, b)
          /\ proof.elapsed = ServerClock - i
          /\ i <= t - serving.base
    BY <2>1 DEF ProofSound
  <2>3. b \in DOMAIN boot /\ proof.elapsed \in Nat
    BY <2>1 DEF ProofSound
  <2>4. tc \in Nat
    BY DEF EndpointTypeOK, CaptureRow
  <2>5. /\ boot[b] \in Nat /\ Uptime(t, b) \in Int /\ Uptime(tc, b) \in Int
        /\ (t - boot[b]) - (Quantum - 1) <= Uptime(t, b)
        /\ Uptime(tc, b) <= tc - boot[b]
    BY <2>3, <2>4, UptimeTyped
  <2>6. Since(r, proof) = Uptime(t, b) - Uptime(tc, b)
    BY <2>1, <2>2 DEF Since
  <2>7. Guard \in Nat /\ Quantum \in Nat /\ Guard >= (Quantum - 1) + (Quantum - 1)
    BY EndpointAssumption
  <2>8. ServerClock \in Nat /\ serving.base \in Nat /\ serving.epoch \in Nat
    BY ServerClockTyped
  <2>9. /\ a.epoch = serving.epoch /\ a.received = ServerClock
        /\ a.bound = Since(r, proof) + proof.elapsed + Guard
        /\ a = [epoch |-> serving.epoch, received |-> ServerClock, bound |-> a.bound]
    BY DEF Dating
  <2>10. a.bound \in Nat
    BY <2>1, <2>3, <2>5, <2>6, <2>7, <2>9
  <2>11. a \in AgeRow
    BY <2>8, <2>9, <2>10 DEF AgeRow
  <2>12. a.bound - a.received >= (serving.base - tc) + (Quantum - 1)
    <3>1. t - tc - (Quantum - 1) <= Since(r, proof)
      BY <2>4, <2>5, <2>6, <2>7
    <3>2. Since(r, proof) \in Int
      BY <2>5, <2>6
    <3>3. a.bound - a.received = Since(r, proof) - i + Guard
      BY <2>2, <2>7, <2>8, <2>9, <3>2
    <3> QED BY <2>2, <2>4, <2>7, <2>8, <3>1, <3>2, <3>3
  <2>13. NewAges(g, r, proof) = [g EXCEPT ![r] = a]
    BY <1>2 DEF NewAges
  <2>14. NewAges(g, r, proof) \in Ages
    BY <2>11, <2>13 DEF Ages
  <2> HIDE DEF a
  <2>15. ASSUME AgesSound(g) PROVE AgesSound([g EXCEPT ![r] = a])
    <3> SUFFICES ASSUME NEW q \in Ids, [g EXCEPT ![r] = a][q] # Absent
                 PROVE  LET h == [g EXCEPT ![r] = a] IN
                          /\ captured[q] # Absent
                          /\ h[q].epoch <= serving.epoch
                          /\ h[q].epoch = serving.epoch =>
                               h[q].bound - h[q].received >= (serving.base - captured[q].at) + (Quantum - 1)
      BY DEF AgesSound
    <3>1. CASE q = r
      <4>1. [g EXCEPT ![r] = a][q] = a
        BY <3>1 DEF Ages
      <4> QED BY <2>8, <2>9, <2>12, <3>1, <4>1
    <3>2. CASE q # r
      <4>1. [g EXCEPT ![r] = a][q] = g[q]
        BY <3>2 DEF Ages
      <4> QED BY <2>15, <4>1 DEF AgesSound
    <3> QED BY <3>1, <3>2
  <2> QED BY <2>13, <2>14, <2>15
<1> QED BY <1>1, <1>2

----------------------------------------------------------------------------
(* A batch: what holds before each of its lines.                           *)

HeadOf(D) == HeadInv(D.records, D.generation, D.active, D.latest)

BatchInv(D) ==
  /\ D \in TableRows
  /\ HeadOf(D)
  /\ Forward(latest, D.latest)
  /\ records \subseteq D.records
  /\ \A r \in D.records : captured[r] # Absent
  /\ AgesSound(D.age)

LEMMA InsertTyped ==
  ASSUME EndpointTypeOK, ClocksSound, NEW proof, ProofSound(proof),
         NEW D \in TableRows, NEW r \in Ids, captured[r] # Absent
  PROVE  Insert(D, r, proof) \in TableRows
<1>1. CASE r \in D.records
  BY <1>1 DEF Insert
<1>2. CASE r \notin D.records
  <2>0. /\ D.records \in SUBSET Ids /\ D.generation \in Generations
        /\ D.active \in ActiveRow \cup {Absent} /\ D.latest \in Latests /\ D.age \in Ages
    BY DEF TableRows
  <2>1. NewG(D.generation, r) \in Generations
    BY <2>0, BodyTyped DEF NewG, Generations
  <2>2. NewA(D.active, r) \in ActiveRow \cup {Absent}
    BY <2>0, BodyTyped DEF NewA, ActiveRow
  <2>3. NewL(NewA(D.active, r), D.latest, r) \in Latests
    BY <2>0, BodyTyped DEF NewL, Latests
  <2>4. NewAges(D.age, r, proof) \in Ages
    BY <2>0, AgeStep
  <2>5. D.records \cup {r} \in SUBSET Ids
    BY <2>0
  <2>6. Insert(D, r, proof) = NewRow(D, r, proof)
    BY <1>2, InsertEffect
  <2> QED BY <2>1, <2>2, <2>3, <2>4, <2>5, <2>6 DEF NewRow, TableRows
<1> QED BY <1>1, <1>2

LEMMA ForwardTransitive ==
  ASSUME NEW L \in Latests, NEW K \in Latests, NEW M \in Latests, Forward(L, K), Forward(K, M)
  PROVE  Forward(L, M)
<1> SUFFICES ASSUME NEW c \in Categories, L[c] # Absent, Body[L[c]].gen # 0
             PROVE  /\ M[c] # Absent /\ Body[M[c]].inst = Body[L[c]].inst
                    /\ \/ Body[M[c]].gen > Body[L[c]].gen
                       \/ Body[M[c]].gen = Body[L[c]].gen /\ Body[M[c]].seq >= Body[L[c]].seq
  BY DEF Forward
<1>1. L[c] \in Ids /\ Body[L[c]].gen \in Nat /\ Body[L[c]].seq \in Nat
  <2>1. L[c] \in Ids
    BY DEF Latests
  <2> QED BY <2>1, BodyTyped
<1>2. /\ K[c] # Absent /\ Body[K[c]].inst = Body[L[c]].inst
      /\ \/ Body[K[c]].gen > Body[L[c]].gen
         \/ Body[K[c]].gen = Body[L[c]].gen /\ Body[K[c]].seq >= Body[L[c]].seq
  BY DEF Forward
<1>3. K[c] \in Ids /\ Body[K[c]].gen \in Nat /\ Body[K[c]].seq \in Nat
  <2>1. K[c] \in Ids
    BY <1>2 DEF Latests
  <2> QED BY <2>1, BodyTyped
<1>4. /\ M[c] # Absent /\ Body[M[c]].inst = Body[K[c]].inst
      /\ \/ Body[M[c]].gen > Body[K[c]].gen
         \/ Body[M[c]].gen = Body[K[c]].gen /\ Body[M[c]].seq >= Body[K[c]].seq
  BY <1>1, <1>2, <1>3 DEF Forward
<1>5. M[c] \in Ids /\ Body[M[c]].gen \in Nat /\ Body[M[c]].seq \in Nat
  <2>1. M[c] \in Ids
    BY <1>4 DEF Latests
  <2> QED BY <2>1, BodyTyped
<1> QED BY <1>1, <1>2, <1>3, <1>4, <1>5

LEMMA InsertKeeps ==
  ASSUME EndpointTypeOK, ClocksSound, NEW proof, ProofSound(proof),
         NEW D, BatchInv(D), NEW r \in Ids, captured[r] # Absent, ~Refused(D, r)
  PROVE  BatchInv(Insert(D, r, proof))
<1>0. D \in TableRows /\ Insert(D, r, proof) \in TableRows
  BY InsertTyped DEF BatchInv
<1>1. CASE r \in D.records
  BY <1>1 DEF Insert
<1>2. CASE r \notin D.records
  <2> DEFINE R == D.records
             G == D.generation
             A == D.active
             L == D.latest
             g == D.age
             E == Insert(D, r, proof)
             K == NewL(NewA(A, r), L, r)
  <2>0. /\ R \in SUBSET Ids /\ G \in Generations /\ A \in ActiveRow \cup {Absent}
        /\ L \in Latests /\ g \in Ages
    BY <1>0 DEF TableRows
  <2>1. /\ HeadInv(R, G, A, L) /\ Forward(latest, L) /\ records \subseteq R
        /\ \A q \in R : captured[q] # Absent
        /\ AgesSound(g)
    BY DEF BatchInv, HeadOf
  <2>2. /\ \A q \in R \ {r} : NameOf[q] # NameOf[r]
        /\ Body[r].gen # 0 => G[<<Body[r].inst, Body[r].gen>>] \in {Absent, Body[r].epoch}
    BY <1>2 DEF Refused
  <2>3. E = NewRow(D, r, proof)
    BY <1>0, <1>2, InsertEffect
  <2>4. /\ E.records = R \cup {r} /\ E.generation = NewG(G, r) /\ E.active = NewA(A, r)
        /\ E.latest = K /\ E.age = NewAges(g, r, proof)
    BY <2>3 DEF NewRow
  <2> HIDE DEF E, R, G, A, L, g
  <2>5. HeadInv(R \cup {r}, NewG(G, r), NewA(A, r), K) /\ Forward(L, K)
    BY <2>0, <2>1, <2>2, HeadStep
  <2> HIDE DEF K
  <2>6. AgesSound(NewAges(g, r, proof))
    BY <2>0, <2>1, AgeStep
  <2>7. Forward(latest, K)
    <3>1. latest \in Latests /\ K \in Latests
      BY <1>0, <2>4 DEF EndpointTypeOK, Latests, TableRows, E
    <3> QED BY <2>0, <2>1, <2>5, <3>1, ForwardTransitive
  <2>8. BatchInv(E)
    <3>1. E \in TableRows
      BY <1>0 DEF E
    <3>2. HeadOf(E)
      BY <2>4, <2>5 DEF HeadOf
    <3> QED BY <2>1, <2>4, <2>6, <2>7, <3>1, <3>2 DEF BatchInv
  <2> QED BY <2>8 DEF E
<1> QED BY <1>1, <1>2

\* A batch none of whose lines is refused: the tables after it.
LEMMA BatchKeeps ==
  ASSUME EndpointTypeOK, ClocksSound, NEW proof, ProofSound(proof), BatchInv(Tables),
         NEW batch \in Seq(Ids),
         \A i \in DOMAIN batch : captured[batch[i]] # Absent,
         \A i \in DOMAIN batch : ~Refused(Before(batch, proof)[i], batch[i])
  PROVE  BatchInv(Before(batch, proof)[Len(batch) + 1])
<1> DEFINE hi == Len(batch) + 1
           IsSteps(f) == f = [i \in 1..hi |->
                                IF i = 1 THEN Tables ELSE Insert(f[i - 1], batch[i - 1], proof)]
           F == [p \in (2..hi) \X TableRows |-> Insert(p[2], batch[p[1] - 1], proof)]
<1>0. Len(batch) \in Nat /\ hi \in Int /\ 1 <= hi /\ \A n \in 2..hi : n - 1 \in 1..Len(batch)
  OBVIOUS
<1>1. DOMAIN batch = 1..Len(batch) /\ \A i \in 1..Len(batch) : batch[i] \in Ids
  OBVIOUS
<1>2. Tables \in TableRows
  BY DEF BatchInv
<1>3. \A n \in 2..hi : \A D \in TableRows : Insert(D, batch[n - 1], proof) \in TableRows
  BY <1>0, <1>1, InsertTyped
<1>4. \A n \in 2..hi : \A D \in TableRows : F[<<n, D>>] = Insert(D, batch[n - 1], proof)
  OBVIOUS
<1> HIDE DEF F, hi
<1>5. PICK f \in [1..hi -> TableRows] :
        f[1] = Tables /\ \A n \in 2..hi : f[n] = F[<<n, f[n - 1]>>]
  <2> HIDE DEF IsSteps
  <2>1. 1 \in Int /\ hi \in Int /\ 1 <= hi /\ 1 + 1 = 2
    BY <1>0
  <2>2. Loops(1, hi, TableRows, F)
    BY <1>3, <1>4, <2>1 DEF Loops
  <2>3. \E f : IsRun(f, 1, hi, TableRows, Tables, F)
    BY <1>2, <2>1, <2>2, Iteration
  <2> QED BY <2>1, <2>3 DEF IsRun
<1>6. IsSteps(f)
  <2>1. ASSUME NEW n \in 1..hi
        PROVE  f[n] = IF n = 1 THEN Tables ELSE Insert(f[n - 1], batch[n - 1], proof)
    <3>1. CASE n = 1
      BY <1>5, <3>1
    <3>2. CASE n # 1
      <4>1. n \in 2..hi /\ n - 1 \in 1..hi
        BY <1>0, <3>2
      <4>2. f[n - 1] \in TableRows
        BY <4>1
      <4> QED BY <1>4, <1>5, <3>2, <4>1, <4>2
    <3> QED BY <3>1, <3>2
  <2>2. f = [n \in 1..hi |-> f[n]]
    OBVIOUS
  <2> QED BY <2>1, <2>2
<1> DEFINE W == CHOOSE g : IsSteps(g)
<1>7. Before(batch, proof) = W
  BY DEF Before, hi
<1>8. IsSteps(W)
  <2> HIDE DEF IsSteps
  <2> QED BY <1>6
<1> HIDE DEF W
<1>9. W[1] = Tables
  BY <1>0, <1>8
<1>10. \A n \in 2..hi : W[n] = Insert(W[n - 1], batch[n - 1], proof)
  <2> SUFFICES ASSUME NEW n \in 2..hi PROVE W[n] = Insert(W[n - 1], batch[n - 1], proof)
    OBVIOUS
  <2>1. n \in 1..hi /\ n # 1
    BY <1>0
  <2> QED BY <1>8, <2>1
<1> HIDE DEF IsSteps
<1> DEFINE Bad == {n \in 1..hi : ~BatchInv(W[n])}
<1>11. Bad = {}
  <2> SUFFICES ASSUME Bad # {} PROVE FALSE
    OBVIOUS
  <2>1. Bad \in SUBSET Nat
    BY <1>0
  <2>2. PICK n \in Bad : \A k \in Bad : n <= k
    <3> HIDE DEF Bad
    <3> QED BY <2>1, LeastExists
  <2>3. n \in 1..hi /\ ~BatchInv(W[n]) /\ n # 1
    BY <1>9
  <2>4. n \in 2..hi /\ n - 1 \in 1..hi /\ ~(n <= n - 1) /\ n - 1 \in DOMAIN batch
    BY <1>0, <1>1, <2>3
  <2>5. BatchInv(W[n - 1])
    <3>1. n - 1 \notin Bad
      <4> HIDE DEF Bad
      <4> QED BY <2>2, <2>4
    <3> QED BY <2>4, <3>1
  <2>6. batch[n - 1] \in Ids /\ captured[batch[n - 1]] # Absent /\ ~Refused(W[n - 1], batch[n - 1])
    BY <1>1, <1>7, <2>4
  <2>7. BatchInv(Insert(W[n - 1], batch[n - 1], proof))
    BY <2>5, <2>6, InsertKeeps
  <2> QED BY <1>10, <2>3, <2>4, <2>7
<1>12. BatchInv(W[hi])
  BY <1>0, <1>11
<1> QED BY <1>7, <1>12 DEF hi

----------------------------------------------------------------------------
(* The store of Windows records.                                           *)

RecordsCaptured == \A r \in records : captured[r] # Absent

WindowsInv ==
  /\ EndpointTypeOK
  /\ ClocksSound
  /\ HeadInv(records, generation, active, latest)
  /\ AgesSound(age)
  /\ RecordsCaptured

\* What the transaction of a batch does to the records on file, and what every
\* other step leaves.
Moved == Forward(latest, latest') /\ records \subseteq records'
StillCaptured == \A r \in Ids : captured[r] # Absent => captured'[r] = captured[r]

LEMMA ForwardReflexive ==
  ASSUME NEW L \in Latests PROVE Forward(L, L)
<1> SUFFICES ASSUME NEW c \in Categories, L[c] # Absent PROVE Body[L[c]].seq >= Body[L[c]].seq
  BY DEF Forward
<1>1. L[c] \in Ids
  BY DEF Latests
<1>2. Body[L[c]].seq \in Nat
  BY <1>1, BodyTyped
<1> QED BY <1>2

LEMMA ProofIsSound ==
  ASSUME EndpointTypeOK, ClocksSound, NEW m \in sent \cup Plain
  PROVE  ProofSound(Proof(m))
<1>1. CASE ~Proves(m)
  BY <1>1 DEF Proof, ProofSound
<1>2. CASE Proves(m)
  <2>1. m.context # Absent /\ challenge # Absent /\ challenge.epoch = serving.epoch
        /\ challenge.nonce = m.context.nonce /\ ServerClock - challenge.issued \in 0..ChallengeTTL
    BY <1>2 DEF Proves
  <2>2. m \in sent
    BY <2>1 DEF Plain
  <2>3. m.context.at \in Nat /\ m.context.boot \in DOMAIN boot /\ challenge.issued \in Nat
    BY <2>1, <2>2 DEF EndpointTypeOK, ClocksSound, ChallengeRow
  <2>4. challenge.issued <= m.context.at - serving.base
    BY <2>1, <2>2 DEF ClocksSound
  <2>5. ServerClock - challenge.issued \in Nat
    BY <2>1, EndpointAssumption
  <2> DEFINE proof == Proof(m)
  <2>6. /\ proof.boot = m.context.boot /\ proof.uptime = Uptime(m.context.at, m.context.boot)
        /\ proof.elapsed = ServerClock - challenge.issued
    BY <1>2 DEF Proof
  <2> HIDE DEF proof
  <2>7. ProofSound(proof)
    BY <2>3, <2>4, <2>5, <2>6 DEF ProofSound
  <2> QED BY <2>7 DEF proof
<1> QED BY <1>1, <1>2

LEMMA TablesSound == WindowsInv => BatchInv(Tables)
<1> SUFFICES ASSUME WindowsInv PROVE BatchInv(Tables)
  OBVIOUS
<1>1. /\ records \in SUBSET Ids /\ generation \in Generations /\ active \in ActiveRow \cup {Absent}
      /\ latest \in Latests /\ age \in Ages
  BY DEF WindowsInv, EndpointTypeOK, Generations, Latests, Ages
<1>2. /\ Tables.records = records /\ Tables.generation = generation /\ Tables.active = active
      /\ Tables.latest = latest /\ Tables.age = age /\ Tables \in TableRows
  BY <1>1 DEF Tables, TableRows
<1>3. Forward(latest, latest)
  BY <1>1, ForwardReflexive
<1> QED BY <1>2, <1>3 DEF WindowsInv, BatchInv, HeadOf, RecordsCaptured

LEMMA ReceiveKeeps ==
  ASSUME WindowsInv, NEW m \in sent \cup Plain, Receive(m)
  PROVE  WindowsInv' /\ Moved /\ StillCaptured
<1> DEFINE batch == m.batch
           proof == Proof(m)
           E == Before(batch, proof)[Len(batch) + 1]
<1>0. EndpointTypeOK /\ ClocksSound
  BY DEF WindowsInv
<1>1. batch \in Seq(Ids)
  <2>1. batch \in Packets
    BY <1>0 DEF Plain, EndpointTypeOK
  <2> QED BY <2>1, EndpointAssumption
<1>2. ProofSound(proof)
  BY <1>0, ProofIsSound
<1>3. /\ \A i \in DOMAIN batch : captured[batch[i]] # Absent
      /\ \A i \in DOMAIN batch : ~Refused(Before(batch, proof)[i], batch[i])
      /\ records' = E.records /\ generation' = E.generation /\ active' = E.active
      /\ latest' = E.latest /\ age' = E.age
      /\ challenge' = (IF Proves(m) THEN [challenge EXCEPT !.consumed = TRUE] ELSE challenge)
      /\ UNCHANGED <<clock, boot, serving, captured, sent>>
  BY DEF Receive
<1> HIDE DEF batch, proof
<1>4. BatchInv(E)
  BY <1>0, <1>1, <1>2, <1>3, TablesSound, BatchKeeps
<1> HIDE DEF E
<1>5. /\ records' \in SUBSET Ids /\ generation' \in Generations /\ active' \in ActiveRow \cup {Absent}
      /\ latest' \in Latests /\ age' \in Ages
  BY <1>3, <1>4 DEF BatchInv, TableRows
<1>6. /\ HeadInv(records', generation', active', latest') /\ Moved /\ AgesSound(age')
      /\ \A r \in records' : captured[r] # Absent
  BY <1>3, <1>4 DEF BatchInv, HeadOf, Moved
<1>7. /\ challenge' \in ChallengeRow \cup {Absent}
      /\ challenge = Absent => challenge' = Absent
      /\ challenge # Absent => /\ challenge' # Absent /\ challenge'.nonce = challenge.nonce
                               /\ challenge'.epoch = challenge.epoch
                               /\ challenge'.issued = challenge.issued
  <2>1. CASE ~Proves(m)
    BY <1>0, <1>3, <2>1 DEF EndpointTypeOK
  <2>2. CASE Proves(m)
    <3>1. challenge \in ChallengeRow
      BY <1>0, <2>2 DEF EndpointTypeOK, Proves
    <3>2. challenge' = [challenge EXCEPT !.consumed = TRUE]
      BY <1>3, <2>2
    <3>3. challenge' \in ChallengeRow
      BY <3>1, <3>2 DEF ChallengeRow
    <3> QED BY <3>1, <3>2, <3>3, MissingAssumption DEF ChallengeRow
  <2> QED BY <2>1, <2>2
<1>8. EndpointTypeOK'
  BY <1>0, <1>3, <1>5, <1>7 DEF EndpointTypeOK, Generations, Latests, Ages
<1>9. ClocksSound'
  BY <1>0, <1>3, <1>7 DEF ClocksSound
<1>10. AgesSound(age)'
  BY <1>3, <1>6 DEF AgesSound
<1>11. RecordsCaptured'
  BY <1>3, <1>6 DEF RecordsCaptured
<1>12. StillCaptured
  BY <1>3 DEF StillCaptured
<1> QED BY <1>6, <1>8, <1>9, <1>10, <1>11, <1>12 DEF WindowsInv

\* Every other step leaves the tables of records alone.
Elsewhere == UNCHANGED <<records, generation, active, latest, age>>

LEMMA ElsewhereKeeps ==
  ASSUME WindowsInv, Elsewhere, EndpointTypeOK', ClocksSound', StillCaptured, AgesSound(age)'
  PROVE  WindowsInv' /\ Moved /\ StillCaptured
<1>1. latest \in Latests /\ records \in SUBSET Ids
  BY DEF WindowsInv, EndpointTypeOK, Latests
<1>2. Moved
  BY <1>1, ForwardReflexive DEF Moved, Elsewhere
<1>3. RecordsCaptured'
  BY <1>1 DEF WindowsInv, RecordsCaptured, Elsewhere, StillCaptured
<1>4. HeadInv(records, generation, active, latest)'
  BY DEF WindowsInv, Elsewhere
<1> QED BY <1>2, <1>3, <1>4 DEF WindowsInv

\* Ages stay sound while the server process and what was captured stay.
LEMMA AgesStay ==
  ASSUME EndpointTypeOK, AgesSound(age), age' = age, serving' = serving, StillCaptured
  PROVE  AgesSound(age)'
BY DEF AgesSound, StillCaptured

LEMMA TickKeeps ==
  ASSUME WindowsInv, TickEndpoint PROVE WindowsInv' /\ Moved /\ StillCaptured
<1>0. /\ clock \in Nat /\ clock' = clock + 1 /\ clock' \in 0..MaxClock
      /\ UNCHANGED <<boot, serving, captured, sent, records, generation, active, latest, challenge, age>>
  BY EndpointAssumption DEF WindowsInv, EndpointTypeOK, TickEndpoint
<1>1. EndpointTypeOK'
  BY <1>0 DEF WindowsInv, EndpointTypeOK
<1>2. serving.base \in Nat /\ (challenge # Absent => challenge.issued \in Nat)
  BY DEF WindowsInv, EndpointTypeOK, ChallengeRow
<1>3. ClocksSound'
  BY <1>0, <1>2 DEF WindowsInv, ClocksSound
<1>4. StillCaptured
  BY <1>0 DEF StillCaptured
<1> QED BY <1>0, <1>1, <1>3, <1>4, AgesStay, ElsewhereKeeps DEF WindowsInv, Elsewhere

LEMMA RebootKeeps ==
  ASSUME WindowsInv, RebootEndpoint PROVE WindowsInv' /\ Moved /\ StillCaptured
<1>0. /\ clock \in Nat /\ boot \in Seq(Nat) /\ boot' = Append(boot, clock)
      /\ UNCHANGED <<clock, serving, captured, sent, records, generation, active, latest, challenge, age>>
  BY EndpointAssumption DEF WindowsInv, EndpointTypeOK, RebootEndpoint
<1>1. boot' \in Seq(Nat) /\ \A b \in DOMAIN boot : b \in DOMAIN boot'
  BY <1>0
<1>2. EndpointTypeOK'
  BY <1>0, <1>1 DEF WindowsInv, EndpointTypeOK
<1>3. ClocksSound'
  BY <1>0, <1>1 DEF WindowsInv, ClocksSound
<1>4. StillCaptured
  BY <1>0 DEF StillCaptured
<1> QED BY <1>0, <1>2, <1>3, <1>4, AgesStay, ElsewhereKeeps DEF WindowsInv, Elsewhere

LEMMA CaptureKeeps ==
  ASSUME WindowsInv, NEW r \in Ids, Capture(r) PROVE WindowsInv' /\ Moved /\ StillCaptured
<1>0. /\ clock \in Nat /\ boot \in Seq(Nat) /\ captured[r] = Absent
      /\ captured' = [captured EXCEPT ![r] = [at |-> clock, boot |-> Len(boot)]]
      /\ UNCHANGED <<clock, boot, serving, sent, records, generation, active, latest, challenge, age>>
  BY EndpointAssumption DEF WindowsInv, EndpointTypeOK, Capture
<1>1. [at |-> clock, boot |-> Len(boot)] \in CaptureRow
  BY <1>0 DEF CaptureRow
<1>2. EndpointTypeOK'
  BY <1>0, <1>1 DEF WindowsInv, EndpointTypeOK
<1>3. Len(boot) \in DOMAIN boot
  BY <1>0 DEF WindowsInv, ClocksSound
<1>4. ClocksSound'
  BY <1>0, <1>3 DEF WindowsInv, EndpointTypeOK, ClocksSound
<1>5. StillCaptured
  BY <1>0 DEF WindowsInv, EndpointTypeOK, StillCaptured
<1> QED BY <1>0, <1>2, <1>4, <1>5, AgesStay, ElsewhereKeeps DEF WindowsInv, Elsewhere

LEMMA SendKeeps ==
  ASSUME WindowsInv, NEW b \in Packets, NEW as \in Timed, Send(b, as)
  PROVE  WindowsInv' /\ Moved /\ StillCaptured
<1> DEFINE x == [nonce |-> challenge.nonce, at |-> clock, boot |-> Len(boot), as |-> Origin(as)]
           m == [batch |-> b, context |-> x]
<1>0. /\ clock \in Nat /\ boot \in Seq(Nat) /\ challenge # Absent /\ challenge \in ChallengeRow
      /\ Body[as].gen # 0 /\ as \in Ids /\ sent' = sent \cup {m}
      /\ UNCHANGED <<clock, boot, serving, captured, records, generation, active, latest, challenge, age>>
  <2>1. /\ challenge # Absent /\ Body[as].gen # 0 /\ sent' = sent \cup {m}
        /\ UNCHANGED <<clock, boot, serving, captured, records, generation, active, latest, challenge, age>>
    BY Zenon DEF Send
  <2>2. clock \in Nat /\ boot \in Seq(Nat) /\ challenge \in ChallengeRow \cup {Absent}
    BY DEF WindowsInv, EndpointTypeOK
  <2>3. as \in Ids
    BY EndpointAssumption
  <2> HIDE DEF m
  <2> QED BY <2>1, <2>2, <2>3
<1>1. Origin(as) \in Installs \X Gens \X Epochs
  BY <1>0, BodyTyped DEF Origin
<1>2. x \in [nonce: Nonces, at: Nat, boot: Nat, as: Installs \X Gens \X Epochs]
  <2>1. challenge.nonce \in Nonces /\ Len(boot) \in Nat
    BY <1>0 DEF ChallengeRow
  <2> DEFINE o == Origin(as)
             n == challenge.nonce
             k == Len(boot)
  <2> HIDE DEF o, n, k
  <2>2. [nonce |-> n, at |-> clock, boot |-> k, as |-> o]
          \in [nonce: Nonces, at: Nat, boot: Nat, as: Installs \X Gens \X Epochs]
    BY <1>0, <1>1, <2>1 DEF o, n, k
  <2> QED BY <2>2, Zenon DEF o, n, k
<1>3. /\ m \in [batch: Packets, context: [nonce: Nonces, at: Nat, boot: Nat,
                                          as: Installs \X Gens \X Epochs]]
      /\ m.context.at = clock /\ m.context.boot = Len(boot)
  <2>1. m.context.at = clock /\ m.context.boot = Len(boot)
    OBVIOUS
  <2> HIDE DEF x
  <2> QED BY <1>2, <2>1
<1> HIDE DEF m
<1>4. EndpointTypeOK'
  BY <1>0, <1>3 DEF WindowsInv, EndpointTypeOK
<1>5. Len(boot) \in DOMAIN boot
  BY <1>0 DEF WindowsInv, ClocksSound
<1>6. ClocksSound'
  BY <1>0, <1>3, <1>5 DEF WindowsInv, ClocksSound
<1>7. StillCaptured
  BY <1>0 DEF StillCaptured
<1> QED BY <1>0, <1>4, <1>6, <1>7, AgesStay, ElsewhereKeeps DEF WindowsInv, Elsewhere

LEMMA IssueKeeps ==
  ASSUME WindowsInv, NEW n \in Nonces, IssueFreshness(n)
  PROVE  WindowsInv' /\ Moved /\ StillCaptured
<1>0. /\ \A m \in sent : m.context.nonce # n
      /\ challenge' = [nonce |-> n, epoch |-> serving.epoch, issued |-> ServerClock, consumed |-> FALSE]
      /\ UNCHANGED <<clock, boot, serving, captured, sent, records, generation, active, latest, age>>
  BY DEF IssueFreshness
<1>1. ServerClock \in Nat /\ serving.epoch \in Nat /\ ServerClock <= clock - serving.base
  BY ServerClockTyped DEF WindowsInv
<1>2. challenge' \in ChallengeRow
  BY <1>0, <1>1 DEF ChallengeRow
<1>3. EndpointTypeOK'
  BY <1>0, <1>2 DEF WindowsInv, EndpointTypeOK
<1>4. challenge'.nonce = n /\ challenge'.epoch = serving.epoch /\ challenge'.issued = ServerClock
  BY <1>0
<1>5. ClocksSound'
  BY <1>0, <1>1, <1>4 DEF WindowsInv, ClocksSound
<1>6. StillCaptured
  BY <1>0 DEF StillCaptured
<1> QED BY <1>0, <1>3, <1>5, <1>6, AgesStay, ElsewhereKeeps DEF WindowsInv, Elsewhere

LEMMA RestartKeeps ==
  ASSUME WindowsInv, NEW rebooted \in BOOLEAN, RestartServer(rebooted)
  PROVE  WindowsInv' /\ Moved /\ StillCaptured
<1>0. /\ serving' = [epoch |-> serving.epoch + 1, base |-> IF rebooted THEN clock ELSE serving.base]
      /\ UNCHANGED <<clock, boot, captured, sent, records, generation, active, latest, challenge, age>>
  BY DEF RestartServer
<1>1. serving \in [epoch: Nat, base: Nat] /\ clock \in Nat /\ serving.base <= clock
  BY DEF WindowsInv, EndpointTypeOK, ClocksSound
<1>2. /\ serving'.epoch = serving.epoch + 1 /\ serving'.base \in Nat /\ serving'.base <= clock
      /\ serving' \in [epoch: Nat, base: Nat]
  BY <1>0, <1>1
<1>3. EndpointTypeOK'
  BY <1>0, <1>2 DEF WindowsInv, EndpointTypeOK
<1>4. challenge # Absent => challenge.epoch \in Nat /\ challenge.epoch < serving'.epoch
  BY <1>1, <1>2 DEF WindowsInv, EndpointTypeOK, ClocksSound, ChallengeRow
<1>5. ClocksSound'
  BY <1>0, <1>1, <1>2, <1>4 DEF WindowsInv, ClocksSound
<1>6. StillCaptured
  BY <1>0 DEF StillCaptured
<1>7. \A r \in Ids : age[r] # Absent => age[r].epoch \in Nat
  BY DEF WindowsInv, EndpointTypeOK, AgeRow
<1>8. AgesSound(age)'
  BY <1>0, <1>1, <1>2, <1>7 DEF WindowsInv, AgesSound
<1> QED BY <1>0, <1>3, <1>5, <1>6, <1>8, ElsewhereKeeps DEF Elsewhere

LEMMA EndpointInitInv == EndpointInit => WindowsInv
<1> SUFFICES ASSUME EndpointInit PROVE WindowsInv
  OBVIOUS
<1>1. <<0>> \in Seq(Nat) /\ DOMAIN <<0>> = {1} /\ <<0>> # <<>>
  OBVIOUS
<1>2. [at |-> 0, boot |-> 1] \in CaptureRow
  BY DEF CaptureRow
<1>3. EndpointTypeOK
  BY <1>1, <1>2, EndpointAssumption DEF EndpointInit, EndpointTypeOK
<1>4. ClocksSound
  BY <1>1, MissingAssumption DEF EndpointInit, ClocksSound
<1>5. HeadInv(records, generation, active, latest)
  BY DEF EndpointInit, HeadInv, NamesOnce, EpochsAgree, ActiveLeads, OnFile, Heads
<1>6. AgesSound(age) /\ RecordsCaptured
  BY DEF EndpointInit, AgesSound, RecordsCaptured
<1> QED BY <1>3, <1>4, <1>5, <1>6 DEF WindowsInv

LEMMA EndpointStep ==
  WindowsInv /\ [EndpointNext]_endpointVars => WindowsInv' /\ Moved /\ StillCaptured
<1> SUFFICES ASSUME WindowsInv, [EndpointNext]_endpointVars
             PROVE  WindowsInv' /\ Moved /\ StillCaptured
  OBVIOUS
<1>1. CASE UNCHANGED endpointVars
  <2>1. /\ UNCHANGED <<clock, boot, serving, captured, sent, challenge>>
        /\ Elsewhere /\ age' = age
    BY <1>1 DEF endpointVars, Elsewhere
  <2>2. EndpointTypeOK' /\ ClocksSound' /\ StillCaptured
    BY <2>1 DEF WindowsInv, EndpointTypeOK, ClocksSound, StillCaptured, Elsewhere
  <2> QED BY <2>1, <2>2, AgesStay, ElsewhereKeeps DEF WindowsInv
<1>2. CASE TickEndpoint
  BY <1>2, TickKeeps
<1>3. CASE RebootEndpoint
  BY <1>3, RebootKeeps
<1>4. ASSUME NEW r \in Ids, Capture(r) PROVE WindowsInv' /\ Moved /\ StillCaptured
  BY <1>4, CaptureKeeps
<1>5. ASSUME NEW b \in Packets, NEW as \in Timed, Send(b, as)
      PROVE  WindowsInv' /\ Moved /\ StillCaptured
  BY <1>5, SendKeeps
<1>6. ASSUME NEW n \in Nonces, IssueFreshness(n) PROVE WindowsInv' /\ Moved /\ StillCaptured
  BY <1>6, IssueKeeps
<1>7. ASSUME NEW m \in sent \cup Plain, Receive(m) PROVE WindowsInv' /\ Moved /\ StillCaptured
  BY <1>7, ReceiveKeeps
<1>8. ASSUME NEW rebooted \in BOOLEAN, RestartServer(rebooted)
      PROVE  WindowsInv' /\ Moved /\ StillCaptured
  BY <1>8, RestartKeeps
<1> QED BY <1>1, <1>2, <1>3, <1>4, <1>5, <1>6, <1>7, <1>8 DEF EndpointNext

LEMMA AgesSuffice == WindowsInv => AgeNeverUnderstated
<1> SUFFICES ASSUME WindowsInv, NEW r \in Ids, age[r] # Absent, age[r].epoch = serving.epoch
             PROVE  ReportedAge(r) >= clock - captured[r].at
  BY DEF AgeNeverUnderstated, ReportedAge
<1>1. ReportedAge(r) = age[r].bound + (ServerClock - age[r].received)
  BY DEF ReportedAge
<1>2. /\ captured[r] # Absent
      /\ age[r].bound - age[r].received >= (serving.base - captured[r].at) + (Quantum - 1)
  BY DEF WindowsInv, AgesSound
<1>3. age[r].bound \in Nat /\ age[r].received \in Nat /\ captured[r].at \in Nat
  BY <1>2 DEF WindowsInv, EndpointTypeOK, AgeRow, CaptureRow
<1>4. /\ ServerClock \in Nat /\ serving.base \in Nat /\ clock \in Nat
      /\ (clock - serving.base) - (Quantum - 1) <= ServerClock
  BY ServerClockTyped DEF WindowsInv
<1>5. Quantum \in Nat
  BY EndpointAssumption
<1> QED BY <1>1, <1>2, <1>3, <1>4, <1>5

LEMMA HeadsSuffice == WindowsInv => ProjectionIsHead
<1> SUFFICES ASSUME WindowsInv PROVE ProjectionIsHead
  OBVIOUS
<1>0. /\ EndpointTypeOK /\ records \in SUBSET Ids
      /\ NamesOnce(records) /\ EpochsAgree(records, generation)
      /\ ActiveLeads(records, generation, active) /\ OnFile(records, active, latest)
      /\ Heads(records, active, latest)
  BY DEF WindowsInv, EndpointTypeOK, HeadInv
<1>1. OneStory
  BY <1>0 DEF OneStory, NamesOnce, EpochsAgree
<1>2. ASSUME NEW r \in records, Body[r].gen # 0 PROVE active # Absent
  BY <1>0, <1>2 DEF ActiveLeads
<1>3. ASSUME NEW r \in records, InActive(active, r)
      PROVE  LET b == Body[r] IN
               /\ latest[b.cat] # Absent
               /\ Ordering(b.cat) = "current"
               /\ Body[latest[b.cat]].seq >= b.seq
  <2> DEFINE c == Body[r].cat
             h == latest[c]
  <2>1. h # Absent /\ Body[h].gen = Body[r].gen /\ Body[h].seq >= Body[r].seq
    BY <1>0, <1>3 DEF Heads
  <2>2. r \in Ids /\ c \in Categories /\ Body[r].gen # 0 /\ Body[r].gen = active.gen
    BY <1>0, <1>3, BodyTyped DEF InActive
  <2>3. h \in records /\ Body[h].inst = active.inst
    BY <1>0, <2>1, <2>2 DEF OnFile
  <2>4. active # Absent /\ generation[<<active.inst, active.gen>>] = active.epoch
    BY <1>0, <1>2, <2>2 DEF ActiveLeads
  <2>5. generation[<<Body[h].inst, Body[h].gen>>] = Body[h].epoch
    BY <1>0, <2>1, <2>2, <2>3 DEF EpochsAgree
  <2>6. Body[h].epoch = active.epoch /\ Body[h].gen = active.gen /\ Body[h].gen # 0
    BY <2>1, <2>2, <2>3, <2>4, <2>5
  <2> HIDE DEF c
  <2>7. Ordering(c) = "current"
    BY <2>3, <2>4, <2>6 DEF Ordering
  <2> QED BY <2>1, <2>7 DEF c
<1> QED BY <1>0, <1>1, <1>2, <1>3 DEF ProjectionIsHead, InActive

LEMMA StepKeepsProofs ==
  WindowsInv /\ [EndpointNext]_endpointVars =>
    /\ \A c \in Categories :
         latest[c] # Absent /\ Body[latest[c]].gen # 0 =>
           LET b == Body[latest[c]]  n == Body[latest'[c]] IN
             /\ n.inst = b.inst
             /\ n.gen > b.gen \/ (n.gen = b.gen /\ n.seq >= b.seq)
    /\ \A m \in DOMAIN Manifest : Assembled(m) => Assembled(m)'
<1> SUFFICES ASSUME WindowsInv, [EndpointNext]_endpointVars
             PROVE  /\ \A c \in Categories :
                         latest[c] # Absent /\ Body[latest[c]].gen # 0 =>
                           LET b == Body[latest[c]]  n == Body[latest'[c]] IN
                             /\ n.inst = b.inst
                             /\ n.gen > b.gen \/ (n.gen = b.gen /\ n.seq >= b.seq)
                    /\ \A m \in DOMAIN Manifest : Assembled(m) => Assembled(m)'
  OBVIOUS
<1>1. Forward(latest, latest') /\ records \subseteq records' /\ StillCaptured
  BY EndpointStep DEF Moved
<1>2. \A r \in records : r \in records' /\ captured'[r] = captured[r]
  BY <1>1 DEF StillCaptured, WindowsInv, EndpointTypeOK, RecordsCaptured
<1>3. ASSUME NEW m \in DOMAIN Manifest, Assembled(m) PROVE Assembled(m)'
  BY <1>2, <1>3 DEF Assembled, Scope
<1> QED BY <1>1, <1>3 DEF Forward

LEMMA WindowsPart == [Next]_vars => [EndpointNext]_endpointVars
BY DEF Next, vars, endpointVars

\* The age shown for a capture is never below its true age, for every step of
\* the clocks, every delay, reboot, restart and replay (endpoint_freshness:
\* consume, record_age, status).  CLOCK_GUARD_MS covers one step of each
\* machine's clock, no more is needed.
THEOREM AgeIsNeverUnderstated == Spec => []AgeNeverUnderstated
<1>1. Init => WindowsInv
  BY EndpointInitInv DEF Init
<1>2. WindowsInv /\ [Next]_vars => WindowsInv'
  BY EndpointStep, WindowsPart
<1> QED BY <1>1, <1>2, AgesSuffice, PTL DEF Spec

\* The projection of a category is the newest record on file of the active
\* generation, for any number of installations, generations, records and
\* batches (observe_generation, project_state, projection_status).
THEOREM ProjectionIsAlwaysHead == Spec => []ProjectionIsHead
<1>1. Init => WindowsInv
  BY EndpointInitInv DEF Init
<1>2. WindowsInv /\ [Next]_vars => WindowsInv'
  BY EndpointStep, WindowsPart
<1> QED BY <1>1, <1>2, HeadsSuffice, PTL DEF Spec

\* What was proved of an endpoint is never unproved: no step moves the
\* projection back or takes an assembled inventory apart (project_state,
\* process_snapshots.overview).
THEOREM ProofsAreKeptHolds == Spec => ProofsAreKept
<1>1. Init => WindowsInv
  BY EndpointInitInv DEF Init
<1>2. WindowsInv /\ [Next]_vars => WindowsInv'
  BY EndpointStep, WindowsPart
<1>3. WindowsInv /\ [Next]_vars =>
        [/\ \A c \in Categories :
              latest[c] # Absent /\ Body[latest[c]].gen # 0 =>
                LET b == Body[latest[c]]  n == Body[latest'[c]] IN
                  /\ n.inst = b.inst
                  /\ n.gen > b.gen \/ (n.gen = b.gen /\ n.seq >= b.seq)
         /\ \A m \in DOMAIN Manifest : Assembled(m) => Assembled(m)']_endpointVars
  BY StepKeepsProofs, WindowsPart
<1> QED BY <1>1, <1>2, <1>3, PTL DEF Spec, ProofsAreKept

----------------------------------------------------------------------------
\* Beside the other stores incidents add up too (upsert_incident,
\* update_status).
THEOREM IncidentsStayAddedUp == Spec => []IncidentsAddUp
<1>1. Init => IncidentsInit
  BY DEF Init
<1>2. [Next]_vars => [IncidentsNext]_incidentVars
  BY DEF Next, vars, incidentVars
<1> QED BY <1>1, <1>2, IncidentsInitInv, IncidentsStepInv, IncidentsInvImplies, PTL DEF Spec
=============================================================================
