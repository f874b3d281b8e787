------------------------ MODULE DetectionQueueProofs ------------------------
(***************************************************************************)
(* Theorems about DetectionQueue, for every set of events and alerts, any  *)
(* assignment of events to queues, timestamps and alerts, and any batch    *)
(* size, lease, time of a restart and number of crashes.                   *)
(*                                                                         *)
(* The inductive invariant adds two facts to the invariants of the runs:   *)
(* nothing that belongs before an event in hand still waits, and no event  *)
(* has a rank beyond the number of events that have arrived, which the     *)
(* first needs when a new event arrives while a batch is held.             *)
(* The last part is about the loop that deals the slots of a claim.        *)
(***************************************************************************)
EXTENDS DetectionQueue, FiniteSetTheorems, WellFoundedInduction, TLAPS

\* The events that have been ingested.
Arrived == {e \in Events : detect[e] # "absent"}

\* Ranks are given out in the order of arrival.
RankBound == \A e \in Events : arrival[e] <= Cardinality(Arrived)

\* What sorts and arrived before an event in the worker's hands waits no more.
InOrder ==
    \A e \in held, f \in Events :
        QueueOf[e] = QueueOf[f] /\ Earlier(f, e) /\ arrival[f] < arrival[e]
          => detect[f] # "pending"

IInv ==
    /\ TypeOK
    /\ HeldIsClaimed
    /\ RespondOnce
    /\ AlertsAreJustified
    /\ RankBound
    /\ InOrder

-----------------------------------------------------------------------------
LEMMA ArrivedLemma ==
    /\ IsFiniteSet(Arrived)
    /\ Cardinality(Arrived) \in Nat
    /\ NextRank = Cardinality(Arrived) + 1
  <1>1. IsFiniteSet(Arrived)
    BY FS_Subset, ConstantsAssumption DEF Arrived
  <1>2. QED
    BY <1>1, FS_CardinalityType DEF Arrived, NextRank

\* A step that moves no event in or out of "absent" keeps all ranks good.
LEMMA RankLemma ==
    ASSUME IInv, arrival' = arrival,
           \A e \in Events : (detect'[e] = "absent") <=> (detect[e] = "absent")
    PROVE  RankBound'
  <1>1. Arrived' = Arrived
    BY DEF Arrived
  <1>2. QED
    BY <1>1 DEF IInv, RankBound

LEMMA SortKeyType ==
    ASSUME TypeOK, NEW e \in Events
    PROVE  /\ SortKey(e)[1] \in Nat
           /\ SortKey(e)[2] \in Nat
  <1>1. QueueOf[e] \in {1, 2, 3}
    BY ConstantsAssumption, SMT DEF Queues
  <1>2. Stamp[e] \in Nat /\ Ident[e] \in Nat /\ arrival[e] \in Nat /\ ingested[e] \in Nat
    BY ConstantsAssumption DEF TypeOK
  <1>3. QED
    BY <1>1, <1>2 DEF SortKey

\* The order of the claim queries is strict.
LEMMA EarlierIsStrict ==
    ASSUME TypeOK, NEW e \in Events, NEW f \in Events, Earlier(e, f)
    PROVE  ~Earlier(f, e)
  BY SortKeyType DEF Earlier

-----------------------------------------------------------------------------
LEMMA InitIInv == Init => IInv
  <1> SUFFICES ASSUME Init PROVE IInv
    OBVIOUS
  <1>1. TypeOK /\ HeldIsClaimed /\ RespondOnce /\ InOrder
    BY DEF Init, TypeOK, HeldIsClaimed, RespondOnce, InOrder
  <1>2. AlertsAreJustified
    BY DEF Init, AlertsAreJustified
  <1>3. RankBound
    BY ArrivedLemma DEF Init, RankBound
  <1>4. QED
    BY <1>1, <1>2, <1>3 DEF IInv

LEMMA IngestIInv ==
    ASSUME IInv, NEW e \in Events, Ingest(e)
    PROVE  IInv'
  <1> USE DEF IInv
  <1>1. detect \in [Events -> {"absent", "pending", "claimed"} \cup Settled]
    BY DEF TypeOK
  <1>2. Arrived' = Arrived \cup {e} /\ e \notin Arrived
    BY <1>1 DEF Ingest, Arrived
  <1>3. Cardinality(Arrived') = Cardinality(Arrived) + 1
    BY <1>2, ArrivedLemma, FS_AddElement
  <1>4. TypeOK'
    BY ArrivedLemma DEF Ingest, TypeOK
  <1>5. HeldIsClaimed' /\ RespondOnce'
    BY <1>1 DEF Ingest, HeldIsClaimed, RespondOnce
  <1>6. AlertsAreJustified'
    BY <1>1 DEF Ingest, AlertsAreJustified
  <1>7. RankBound'
    <2> SUFFICES ASSUME NEW f \in Events PROVE arrival'[f] <= Cardinality(Arrived')
      BY DEF RankBound
    <2>1. arrival[f] \in Nat /\ arrival[f] <= Cardinality(Arrived)
      BY DEF TypeOK, RankBound
    <2>2. arrival'[f] = IF f = e THEN NextRank ELSE arrival[f]
      BY DEF Ingest, TypeOK
    <2>3. QED
      BY <1>3, <2>1, <2>2, ArrivedLemma
  <1>8. InOrder'
    <2> SUFFICES ASSUME NEW h \in held', NEW f \in Events,
                        QueueOf[h] = QueueOf[f], Earlier(f, h)', arrival'[f] < arrival'[h]
                 PROVE  detect'[f] # "pending"
      BY DEF InOrder
    <2>1. h \in held /\ h \in Events /\ h # e
      BY <1>1 DEF Ingest, TypeOK, HeldIsClaimed
    <2>2. arrival'[h] = arrival[h] /\ ingested'[h] = ingested[h] /\ arrival[h] \in Nat
      BY <2>1 DEF Ingest, TypeOK
    <2>3. CASE f = e
      <3>1. arrival'[f] = NextRank
        BY <2>3 DEF Ingest, TypeOK
      <3>2. QED
        BY <2>1, <2>2, <3>1, ArrivedLemma DEF RankBound
    <2>4. CASE f # e
      <3>1. arrival'[f] = arrival[f] /\ ingested'[f] = ingested[f] /\ detect'[f] = detect[f]
        BY <1>1, <2>4 DEF Ingest, TypeOK
      <3>2. Earlier(f, h)
        BY <2>2, <3>1 DEF Earlier, SortKey
      <3>3. QED
        BY <2>1, <2>2, <3>1, <3>2 DEF InOrder
    <2>5. QED
      BY <2>3, <2>4
  <1>9. QED
    BY <1>4, <1>5, <1>6, <1>7, <1>8

LEMMA ClaimBatchIInv ==
    ASSUME IInv, ClaimBatch
    PROVE  IInv'
  <1> USE DEF IInv
  <1>1. PICK B \in Batches :
           /\ held' = B
           /\ detect' = [e \in Events |-> IF e \in B THEN "claimed" ELSE detect[e]]
           /\ claimedAt' = [e \in Events |-> IF e \in B THEN now ELSE claimedAt[e]]
    BY DEF ClaimBatch
  <1>2. /\ B \subseteq {e \in Events : detect[e] = "pending"}
        /\ \A i \in Queues : \A e \in B \cap Pending(i), f \in Pending(i) \ B : Earlier(e, f)
    BY <1>1 DEF Batches
  <1>3. UNCHANGED <<now, arrival, ingested, worker, started, crashes, alerts, responses>>
    BY DEF ClaimBatch
  <1>4. TypeOK'
    BY <1>1, <1>2, <1>3 DEF TypeOK
  <1>5. HeldIsClaimed' /\ RespondOnce'
    BY <1>1, <1>2, <1>3 DEF HeldIsClaimed, RespondOnce, ClaimBatch
  <1>6. \A e \in Events : (detect'[e] = "done") <=> (detect[e] = "done")
    BY <1>1, <1>2
  <1>7. AlertsAreJustified'
    BY <1>3, <1>6 DEF AlertsAreJustified
  <1>8. RankBound'
    BY <1>1, <1>2, <1>3, RankLemma
  <1>9. InOrder'
    <2> SUFFICES ASSUME NEW h \in held', NEW f \in Events,
                        QueueOf[h] = QueueOf[f], Earlier(f, h)', detect'[f] = "pending"
                 PROVE  FALSE
      BY DEF InOrder
    <2>1. h \in B /\ h \in Events /\ detect[h] = "pending"
      BY <1>1, <1>2
    <2>2. f \notin B /\ detect[f] = "pending"
      BY <1>1
    <2>3. QueueOf[h] \in Queues /\ h \in Pending(QueueOf[h]) /\ f \in Pending(QueueOf[h])
      BY <2>1, <2>2, ConstantsAssumption DEF Pending
    <2>4. Earlier(h, f)
      BY <1>2, <2>1, <2>2, <2>3
    <2>5. Earlier(f, h)
      BY <1>3 DEF Earlier, SortKey
    <2>6. QED
      BY <2>1, <2>4, <2>5, EarlierIsStrict
  <1>10. QED
    BY <1>4, <1>5, <1>7, <1>8, <1>9

\* The events of a smaller batch are in order if nothing became pending.
LEMMA TwinsLemma ==
    ASSUME IInv, held' \subseteq held, UNCHANGED <<arrival, ingested>>,
           \A e \in Events : detect'[e] = "pending" => detect[e] = "pending"
    PROVE  InOrder'
  <1>1. \A e, f \in Events : Earlier(f, e)' <=> Earlier(f, e)
    BY DEF Earlier, SortKey
  <1>2. held \subseteq Events
    BY DEF IInv, TypeOK
  <1>3. QED
    BY <1>1, <1>2 DEF IInv, InOrder

LEMMA ProcessDoneIInv ==
    ASSUME IInv, NEW e \in Events, ProcessDone(e)
    PROVE  IInv'
  <1> USE DEF IInv
  <1>1. /\ detect[e] = "claimed" /\ e \in held
        /\ detect' = [detect EXCEPT ![e] = "done"]
        /\ detect \in [Events -> {"absent", "pending", "claimed"} \cup Settled]
    BY DEF ProcessDone, Current, HeldIsClaimed, TypeOK
  <1>2. UNCHANGED <<now, arrival, ingested, worker, started, crashes>> /\ held' = held \ {e}
    BY DEF ProcessDone
  <1>3. AlertOf[e] \in Alerts \cup {Null}
    BY ConstantsAssumption
  <1>4. /\ alerts' = IF AlertOf[e] = Null THEN alerts ELSE alerts \cup {AlertOf[e]}
        /\ \/ responses' = responses
           \/ /\ AlertOf[e] \in Alerts \ alerts
              /\ \E S \in SUBSET Origins :
                    responses' = [responses EXCEPT ![AlertOf[e]] = Plus(@, S)]
    BY <1>3 DEF ProcessDone, Emit
  <1>5. TypeOK'
    <2>1. alerts' \subseteq Alerts
      BY <1>3, <1>4 DEF TypeOK
    <2>2. responses' \in [Alerts -> [Origins -> Nat]]
      <3>1. responses \in [Alerts -> [Origins -> Nat]]
        BY DEF TypeOK
      <3>2. ASSUME NEW S \in SUBSET Origins, NEW a \in Alerts
            PROVE  Plus(responses[a], S) \in [Origins -> Nat]
        BY <3>1 DEF Plus
      <3>3. CASE AlertOf[e] \in Alerts \ alerts /\ responses' # responses
        <4>1. PICK S \in SUBSET Origins :
                 responses' = [responses EXCEPT ![AlertOf[e]] = Plus(responses[AlertOf[e]], S)]
          BY <1>4, <3>3
        <4>2. Plus(responses[AlertOf[e]], S) \in [Origins -> Nat]
          BY <3>2, <3>3
        <4>3. QED
          BY <3>1, <4>1, <4>2
      <3>4. QED
        BY <1>4, <3>1, <3>3
    <2>3. QED
      BY <1>1, <1>2, <2>1, <2>2 DEF TypeOK, ProcessDone, Settled
  <1>6. HeldIsClaimed'
    BY <1>1, <1>2 DEF HeldIsClaimed, TypeOK
  <1>7. RespondOnce'
    <2> SUFFICES ASSUME NEW a \in Alerts, NEW o \in Origins
                 PROVE  responses'[a][o] <= 1 /\ (responses'[a][o] = 1 => a \in alerts')
      BY DEF RespondOnce
    <2>1. /\ responses[a][o] \in Nat /\ responses[a][o] <= 1
          /\ responses[a][o] = 1 => a \in alerts
      BY DEF RespondOnce, TypeOK
    <2>2. AlertOf[e] # Null => AlertOf[e] \in alerts'
      BY <1>4
    <2>3. alerts \subseteq alerts'
      BY <1>4
    <2>4. CASE responses' = responses
      BY <2>1, <2>3, <2>4
    <2>5. CASE AlertOf[e] \in Alerts \ alerts
      <3>1. CASE a # AlertOf[e]
        <4>1. responses'[a] = responses[a]
          BY <1>4, <3>1 DEF TypeOK
        <4>2. QED
          BY <2>1, <2>3, <4>1
      <3>2. CASE a = AlertOf[e] /\ responses' # responses
        <4>1. PICK S \in SUBSET Origins : responses'[a] = Plus(responses[a], S)
          BY <1>4, <3>2 DEF TypeOK
        <4>2. responses[a][o] = 0
          BY <2>1, <2>5, <3>2
        <4>3. responses'[a][o] \in {0, 1}
          BY <4>1, <4>2 DEF Plus
        <4>4. a \in alerts'
          BY <2>2, <3>2, ConstantsAssumption
        <4>5. QED
          BY <4>3, <4>4
      <3>3. QED
        BY <2>4, <3>1, <3>2
    <2>6. QED
      BY <1>4, <2>4, <2>5
  <1>8. AlertsAreJustified'
    <2> SUFFICES ASSUME NEW a \in Alerts
                 PROVE  a \in alerts' <=> \E f \in Events : detect'[f] = "done" /\ AlertOf[f] = a
      BY DEF AlertsAreJustified
    <2>1. \A f \in Events : detect'[f] = "done" <=> (f = e \/ detect[f] = "done")
      BY <1>1
    <2>2. a \in alerts' <=> (a \in alerts \/ AlertOf[e] = a)
      BY <1>4, ConstantsAssumption
    <2>3. QED
      BY <2>1, <2>2 DEF AlertsAreJustified
  <1>9. RankBound'
    BY <1>1, <1>2, RankLemma
  <1>10. InOrder'
    BY <1>1, <1>2, TwinsLemma
  <1>11. QED
    BY <1>5, <1>6, <1>7, <1>8, <1>9, <1>10

LEMMA ProcessFailedIInv ==
    ASSUME IInv, NEW e \in Events, ProcessFailed(e)
    PROVE  IInv'
  <1> USE DEF IInv
  <1>1. /\ detect[e] = "claimed" /\ e \in held
        /\ detect' = [detect EXCEPT ![e] = "failed"]
        /\ detect \in [Events -> {"absent", "pending", "claimed"} \cup Settled]
    BY DEF ProcessFailed, Current, HeldIsClaimed, TypeOK
  <1>2. UNCHANGED <<arrival, ingested, worker, alerts, responses>> /\ held' = held \ {e}
    BY DEF ProcessFailed
  <1>3. TypeOK'
    BY <1>1, <1>2 DEF TypeOK, ProcessFailed, Settled
  <1>4. HeldIsClaimed' /\ RespondOnce'
    BY <1>1, <1>2 DEF HeldIsClaimed, RespondOnce, TypeOK
  <1>5. \A f \in Events : detect'[f] = "done" <=> detect[f] = "done"
    BY <1>1
  <1>6. AlertsAreJustified'
    BY <1>2, <1>5 DEF AlertsAreJustified
  <1>7. RankBound' /\ InOrder'
    BY <1>1, <1>2, RankLemma, TwinsLemma
  <1>8. QED
    BY <1>3, <1>4, <1>6, <1>7

LEMMA CrashIInv ==
    ASSUME IInv, Crash
    PROVE  IInv'
  <1> USE DEF IInv
  <1>1. UNCHANGED <<detect, arrival, ingested, alerts, responses>> /\ held' = {}
    BY DEF Crash
  <1>2. TypeOK' /\ HeldIsClaimed' /\ RespondOnce' /\ AlertsAreJustified'
    BY <1>1 DEF Crash, TypeOK, HeldIsClaimed, RespondOnce, AlertsAreJustified
  <1>3. RankBound' /\ InOrder'
    BY <1>1, RankLemma, TwinsLemma
  <1>4. QED
    BY <1>2, <1>3

LEMMA RestartIInv ==
    ASSUME IInv, Restart
    PROVE  IInv'
  <1> USE DEF IInv
  <1>1. /\ detect' = [e \in Events |-> IF Stale(e) THEN "pending" ELSE detect[e]]
        /\ \A e \in Events : Stale(e) => detect[e] = "claimed"
        /\ held = {} /\ held' = {}
    BY DEF Restart, Stale, HeldIsClaimed
  <1>2. UNCHANGED <<arrival, ingested, alerts, responses>>
    BY DEF Restart
  <1>3. TypeOK'
    BY <1>1, <1>2 DEF Restart, TypeOK
  <1>4. HeldIsClaimed' /\ RespondOnce' /\ InOrder'
    BY <1>1, <1>2 DEF HeldIsClaimed, RespondOnce, InOrder
  <1>5. \A f \in Events : detect'[f] = "done" <=> detect[f] = "done"
    BY <1>1
  <1>6. AlertsAreJustified'
    BY <1>2, <1>5 DEF AlertsAreJustified
  <1>7. RankBound'
    BY <1>1, <1>2, RankLemma
  <1>8. QED
    BY <1>3, <1>4, <1>6, <1>7

\* A step that leaves the queues and the worker alone keeps the invariant.
LEMMA IdleIInv ==
    ASSUME IInv, now' \in Nat,
           UNCHANGED <<detect, arrival, ingested, claimedAt, held, worker, started, crashes,
                       alerts, responses>>
    PROVE  IInv'
  <1> USE DEF IInv
  <1>1. TypeOK' /\ HeldIsClaimed' /\ RespondOnce' /\ AlertsAreJustified'
    BY DEF TypeOK, HeldIsClaimed, RespondOnce, AlertsAreJustified
  <1>2. RankBound' /\ InOrder'
    BY RankLemma, TwinsLemma
  <1>3. QED
    BY <1>1, <1>2

LEMMA NextIInv == IInv /\ [Next]_vars => IInv'
  <1> SUFFICES ASSUME IInv, [Next]_vars PROVE IInv'
    OBVIOUS
  <1>1. ASSUME NEW e \in Events, Ingest(e) PROVE IInv'
    BY <1>1, IngestIInv
  <1>2. CASE ClaimBatch
    BY <1>2, ClaimBatchIInv
  <1>3. ASSUME NEW e \in Events, Process(e) PROVE IInv'
    BY <1>3, ProcessDoneIInv, ProcessFailedIInv DEF Process
  <1>4. CASE Crash
    BY <1>4, CrashIInv
  <1>5. CASE Restart
    BY <1>5, RestartIInv
  <1>6. CASE Tick
    BY <1>6, IdleIInv DEF Tick, IInv, TypeOK
  <1>7. CASE UNCHANGED vars
    BY <1>7, IdleIInv DEF vars, IInv, TypeOK
  <1>8. QED
    BY <1>1, <1>2, <1>3, <1>4, <1>5, <1>6, <1>7 DEF Next

\* Only the worker's verdict on its current event settles one it holds.
LEMMA OnlyVerdictsSettle ==
    ASSUME IInv, Next, NEW e \in Events, e \in held, detect'[e] \in Settled
    PROVE  Current(e)
  <1>1. /\ detect[e] = "claimed"
        /\ detect \in [Events -> {"absent", "pending", "claimed"} \cup Settled]
    BY DEF IInv, HeldIsClaimed, TypeOK
  <1>2. detect'[e] \notin {"pending", "claimed"}
    BY DEF Settled
  <1>3. ASSUME NEW f \in Events, Ingest(f) PROVE FALSE
    BY <1>1, <1>2, <1>3 DEF Ingest
  <1>4. ASSUME NEW f \in Events, Process(f) PROVE Current(e)
    BY <1>1, <1>2, <1>4 DEF Process, ProcessDone, ProcessFailed
  <1>5. CASE ClaimBatch
    BY <1>5 DEF ClaimBatch
  <1>6. CASE Crash \/ Restart \/ Tick
    BY <1>1, <1>2, <1>6 DEF Crash, Restart, Tick
  <1>7. QED
    BY <1>3, <1>4, <1>5, <1>6 DEF Next

-----------------------------------------------------------------------------
\* The invariant everything below follows from.
THEOREM InductiveInvariant == Spec => []IInv
  BY InitIInv, NextIInv, PTL DEF Spec

\* Every reachable state is well typed (worker.py, factory.py).
THEOREM TypeCorrect == Spec => []TypeOK
  BY InductiveInvariant, PTL DEF IInv

\* What the worker is about to process is claimed by it, and a dead worker
\* holds nothing, whatever crashes and restarts happen (claim_batch).
THEOREM HeldIsClaimedHolds == Spec => []HeldIsClaimed
  BY InductiveInvariant, PTL DEF IInv

\* Of one alert, at most one row for its recommendation and one for each of
\* its collections, however often it is raised (AlertSink.emit).
THEOREM RespondOnceHolds == Spec => []RespondOnce
  BY InductiveInvariant, PTL DEF IInv

\* The alerts are those of the done events, no more and no less
\* (process_claimed commits both or neither).
THEOREM AlertsAreJustifiedHolds == Spec => []AlertsAreJustified
  BY InductiveInvariant, PTL DEF IInv

\* When a legacy event gets its verdict, no legacy event of the same or an
\* earlier timestamp that arrived before it waits for one, in the queue or in
\* the worker's hands (claim_batch), for any timestamps, any batch size and
\* whatever was reverted in between.
THEOREM TwinsInOrderHolds == Spec => TwinsInOrder
  <1> DEFINE A == \A e, f \in Events :
                    /\ e \in held /\ detect'[e] \in Settled
                    /\ QueueOf[e] = 1 /\ QueueOf[f] = 1
                    /\ Stamp[f] <= Stamp[e] /\ arrival[f] < arrival[e]
                    => detect[f] # "pending" /\ f \notin held
  <1>1. ASSUME IInv, [Next]_vars PROVE [A]_vars
    <2> SUFFICES ASSUME Next, NEW e \in Events, NEW f \in Events,
                        e \in held, detect'[e] \in Settled, QueueOf[e] = 1, QueueOf[f] = 1,
                        Stamp[f] <= Stamp[e], arrival[f] < arrival[e]
                 PROVE  detect[f] # "pending" /\ f \notin held
      BY <1>1
    <2>1. TypeOK /\ HeldIsClaimed /\ InOrder
      BY <1>1 DEF IInv
    <2>2. Earlier(f, e)
      <3>1. Stamp[e] \in Nat /\ Stamp[f] \in Nat
        BY ConstantsAssumption
      <3>2. SortKey(e) = <<Stamp[e], arrival[e]>> /\ SortKey(f) = <<Stamp[f], arrival[f]>>
        BY DEF SortKey
      <3>3. QED
        BY <3>1, <3>2 DEF Earlier
    <2>3. detect[f] # "pending"
      BY <2>1, <2>2 DEF InOrder
    <2>4. Current(e)
      BY <1>1, <2>1, OnlyVerdictsSettle
    <2>5. ASSUME f \in held PROVE FALSE
      <3>1. f # e
        BY <2>1 DEF TypeOK
      <3>2. Earlier(e, f)
        BY <2>4, <2>5, <3>1 DEF Current, Before
      <3>3. QED
        BY <2>1, <2>2, <3>2, EarlierIsStrict
    <2>6. QED
      BY <2>3, <2>5
  <1>2. QED
    BY <1>1, InductiveInvariant, PTL DEF Spec, TwinsInOrder

\* A done or failed event stays as it is under redelivery, claims, crashes
\* and reverts (ingest, claim_batch, revert_stale_claims).
THEOREM SettledOnceHolds == Spec => SettledOnce
  <1>1. ASSUME IInv, [Next]_vars
        PROVE  [\A e \in Events : detect[e] \in Settled => detect'[e] = detect[e]]_vars
    <2> SUFFICES ASSUME NEW e \in Events, detect[e] \in Settled, Next
                 PROVE  detect'[e] = detect[e]
      BY <1>1
    <2> USE <1>1
    <2>1. detect[e] \notin {"absent", "pending", "claimed"}
      BY DEF Settled
    <2>2. detect \in [Events -> {"absent", "pending", "claimed"} \cup Settled]
      BY DEF IInv, TypeOK
    <2>3. ASSUME NEW f \in Events, Ingest(f) PROVE detect'[e] = detect[e]
      BY <2>1, <2>2, <2>3 DEF Ingest
    <2>4. CASE ClaimBatch
      BY <2>1, <2>2, <2>4 DEF ClaimBatch, Batches
    <2>5. ASSUME NEW f \in Events, Process(f) PROVE detect'[e] = detect[e]
      BY <2>1, <2>2, <2>5
      DEF Process, ProcessDone, ProcessFailed, Current, IInv, HeldIsClaimed
    <2>6. CASE Crash \/ Tick
      BY <2>6 DEF Crash, Tick
    <2>7. CASE Restart
      BY <2>1, <2>2, <2>7 DEF Restart, Stale
    <2>8. QED
      BY <2>3, <2>4, <2>5, <2>6, <2>7 DEF Next
  <1>2. QED
    BY <1>1, InductiveInvariant, PTL DEF Spec, SettledOnce

-----------------------------------------------------------------------------
(* The shares of a claim.                                                  *)

\* A set of naturals has a least member.
LEMMA LeastExists ==
    ASSUME NEW S \in SUBSET Nat, S # {}
    PROVE  \E m \in S : \A n \in S : m <= n
  <1>1. PICK m \in S : \A n \in S : ~(<<n, m>> \in OpToRel(<, Nat))
    BY WFMin, NatLessThanWellFounded, Zenon
  <1>2. ASSUME NEW n \in S PROVE m <= n
    <2>1. m \in Nat /\ n \in Nat
      OBVIOUS
    <2>2. ~(n < m)
      BY <1>1, <2>1 DEF OpToRel
    <2>3. QED
      BY <2>1, <2>2
  <1>3. QED
    BY <1>2

Lengths == [Queues -> Nat]

Used(t) == t[1] + t[2] + t[3]

\* No slot, one round of slots, and the rounds of a claim.
Start == <<0, 0, 0>>

Round(t, length) == Deal(Deal(Deal(t, length, 1), length, 2), length, 3)

Rounds(f, m, length) ==
    f = [k \in 0..m |-> IF k = 0 THEN Start ELSE Round(f[k - 1], length)]

\* After k rounds every queue has its k slots or all it can use, or the slots
\* ran out in a round and no queue is two slots behind another one.
Level(t, length, k) ==
    \A i \in Queues : t[i] = IF length[i] < k THEN length[i] ELSE k

NoneBehind(t, length) ==
    \A i, j \in Queues : t[i] < length[i] => t[j] <= t[i] + 1

Dealt(t, length, k) ==
    /\ t \in [Queues -> Nat]
    /\ Used(t) <= ClaimLimit
    /\ \A i \in Queues : t[i] <= length[i]
    /\ Level(t, length, k) \/ (Used(t) = ClaimLimit /\ NoneBehind(t, length))

\* What one slot does.
LEMMA DealEffect ==
    ASSUME NEW t \in [Queues -> Nat], NEW length \in Lengths, NEW i \in Queues, NEW d,
           d = Deal(t, length, i)
    PROVE  /\ d \in [Queues -> Nat]
           /\ \A j \in Queues \ {i} : d[j] = t[j]
           /\ Used(t) < ClaimLimit /\ t[i] < length[i] => d[i] = t[i] + 1
           /\ ~(Used(t) < ClaimLimit /\ t[i] < length[i]) => d[i] = t[i]
  <1>1. CASE Used(t) < ClaimLimit /\ t[i] < length[i]
    <2>1. d = [t EXCEPT ![i] = t[i] + 1]
      BY <1>1 DEF Deal, Used
    <2>2. QED
      BY <1>1, <2>1
  <1>2. CASE ~(Used(t) < ClaimLimit /\ t[i] < length[i])
    <2>1. d = t
      BY <1>2 DEF Deal, Used
    <2>2. QED
      BY <1>2, <2>1
  <1>3. QED
    BY <1>1, <1>2

\* A round takes a, b and c slots to p, q and r.
LEMMA RoundStep ==
    ASSUME NEW length \in Lengths, NEW k \in Nat \ {0}, NEW t, Dealt(t, length, k - 1)
    PROVE  Dealt(Round(t, length), length, k)
  <1>1. PICK d, e, f : /\ d = Deal(t, length, 1) /\ e = Deal(d, length, 2)
                       /\ f = Deal(e, length, 3)
    OBVIOUS
  <1>2. f = Round(t, length)
    BY <1>1 DEF Round
  <1>3. 1 \in Queues /\ 2 \in Queues /\ 3 \in Queues /\ Queues = {1, 2, 3}
    BY DEF Queues
  <1>4. t \in [Queues -> Nat] /\ ClaimLimit \in Nat
    BY ConstantsAssumption DEF Dealt
  <1>5. /\ d \in [Queues -> Nat] /\ d[2] = t[2] /\ d[3] = t[3]
        /\ Used(t) < ClaimLimit /\ t[1] < length[1] => d[1] = t[1] + 1
        /\ ~(Used(t) < ClaimLimit /\ t[1] < length[1]) => d[1] = t[1]
    <2>1. /\ d \in [Queues -> Nat]
          /\ \A j \in Queues \ {1} : d[j] = t[j]
          /\ Used(t) < ClaimLimit /\ t[1] < length[1] => d[1] = t[1] + 1
          /\ ~(Used(t) < ClaimLimit /\ t[1] < length[1]) => d[1] = t[1]
      <3>1. t \in [Queues -> Nat] /\ 1 \in Queues /\ d = Deal(t, length, 1)
        BY <1>1, <1>3, <1>4
      <3>2. QED
        BY <3>1, DealEffect
    <2>2. QED
      BY <1>3, <2>1
  <1>6. /\ e \in [Queues -> Nat] /\ e[1] = d[1] /\ e[3] = d[3]
        /\ Used(d) < ClaimLimit /\ d[2] < length[2] => e[2] = d[2] + 1
        /\ ~(Used(d) < ClaimLimit /\ d[2] < length[2]) => e[2] = d[2]
    <2>1. /\ e \in [Queues -> Nat]
          /\ \A j \in Queues \ {2} : e[j] = d[j]
          /\ Used(d) < ClaimLimit /\ d[2] < length[2] => e[2] = d[2] + 1
          /\ ~(Used(d) < ClaimLimit /\ d[2] < length[2]) => e[2] = d[2]
      <3>1. d \in [Queues -> Nat] /\ 2 \in Queues /\ e = Deal(d, length, 2)
        BY <1>1, <1>3, <1>5
      <3>2. QED
        BY <3>1, DealEffect
    <2>2. QED
      BY <1>3, <2>1
  <1>7. /\ f \in [Queues -> Nat] /\ f[1] = e[1] /\ f[2] = e[2]
        /\ Used(e) < ClaimLimit /\ e[3] < length[3] => f[3] = e[3] + 1
        /\ ~(Used(e) < ClaimLimit /\ e[3] < length[3]) => f[3] = e[3]
    <2>1. /\ f \in [Queues -> Nat]
          /\ \A j \in Queues \ {3} : f[j] = e[j]
          /\ Used(e) < ClaimLimit /\ e[3] < length[3] => f[3] = e[3] + 1
          /\ ~(Used(e) < ClaimLimit /\ e[3] < length[3]) => f[3] = e[3]
      <3>1. e \in [Queues -> Nat] /\ 3 \in Queues /\ f = Deal(e, length, 3)
        BY <1>1, <1>3, <1>6
      <3>2. QED
        BY <3>1, DealEffect
    <2>2. QED
      BY <1>3, <2>1
  <1>8. PICK a, b, c, p, q, r, x, y, z :
           /\ a = t[1] /\ b = t[2] /\ c = t[3] /\ p = f[1] /\ q = f[2] /\ r = f[3]
           /\ x = length[1] /\ y = length[2] /\ z = length[3]
    OBVIOUS
  <1>9. /\ a \in Nat /\ b \in Nat /\ c \in Nat /\ p \in Nat /\ q \in Nat /\ r \in Nat
        /\ x \in Nat /\ y \in Nat /\ z \in Nat
    BY <1>3, <1>4, <1>7, <1>8 DEF Lengths
  <1>10. /\ p = IF a + b + c < ClaimLimit /\ a < x THEN a + 1 ELSE a
         /\ q = IF p + b + c < ClaimLimit /\ b < y THEN b + 1 ELSE b
         /\ r = IF p + q + c < ClaimLimit /\ c < z THEN c + 1 ELSE c
    BY <1>5, <1>6, <1>7, <1>8 DEF Used
  <1>11. /\ a + b + c <= ClaimLimit /\ a <= x /\ b <= y /\ c <= z
         /\ \/ /\ a = IF x < k - 1 THEN x ELSE k - 1
               /\ b = IF y < k - 1 THEN y ELSE k - 1
               /\ c = IF z < k - 1 THEN z ELSE k - 1
            \/ /\ a + b + c = ClaimLimit
               /\ a < x => b <= a + 1 /\ c <= a + 1
               /\ b < y => a <= b + 1 /\ c <= b + 1
               /\ c < z => a <= c + 1 /\ b <= c + 1
    BY <1>3, <1>8 DEF Dealt, Level, NoneBehind, Used
  <1>12. /\ p + q + r <= ClaimLimit /\ p <= x /\ q <= y /\ r <= z
         /\ \/ /\ p = IF x < k THEN x ELSE k
               /\ q = IF y < k THEN y ELSE k
               /\ r = IF z < k THEN z ELSE k
            \/ /\ p + q + r = ClaimLimit
               /\ p < x => q <= p + 1 /\ r <= p + 1
               /\ q < y => p <= q + 1 /\ r <= q + 1
               /\ r < z => p <= r + 1 /\ q <= r + 1
    BY <1>4, <1>9, <1>10, <1>11
  <1>13. Used(f) <= ClaimLimit /\ \A i \in Queues : f[i] <= length[i]
    BY <1>3, <1>8, <1>12 DEF Used
  <1>14. Level(f, length, k) \/ (Used(f) = ClaimLimit /\ NoneBehind(f, length))
    <2>1. CASE /\ p = IF x < k THEN x ELSE k
               /\ q = IF y < k THEN y ELSE k
               /\ r = IF z < k THEN z ELSE k
      BY <1>3, <1>8, <2>1 DEF Level
    <2>2. CASE /\ p + q + r = ClaimLimit
               /\ p < x => q <= p + 1 /\ r <= p + 1
               /\ q < y => p <= q + 1 /\ r <= q + 1
               /\ r < z => p <= r + 1 /\ q <= r + 1
      BY <1>3, <1>8, <1>9, <2>2 DEF NoneBehind, Used
    <2>3. QED
      BY <1>12, <2>1, <2>2
  <1>15. QED
    BY <1>2, <1>7, <1>13, <1>14 DEF Dealt

\* The rounds of a claim exist.
LEMMA RoundsExist ==
    ASSUME NEW m \in Nat, NEW length
    PROVE  \E f : Rounds(f, m, length)
  <1> DEFINE Bad == {n \in Nat : ~\E f : Rounds(f, n, length)}
  <1>1. \E f : Rounds(f, 0, length)
    <2> DEFINE f == [k \in 0..0 |-> Start]
    <2>1. Rounds(f, 0, length)
      BY DEF Rounds
    <2>2. QED
      BY <2>1
  <1>2. ASSUME NEW n \in Nat, NEW f, Rounds(f, n, length)
        PROVE  \E g : Rounds(g, n + 1, length)
    <2> DEFINE g == [k \in 0..(n + 1) |-> IF k = n + 1 THEN Round(f[n], length) ELSE f[k]]
    <2>1. /\ DOMAIN f = 0..n /\ f[0] = Start
          /\ \A k \in 0..n : k # 0 => f[k] = Round(f[k - 1], length)
      BY <1>2 DEF Rounds
    <2>2. ASSUME NEW k \in 0..(n + 1)
          PROVE  g[k] = IF k = 0 THEN Start ELSE Round(g[k - 1], length)
      <3>1. CASE k = n + 1
        <4>1. n \in 0..(n + 1) /\ n # n + 1 /\ k # 0 /\ k - 1 = n
          BY <3>1
        <4>2. g[n] = f[n] /\ g[k] = Round(f[n], length)
          BY <3>1, <4>1
        <4>3. QED
          BY <4>1, <4>2
      <3>2. CASE k # n + 1 /\ k = 0
        BY <2>1, <3>2
      <3>3. CASE k # n + 1 /\ k # 0
        <4>1. k \in 0..n /\ k - 1 \in 0..(n + 1) /\ k - 1 # n + 1
          BY <3>3
        <4>2. g[k] = f[k] /\ g[k - 1] = f[k - 1]
          BY <3>3, <4>1
        <4>3. QED
          BY <2>1, <3>3, <4>1, <4>2
      <3>4. QED
        BY <3>1, <3>2, <3>3
    <2>3. DOMAIN g = 0..(n + 1) /\ g = [k \in 0..(n + 1) |-> g[k]]
      OBVIOUS
    <2> HIDE DEF g
    <2>4. g = [k \in 0..(n + 1) |-> IF k = 0 THEN Start ELSE Round(g[k - 1], length)]
      BY <2>2, <2>3
    <2>5. Rounds(g, n + 1, length)
      BY <2>4 DEF Rounds
    <2>6. QED
      BY <2>5
  <1> SUFFICES ASSUME m \in Bad PROVE FALSE
    OBVIOUS
  <1>3. PICK n \in Bad : \A j \in Bad : n <= j
    <2>1. Bad \in SUBSET Nat /\ Bad # {}
      OBVIOUS
    <2> HIDE DEF Bad
    <2>2. QED
      BY <2>1, LeastExists
  <1>4. n \in Nat /\ n # 0
    BY <1>1
  <1>5. n - 1 \in Nat /\ ~(n <= n - 1) /\ (n - 1) + 1 = n
    BY <1>4
  <1>6. n - 1 \notin Bad
    <2> HIDE DEF Bad
    <2>1. QED
      BY <1>3, <1>5
  <1>7. \E f : Rounds(f, n - 1, length)
    BY <1>5, <1>6
  <1>8. \E g : Rounds(g, n, length)
    BY <1>2, <1>5, <1>7
  <1>9. QED
    BY <1>3, <1>8

\* The shares are what the last round leaves.
LEMMA SharesDealt ==
    ASSUME NEW length \in Lengths
    PROVE  Dealt(Shares(length), length, ClaimLimit)
  <1> DEFINE P(f) == f = [k \in 0..ClaimLimit |->
                            IF k = 0 THEN <<0, 0, 0>>
                            ELSE Deal(Deal(Deal(f[k - 1], length, 1), length, 2), length, 3)]
             W == CHOOSE f : P(f)
  <1>1. Shares(length) = W[ClaimLimit]
    BY DEF Shares
  <1>2. ASSUME NEW f PROVE P(f) <=> Rounds(f, ClaimLimit, length)
    BY DEF Rounds, Round, Start
  <1>3. ClaimLimit \in Nat
    BY ConstantsAssumption
  <1> HIDE DEF P
  <1>4. \E f : P(f)
    BY <1>2, <1>3, RoundsExist
  <1>5. P(W)
    BY <1>4
  <1> HIDE DEF W
  <1>6. Rounds(W, ClaimLimit, length)
    BY <1>2, <1>5
  <1>7. /\ W[0] = Start
        /\ \A k \in 0..ClaimLimit : k # 0 => W[k] = Round(W[k - 1], length)
    BY <1>3, <1>6 DEF Rounds
  <1> DEFINE Bad == {k \in 0..ClaimLimit : ~Dealt(W[k], length, k)}
  <1> SUFFICES ASSUME Bad # {} PROVE FALSE
    BY <1>1, <1>3
  <1>8. PICK k \in Bad : \A j \in Bad : k <= j
    <2>1. Bad \in SUBSET Nat
      BY <1>3
    <2> HIDE DEF Bad
    <2>2. QED
      BY <2>1, LeastExists
  <1>9. k \in 0..ClaimLimit /\ ~Dealt(W[k], length, k)
    OBVIOUS
  <1>10. Dealt(W[0], length, 0)
    <2>1. PICK t : t = <<0, 0, 0>>
      OBVIOUS
    <2>2. Queues = {1, 2, 3} /\ \A i \in Queues : length[i] \in Nat
      BY DEF Queues, Lengths
    <2>3. t \in [Queues -> Nat] /\ t[1] = 0 /\ t[2] = 0 /\ t[3] = 0
      BY <2>1, <2>2
    <2>4. \A i \in Queues : t[i] = 0
      BY <2>2, <2>3
    <2>5. Dealt(t, length, 0)
      BY <1>3, <2>2, <2>3, <2>4 DEF Dealt, Level, Used
    <2>6. QED
      BY <1>7, <2>1, <2>5 DEF Start
  <1>11. k # 0 /\ k - 1 \in 0..ClaimLimit /\ ~(k <= k - 1) /\ k \in Nat \ {0}
    BY <1>3, <1>9, <1>10
  <1>12. Dealt(W[k - 1], length, k - 1)
    <2>1. k - 1 \notin Bad
      <3> HIDE DEF Bad
      <3>1. QED
        BY <1>8, <1>11
    <2>2. QED
      BY <1>11, <2>1
  <1>13. Dealt(W[k], length, k)
    BY <1>7, <1>9, <1>11, <1>12, RoundStep
  <1>14. QED
    BY <1>9, <1>13

\* A claim of a batch that is not empty is the only step that fills the
\* worker's hands.
LEMMA OnlyClaimsFill ==
    ASSUME IInv, Next, held = {}, held' # {}
    PROVE  ClaimBatch
  <1>1. ASSUME NEW e \in Events, Ingest(e) PROVE FALSE
    BY <1>1 DEF Ingest
  <1>2. ASSUME NEW e \in Events, Process(e) PROVE FALSE
    BY <1>2 DEF Process, ProcessDone, ProcessFailed, Current
  <1>3. CASE Crash \/ Restart \/ Tick
    BY <1>3 DEF Crash, Restart, Tick
  <1>4. QED
    BY <1>1, <1>2, <1>3 DEF Next

\* The slots a claim uses: as many as all queues could fill, or all.
LEMMA SharesFair ==
    ASSUME NEW length \in Lengths, NEW t, t = Shares(length)
    PROVE  /\ t \in [Queues -> Nat]
           /\ \A i \in Queues : t[i] <= length[i]
           /\ NoneBehind(t, length)
           /\ Used(t) = ClaimLimit \/ \A i \in Queues : t[i] = length[i]
  <1>1. Dealt(t, length, ClaimLimit)
    BY SharesDealt
  <1>2. /\ t \in [Queues -> Nat] /\ Used(t) <= ClaimLimit
        /\ \A i \in Queues : t[i] <= length[i] /\ t[i] \in Nat /\ length[i] \in Nat
        /\ ClaimLimit \in Nat
    BY <1>1, ConstantsAssumption DEF Dealt, Lengths
  <1>3. CASE Level(t, length, ClaimLimit)
    <2>1. NoneBehind(t, length)
      BY <1>2, <1>3 DEF Level, NoneBehind
    <2>2. ASSUME NEW i \in Queues, t[i] # length[i] PROVE Used(t) = ClaimLimit
      <3>1. t[i] = ClaimLimit
        BY <1>2, <1>3, <2>2 DEF Level
      <3>2. i \in {1, 2, 3} /\ t[1] \in Nat /\ t[2] \in Nat /\ t[3] \in Nat
        BY <1>2 DEF Queues
      <3>3. QED
        BY <1>2, <3>1, <3>2 DEF Used
    <2>3. QED
      BY <1>2, <2>1, <2>2
  <1>4. CASE Used(t) = ClaimLimit /\ NoneBehind(t, length)
    BY <1>2, <1>4
  <1>5. QED
    BY <1>1, <1>3, <1>4 DEF Dealt

\* A batch has the sum of its shares.
LEMMA BatchSize ==
    ASSUME NEW B \in SUBSET Events, NEW n \in [Queues -> Nat],
           \A i \in Queues : Cardinality({e \in B : QueueOf[e] = i}) = n[i]
    PROVE  Cardinality(B) = Used(n)
  <1>1. PICK X, Y, Z : /\ X = {e \in B : QueueOf[e] = 1}
                       /\ Y = {e \in B : QueueOf[e] = 2}
                       /\ Z = {e \in B : QueueOf[e] = 3}
    OBVIOUS
  <1>2. IsFiniteSet(X) /\ IsFiniteSet(Y) /\ IsFiniteSet(Z)
    <2>1. X \in SUBSET Events /\ Y \in SUBSET Events /\ Z \in SUBSET Events
      BY <1>1
    <2>2. QED
      BY <2>1, ConstantsAssumption, FS_Subset
  <1>3. B = (X \cup Y) \cup Z /\ X \cap Y = {} /\ (X \cup Y) \cap Z = {}
    <2>1. \A e \in B : QueueOf[e] \in {1, 2, 3}
      BY ConstantsAssumption DEF Queues
    <2>2. QED
      BY <1>1, <2>1
  <1>4. IsFiniteSet(X \cup Y)
    BY <1>2, FS_Union
  <1>5. /\ Cardinality(X \cup Y) = Cardinality(X) + Cardinality(Y) - Cardinality({})
        /\ Cardinality(B) = Cardinality(X \cup Y) + Cardinality(Z) - Cardinality({})
    <2>1. /\ Cardinality(X \cup Y) = Cardinality(X) + Cardinality(Y) - Cardinality(X \cap Y)
          /\ Cardinality((X \cup Y) \cup Z) =
               Cardinality(X \cup Y) + Cardinality(Z) - Cardinality((X \cup Y) \cap Z)
      BY <1>2, <1>4, FS_Union
    <2>2. QED
      BY <1>3, <2>1, Zenon
  <1>6. Cardinality(X) = n[1] /\ Cardinality(Y) = n[2] /\ Cardinality(Z) = n[3]
    BY <1>1 DEF Queues
  <1>7. n[1] \in Nat /\ n[2] \in Nat /\ n[3] \in Nat /\ Cardinality({}) = 0
    BY FS_EmptySet DEF Queues
  <1>8. PICK k, m : k = Cardinality(X \cup Y) /\ m = Cardinality(B)
    OBVIOUS
  <1>9. k = n[1] + n[2] - 0 /\ m = k + n[3] - 0
    BY <1>5, <1>6, <1>7, <1>8, Zenon
  <1>10. m = n[1] + n[2] + n[3]
    BY <1>7, <1>9
  <1>11. QED
    BY <1>8, <1>10 DEF Used

\* Every claim deals its slots fairly over the three protocols and leaves none
\* unused while a row waits, for every size of batch and any queues
\* (claim_batch, "Share bounded capacity across active protocols").
THEOREM FairShareHolds == Spec => FairShare
  <1> DEFINE A == held = {} /\ held' # {} =>
                    LET n(i) == Cardinality({e \in held' : QueueOf[e] = i})
                    IN  /\ \A i, j \in Queues :
                              n(i) < Cardinality(Pending(i)) => n(j) <= n(i) + 1
                        /\ \/ Cardinality(held') = ClaimLimit
                           \/ \A i \in Queues : Pending(i) \subseteq held'
  <1>1. ASSUME IInv, [Next]_vars PROVE [A]_vars
    <2> SUFFICES ASSUME Next, held = {}, held' # {}
                 PROVE  /\ \A i, j \in Queues :
                              Cardinality({e \in held' : QueueOf[e] = i}) < Cardinality(Pending(i)) =>
                                Cardinality({e \in held' : QueueOf[e] = j})
                                  <= Cardinality({e \in held' : QueueOf[e] = i}) + 1
                        /\ \/ Cardinality(held') = ClaimLimit
                           \/ \A i \in Queues : Pending(i) \subseteq held'
      BY <1>1
    <2>1. ClaimBatch
      BY <1>1, OnlyClaimsFill
    <2>2. PICK B \in Batches : held' = B
      BY <2>1 DEF ClaimBatch
    <2>3. PICK length, t : /\ length = [i \in Queues |-> Cardinality(Pending(i))]
                           /\ t = Shares(length)
      OBVIOUS
    <2>4. \A i \in Queues : IsFiniteSet(Pending(i)) /\ Cardinality(Pending(i)) \in Nat
      <3>1. \A i \in Queues : Pending(i) \in SUBSET Events
        BY DEF Pending
      <3>2. QED
        BY <3>1, ConstantsAssumption, FS_Subset, FS_CardinalityType
    <2>5. length \in Lengths /\ \A i \in Queues : length[i] = Cardinality(Pending(i))
      BY <2>3, <2>4 DEF Lengths
    <2>6. /\ t \in [Queues -> Nat]
          /\ \A i \in Queues : t[i] <= length[i]
          /\ NoneBehind(t, length)
          /\ Used(t) = ClaimLimit \/ \A i \in Queues : t[i] = length[i]
      BY <2>3, <2>5, SharesFair
    <2>7. /\ B \in SUBSET Events /\ \A e \in B : detect[e] = "pending"
          /\ \A i \in Queues : Cardinality(B \cap Pending(i)) = t[i]
      BY <2>2, <2>3 DEF Batches
    <2>8. \A i \in Queues : {e \in B : QueueOf[e] = i} = B \cap Pending(i)
      BY <2>7 DEF Pending
    <2>9. \A i \in Queues : Cardinality({e \in B : QueueOf[e] = i}) = t[i]
      BY <2>7, <2>8
    <2>10. \A i, j \in Queues :
              Cardinality({e \in B : QueueOf[e] = i}) < Cardinality(Pending(i)) =>
                Cardinality({e \in B : QueueOf[e] = j})
                  <= Cardinality({e \in B : QueueOf[e] = i}) + 1
      BY <2>5, <2>6, <2>9 DEF NoneBehind
    <2>11. CASE Used(t) = ClaimLimit
      <3>1. Cardinality(B) = Used(t)
        BY <2>6, <2>7, <2>9, BatchSize
      <3>2. QED
        BY <2>2, <2>10, <2>11, <3>1
    <2>12. CASE \A i \in Queues : t[i] = length[i]
      <3>1. ASSUME NEW i \in Queues PROVE Pending(i) \subseteq B
        <4>1. PICK P, C : P = Pending(i) /\ C = B \cap Pending(i)
          OBVIOUS
        <4>2. IsFiniteSet(P) /\ C \in SUBSET P /\ Cardinality(C) = Cardinality(P)
          BY <2>4, <2>5, <2>7, <2>12, <4>1
        <4>3. C = P
          BY <4>2, FS_Subset
        <4>4. QED
          BY <4>1, <4>3
      <3>2. QED
        BY <2>2, <2>10, <3>1
    <2>13. QED
      BY <2>6, <2>11, <2>12
  <1>2. QED
    BY <1>1, InductiveInvariant, PTL DEF Spec, FairShare
=============================================================================
