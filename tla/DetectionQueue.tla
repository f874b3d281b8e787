---------------------------- MODULE DetectionQueue ----------------------------
(***************************************************************************)
(* The durable detection queues and the one worker thread that drains them *)
(* (manager/detection/worker.py), with the alert sink it writes through    *)
(* (manager/detection/factory.py, store.py).                               *)
(*                                                                         *)
(* Ingest commits rows as pending.  The worker claims a bounded batch, then *)
(* settles its events one transaction each: done with the alert, or failed. *)
(* It may die at any point (the process is killed, or an error outside the *)
(* per-event guard, such as a locked database while claiming, ends the     *)
(* thread); what it held stays claimed in the database.  The next start    *)
(* reverts stale claims, once.                                             *)
(*                                                                         *)
(* The batch is a set: the order the worker follows is given by Before.    *)
(***************************************************************************)
EXTENDS Integers, FiniteSets

CONSTANTS
    Events,        \* event_id / record_id values
    Alerts,        \* alert_id values
    QueueOf,       \* 1: events, 2: endpoint_records, 3: linux_endpoint_detection
    Stamp,         \* event_timestamp of the legacy events
    Ident,         \* the rank of an event's identity (event_id; agent_id and record_id)
    AlertOf,       \* the alert the engine raises for an event, or Null
    Collections,   \* COLLECT_ACTIONS
    ClaimLimit,    \* CLAIM_LIMIT
    Lease,         \* LEASE_SECONDS
    MaxTime,       \* bound: the clock stops here
    MaxCrashes,    \* bound: crashes in a behaviour
    Null           \* no alert

Queues == 1..3

\* What a response_actions row of an alert comes from: the recommendation the
\* engine translates, or one of the collections of a triage run.
Origins == {"engine"} \cup Collections

ASSUME ConstantsAssumption ==
    /\ IsFiniteSet(Events)
    /\ Null \notin Alerts
    /\ QueueOf \in [Events -> Queues]
    /\ Stamp \in [Events -> Nat]
    /\ Ident \in [Events -> Nat]
    /\ \A e, f \in Events : Ident[e] = Ident[f] => e = f
    /\ AlertOf \in [Events -> Alerts \cup {Null}]
    /\ ClaimLimit \in Nat \ {0}
    /\ Lease \in Nat
    /\ MaxTime \in Nat
    /\ MaxCrashes \in Nat

VARIABLES
    now,        \* the clock
    detect,     \* detect_state of every event ("absent": not ingested)
    arrival,    \* rowid: the rank of the event's first arrival
    ingested,   \* ingested_at of canonical records
    claimedAt,  \* claimed_at of claimed rows; that of others is never read
    held,       \* the events of the worker's batch not yet settled
    worker,     \* "up" or "down"
    started,    \* when the last process started
    crashes,    \* how often it did
    alerts,     \* the rows of alerts
    responses   \* response_actions rows staged for each alert, by origin

vars == <<now, detect, arrival, ingested, claimedAt, held, worker, started, crashes, alerts, responses>>

Settled == {"done", "failed"}

TypeOK ==
    /\ now \in Nat
    /\ detect \in [Events -> {"absent", "pending", "claimed"} \cup Settled]
    /\ arrival \in [Events -> Nat]
    /\ ingested \in [Events -> Nat]
    /\ claimedAt \in [Events -> Nat]
    /\ held \subseteq Events
    /\ worker \in {"up", "down"}
    /\ started \in Nat
    /\ crashes \in Nat
    /\ alerts \subseteq Alerts
    /\ responses \in [Alerts -> [Origins -> Nat]]

Init ==
    /\ now = 0
    /\ detect = [e \in Events |-> "absent"]
    /\ arrival = [e \in Events |-> 0]
    /\ ingested = [e \in Events |-> 0]
    /\ claimedAt = [e \in Events |-> 0]
    /\ held = {}
    /\ worker = "up"
    /\ started = 0
    /\ crashes = 0
    /\ alerts = {}
    /\ responses = [a \in Alerts |-> [o \in Origins |-> 0]]

-----------------------------------------------------------------------------
(* Ingest *)

\* The rank of the next arrival.
NextRank == Cardinality({e \in Events : detect[e] # "absent"}) + 1

\* Mutant: INSERT OR REPLACE instead of INSERT OR IGNORE.
IngestReplacing(e) ==
    /\ e \notin held
    /\ detect' = [detect EXCEPT ![e] = "pending"]
    /\ arrival' = [arrival EXCEPT ![e] = NextRank]
    /\ ingested' = [ingested EXCEPT ![e] = IF QueueOf[e] = 2 THEN now ELSE 0]
    /\ UNCHANGED <<now, claimedAt, held, worker, started, crashes, alerts, responses>>

\* INSERT OR IGNORE: a redelivered event changes nothing.
Ingest(e) ==
    /\ detect[e] = "absent"
    /\ detect' = [detect EXCEPT ![e] = "pending"]
    /\ arrival' = [arrival EXCEPT ![e] = NextRank]
    /\ ingested' = [ingested EXCEPT ![e] = IF QueueOf[e] = 2 THEN now ELSE 0]
    /\ UNCHANGED <<now, claimedAt, held, worker, started, crashes, alerts, responses>>

-----------------------------------------------------------------------------
(* The worker *)

\* Mutant: ties on event time are broken by event_id, not by arrival.
SortKeyById(e) ==
    CASE QueueOf[e] = 1 -> <<Stamp[e], Ident[e]>>
      [] QueueOf[e] = 2 -> <<ingested[e], Ident[e]>>
      [] QueueOf[e] = 3 -> <<0, arrival[e]>>

\* The ORDER BY of the three claim queries: event time and arrival for legacy
\* events, time of ingestion and identity for canonical records, arrival for
\* Linux records (their ingested_at only grows with the rowid).
SortKey(e) ==
    CASE QueueOf[e] = 1 -> <<Stamp[e], arrival[e]>>
      [] QueueOf[e] = 2 -> <<ingested[e], Ident[e]>>
      [] QueueOf[e] = 3 -> <<0, arrival[e]>>

Earlier(e, f) ==
    LET k == SortKey(e)
        l == SortKey(f)
    IN  k[1] < l[1] \/ (k[1] = l[1] /\ k[2] < l[2])

\* The order of the claimed rows: queue after queue.
Before(e, f) ==
    QueueOf[e] < QueueOf[f] \/ (QueueOf[e] = QueueOf[f] /\ Earlier(e, f))

\* One slot for queue i, if there is one left and the queue can use it.
Deal(take, length, i) ==
    IF take[1] + take[2] + take[3] < ClaimLimit /\ take[i] < length[i]
    THEN [take EXCEPT ![i] = @ + 1] ELSE take

\* Mutant: the first queue takes all it can before the next one.
SharesGreedy(length) ==
    LET least(x, y) == IF x < y THEN x ELSE y
        first == least(length[1], ClaimLimit)
        second == least(length[2], ClaimLimit - first)
    IN  <<first, second, least(length[3], ClaimLimit - first - second)>>

\* How many rows of each queue a claim takes: rounds of one slot each.
Shares(length) ==
    LET round[k \in 0..ClaimLimit] ==
            IF k = 0 THEN <<0, 0, 0>>
            ELSE Deal(Deal(Deal(round[k - 1], length, 1), length, 2), length, 3)
    IN  round[ClaimLimit]

Pending(i) == {e \in Events : detect[e] = "pending" /\ QueueOf[e] = i}

\* The first rows of each queue, as many as its share.
Batches ==
    LET share == Shares([i \in Queues |-> Cardinality(Pending(i))])
    IN  {B \in SUBSET {e \in Events : detect[e] = "pending"} :
            \A i \in Queues :
                /\ Cardinality(B \cap Pending(i)) = share[i]
                /\ \A e \in B \cap Pending(i), f \in Pending(i) \ B : Earlier(e, f)}

\* Nothing is claimed while a batch is in hand.
ClaimBatch ==
    /\ worker = "up" /\ held = {}
    /\ \E e \in Events : detect[e] = "pending"
    /\ \E B \in Batches :
          /\ held' = B
          /\ detect' = [e \in Events |-> IF e \in B THEN "claimed" ELSE detect[e]]
          /\ claimedAt' = [e \in Events |-> IF e \in B THEN now ELSE claimedAt[e]]
    /\ UNCHANGED <<now, arrival, ingested, worker, started, crashes, alerts, responses>>

\* The next event of the batch.
Current(e) == e \in held /\ \A f \in held \ {e} : Before(e, f)

\* One more row of each of the origins in S.
Plus(rows, S) == [o \in Origins |-> IF o \in S THEN rows[o] + 1 ELSE rows[o]]

\* Mutant: the response engine hears of every alert, new row or not.
EmitAlways(a) ==
    /\ alerts' = alerts \cup {a}
    /\ \E S \in SUBSET Origins : responses' = [responses EXCEPT ![a] = Plus(@, S)]

\* AlertSink.emit: a known alert_id changes nothing.  A new one is offered to
\* on_alert_created, which stages a row for any of the collections of a triage
\* run and one for the recommendation, or nothing: there may be no policy and
\* no recommendation, and its savepoint may be undone.
Emit(a) ==
    /\ alerts' = alerts \cup {a}
    /\ IF a \in alerts
       THEN responses' = responses
       ELSE \E S \in SUBSET Origins : responses' = [responses EXCEPT ![a] = Plus(@, S)]

\* The alert and the verdict commit together.
ProcessDone(e) ==
    /\ worker = "up" /\ Current(e)
    /\ detect' = [detect EXCEPT ![e] = "done"]
    /\ claimedAt' = [claimedAt EXCEPT ![e] = 0]
    /\ held' = held \ {e}
    /\ IF AlertOf[e] = Null THEN UNCHANGED <<alerts, responses>> ELSE Emit(AlertOf[e])
    /\ UNCHANGED <<now, arrival, ingested, worker, started, crashes>>

\* Mutant: the failed event's alert is not rolled back.
ProcessFailedKeeping(e) ==
    /\ worker = "up" /\ Current(e)
    /\ detect' = [detect EXCEPT ![e] = "failed"]
    /\ claimedAt' = [claimedAt EXCEPT ![e] = 0]
    /\ held' = held \ {e}
    /\ IF AlertOf[e] = Null THEN UNCHANGED <<alerts, responses>> ELSE Emit(AlertOf[e])
    /\ UNCHANGED <<now, arrival, ingested, worker, started, crashes>>

\* An error in the engine or in the transaction: rolled back, marked failed.
ProcessFailed(e) ==
    /\ worker = "up" /\ Current(e)
    /\ detect' = [detect EXCEPT ![e] = "failed"]
    /\ claimedAt' = [claimedAt EXCEPT ![e] = 0]
    /\ held' = held \ {e}
    /\ UNCHANGED <<now, arrival, ingested, worker, started, crashes, alerts, responses>>

Process(e) == ProcessDone(e) \/ ProcessFailed(e)

-----------------------------------------------------------------------------
(* Crash and restart *)

\* The guards on time and crashes are bounds of the model.
Crash ==
    /\ worker = "up"
    /\ crashes < MaxCrashes
    /\ worker' = "down"
    /\ held' = {}
    /\ crashes' = crashes + 1
    /\ UNCHANGED <<now, detect, arrival, ingested, claimedAt, started, alerts, responses>>

\* Mutant: the cutoff is one unit too early.
StaleLate(e) == detect[e] = "claimed" /\ claimedAt[e] < now - Lease - 1

Stale(e) == detect[e] = "claimed" /\ claimedAt[e] < now - Lease

\* A new process: revert_stale_claims, before the first claim and never again.
Restart ==
    /\ worker = "down"
    /\ worker' = "up"
    /\ detect' = [e \in Events |-> IF Stale(e) THEN "pending" ELSE detect[e]]
    /\ claimedAt' = [e \in Events |-> IF Stale(e) THEN 0 ELSE claimedAt[e]]
    /\ started' = now
    /\ UNCHANGED <<now, arrival, ingested, held, crashes, alerts, responses>>

Tick ==
    /\ now < MaxTime
    /\ now' = now + 1
    /\ UNCHANGED <<detect, arrival, ingested, claimedAt, held, worker, started, crashes, alerts, responses>>

-----------------------------------------------------------------------------
Next ==
    \/ \E e \in Events : Ingest(e)
    \/ ClaimBatch
    \/ \E e \in Events : Process(e)
    \/ Crash
    \/ Restart
    \/ Tick

Spec == Init /\ [][Next]_vars

\* The worker's loop keeps running while it is up.  Nothing is assumed of when
\* a dead process is started again, or whether it is.
FairSpec ==
    /\ Spec
    /\ WF_vars(ClaimBatch)
    /\ WF_vars(\E e \in Events : Process(e))

-----------------------------------------------------------------------------
(* Properties *)

\* An event gets one verdict: no redelivery, crash, revert or restart brings
\* back one that is done or failed (INSERT OR IGNORE, revert_stale_claims).
SettledOnce ==
    [][\A e \in Events : detect[e] \in Settled => detect'[e] = detect[e]]_vars

\* What the worker is about to process is claimed by it: between claim and
\* verdict nothing hands the row to anyone else, and a worker that is down
\* holds nothing (claim_batch, revert_stale_claims).
HeldIsClaimed ==
    /\ \A e \in held : detect[e] = "claimed"
    /\ worker = "down" => held = {}

\* Twins keep their order: when a legacy event is judged, every legacy event
\* with the same or an earlier timestamp that arrived before it was judged
\* before it, in an earlier batch or earlier in this one, or is left claimed
\* by a process that died ("the engine attaches the ETW twin's ticks to the
\* Sysmon detection only if it saw the twin first", claim_batch).
TwinsInOrder ==
    [][\A e, f \in Events :
          /\ e \in held /\ detect'[e] \in Settled
          /\ QueueOf[e] = 1 /\ QueueOf[f] = 1
          /\ Stamp[f] <= Stamp[e] /\ arrival[f] < arrival[e]
          => detect[f] # "pending" /\ f \notin held]_vars

\* An alert is responded to once, though it may be raised by several events or
\* again after a crash: one row at most for its recommendation and one for
\* each collection, and none for an alert that is not on file ("must never
\* produce a second response_actions row", AlertSink.emit).
RespondOnce ==
    \A a \in Alerts, o \in Origins :
        responses[a][o] <= 1 /\ (responses[a][o] = 1 => a \in alerts)

\* What the header of factory.py says of emit: it creates at most one
\* response_actions row for an alert.
OneRowPerAlert ==
    \A a \in Alerts : \A o, p \in Origins :
        responses[a][o] > 0 /\ responses[a][p] > 0 => o = p

\* The verdict and its alert are one: a done event has its alert row, and an
\* alert row has a done event behind it (store.py, committed together).
AlertsAreJustified ==
    \A a \in Alerts :
        a \in alerts <=> \E e \in Events : detect[e] = "done" /\ AlertOf[e] = a

\* A claim shares its slots over the protocols and leaves none unused: a
\* queue with rows to spare has at most one slot less than any other.
FairShare ==
    [][held = {} /\ held' # {} =>
         LET n(i) == Cardinality({e \in held' : QueueOf[e] = i})
         IN  /\ \A i, j \in Queues :
                   n(i) < Cardinality(Pending(i)) => n(j) <= n(i) + 1
             /\ Cardinality(held') = ClaimLimit \/ \A i \in Queues : Pending(i) \subseteq held']_vars

\* Left behind: claimed by a process that died, and too recently for the start
\* of the one that is running to have reverted it.
Stranded(e) ==
    /\ worker = "up"
    /\ detect[e] = "claimed" /\ e \notin held
    /\ claimedAt[e] + Lease >= started

\* While a process runs, it gives every ingested event its verdict, whatever
\* earlier ones did before they died, with one exception: what was claimed too
\* shortly before its start stays claimed (revert_stale_claims runs once per
\* start, and there is no other recovery).
EventuallySettled ==
    \A e \in Events :
        (worker = "up" /\ detect[e] # "absent" /\ ~Stranded(e))
          ~> (detect[e] \in Settled \/ worker = "down")
=============================================================================
