---------------------------- MODULE LinuxStreams ----------------------------
(***************************************************************************)
(* Records of a Linux endpoint (manager/routers/linux_endpoint.py and      *)
(* manager/linux_endpoint_store.py).  The sensor numbers its records per   *)
(* boot; batches arrive late, again and out of order.  The Manager keeps   *)
(* each record once, accounts for gaps per stream, keeps the latest health *)
(* report of the host and queues process executions for detection.         *)
(*                                                                         *)
(* A batch is authenticated, read and validated first and stored later in  *)
(* one transaction; the enrollment may end in between.  All agents here    *)
(* enroll for the same host, one after the other.  Lines that fail         *)
(* validation are named in the answer and drop out before the store, so a  *)
(* batch holds valid records only; ids are derived from the slot           *)
(* (expected_id), so an id and a (stream, seq) slot are the same thing.    *)
(***************************************************************************)
EXTENDS Integers, FiniteSets, Sequences

CONSTANTS
  Agents,     \* agent ids that enroll for the host
  Streams,    \* (sensor_id, boot_id) pairs
  MaxSeq,     \* bound on sequence numbers
  Digests,    \* line digests
  Records,    \* the records that exist: stream, seq, digest, kind, time
  Batches,    \* the sequences of records a sensor may send
  MaxRanges,  \* MAX_MISSING_RANGES
  Null

RecordType ==
  [stream: Streams, seq: 1..MaxSeq, digest: Digests,
   kind: {"exec", "health", "other"}, time: Nat]

ASSUME StreamsAssumption ==
  /\ MaxSeq \in Nat
  /\ MaxRanges \in Nat \ {0}
  /\ Records \subseteq RecordType
  /\ Batches \subseteq Seq(Records)
  /\ Null \notin Agents
  /\ Null \notin [first: Nat, highest: Nat, acked: Nat, count: Nat]
  /\ Null \notin [agent: Agents, rec: Records]
  /\ Null \notin [agent: Agents, batch: Batches]

\* Lines of one slot with the same SHA-256 are the same line.
ASSUME DigestsAssumption ==
  \A x, y \in Records :
    x.stream = y.stream /\ x.seq = y.seq /\ x.digest = y.digest => x = y

VARIABLES
  live,      \* the agent enrolled for the host, if any
  unused,    \* agent ids that were never enrolled
  stored,    \* linux_endpoint_records
  stream,    \* linux_endpoint_streams
  health,    \* linux_endpoint_health of the host
  queue,     \* linux_endpoint_detection, rows in state pending
  request,   \* a batch that was validated and waits for its transaction
  retired    \* records the sensor dropped after an answer accounted for them

streamVars == <<live, unused, stored, stream, health, queue, request, retired>>

StreamRow == [first: Nat, highest: Nat, acked: Nat, count: Nat]

StreamsTypeOK ==
  /\ live \in Agents \cup {Null}
  /\ unused \subseteq Agents
  /\ stored \in [Agents -> SUBSET Records]
  /\ stream \in [Agents -> [Streams -> StreamRow \cup {Null}]]
  /\ health \in [agent: Agents, rec: Records] \cup {Null}
  /\ queue \subseteq Agents \X Records
  /\ request \in [agent: Agents, batch: Batches] \cup {Null}
  /\ retired \subseteq Agents \X Records

StreamsInit ==
  /\ live = Null
  /\ unused = Agents
  /\ stored = [a \in Agents |-> {}]
  /\ stream = [a \in Agents |-> [s \in Streams |-> Null]]
  /\ health = Null
  /\ queue = {}
  /\ request = Null
  /\ retired = {}

----------------------------------------------------------------------------
SameSlot(x, y) == x.stream = y.stream /\ x.seq = y.seq

Seqs(T, s) == {x.seq : x \in {y \in T : y.stream = s}}

\* Mutant: a line for a slot that is taken is a duplicate, whatever it says.
OutcomeBySlot(T, batch, i) ==
  IF \/ \E y \in T : SameSlot(y, batch[i])
     \/ \E j \in 1..(i - 1) : SameSlot(batch[j], batch[i])
  THEN "duplicate" ELSE "accepted"

\* store, line by line: what a line becomes given the table T.  The slot is
\* held by a record on file or by the first line of the batch that claims it.
Outcome(T, batch, i) ==
  LET rivals == {y \in T : SameSlot(y, batch[i])}
      k == CHOOSE j \in 1..i :
             SameSlot(batch[j], batch[i]) /\ \A m \in 1..(j - 1) : ~SameSlot(batch[m], batch[i])
      holder == IF rivals # {} THEN CHOOSE y \in rivals : TRUE ELSE batch[k]
  IN IF rivals = {} /\ k = i THEN "accepted"
     ELSE IF holder.digest = batch[i].digest THEN "duplicate" ELSE "conflict"

Lines(T, batch, outcomes) ==
  {batch[i] : i \in {j \in DOMAIN batch : Outcome(T, batch, j) \in outcomes}}

\* Mutant: a record below the first one does not reopen the prefix.
AdvanceKept(S, prior) ==
  LET lo == CHOOSE n \in S : \A m \in S : n <= m
      hi == CHOOSE n \in S : \A m \in S : m <= n
      from == IF prior = Null THEN lo - 1 ELSE prior.acked
  IN [first |-> lo, highest |-> hi,
      acked |-> CHOOSE n \in from..MaxSeq : (from + 1)..n \subseteq S /\ n + 1 \notin S,
      count |-> Cardinality(S)]

\* _advance_stream.  The first record ever seen fixes where accounting starts;
\* a later one below that start moves it down and reopens the prefix.
Advance(S, prior) ==
  LET lo == CHOOSE n \in S : \A m \in S : n <= m
      hi == CHOOSE n \in S : \A m \in S : m <= n
      first == IF prior = Null \/ lo < prior.first THEN lo ELSE prior.first
      from == IF prior = Null \/ first < prior.first THEN first - 1 ELSE prior.acked
  IN [first |-> first,
      highest |-> hi,
      acked |-> CHOOSE n \in from..MaxSeq : (from + 1)..n \subseteq S /\ n + 1 \notin S,
      count |-> Cardinality(S)]

\* The health row after the new reports X of agent a: the latest event time
\* wins, and on a tie the line that came last.
HealthAfter(a, X, batch) ==
  LET at(x) == CHOOSE i \in DOMAIN batch : batch[i] = x
      best == CHOOSE x \in X :
                \A y \in X : y.time < x.time \/ (y.time = x.time /\ at(y) <= at(x))
  IN IF X = {} \/ (health # Null /\ best.time < health.rec.time) THEN health
     ELSE [agent |-> a, rec |-> best]

\* _missing_ranges: the gaps above the acknowledged prefix, as pairs, up to
\* a limit; walked over the sequence numbers of the table in order.
MissingRanges(S, acked) ==
  LET walk[n \in (acked)..MaxSeq] ==
        IF n = acked THEN [gaps |-> <<>>, expected |-> acked + 1]
        ELSE LET w == walk[n - 1] IN
             IF n \notin S \/ Len(w.gaps) = MaxRanges THEN w
             ELSE [gaps |-> IF n > w.expected THEN Append(w.gaps, <<w.expected, n - 1>>)
                            ELSE w.gaps,
                   expected |-> n + 1]
  IN walk[MaxSeq].gaps

----------------------------------------------------------------------------
EnrollLinux(a) ==
  /\ live = Null /\ a \in unused
  /\ live' = a
  /\ unused' = unused \ {a}
  /\ UNCHANGED <<stored, stream, health, queue, request, retired>>

RevokeLinux ==
  /\ live # Null
  /\ live' = Null
  /\ UNCHANGED <<unused, stored, stream, health, queue, request, retired>>

\* records, up to the transaction: the token is checked, the body read and
\* every line validated against the host of the enrollment.
Validate(a, batch) ==
  /\ live = a
  /\ request = Null
  /\ request' = [agent |-> a, batch |-> batch]
  /\ UNCHANGED <<live, unused, stored, stream, health, queue, retired>>

\* Mutant: the enrollment is not read again in the transaction.
StoreUnchecked(heard) ==
  /\ request # Null
  /\ request' = Null
  /\ LET a == request.agent
         new == Lines(stored[a], request.batch, {"accepted"})
         answered == Lines(stored[a], request.batch, {"accepted", "duplicate"})
         T == stored[a] \cup new
     IN /\ stored' = [stored EXCEPT ![a] = T]
        /\ stream' = [stream EXCEPT ![a] = [s \in Streams |->
             IF s \in {x.stream : x \in answered} THEN Advance(Seqs(T, s), @[s]) ELSE @[s]]]
        /\ health' = HealthAfter(a, {x \in new : x.kind = "health"}, request.batch)
        /\ queue' = queue \cup {<<a, x>> : x \in {y \in new : y.kind = "exec"}}
        /\ retired' = IF heard THEN retired \cup {<<a, x>> : x \in answered} ELSE retired
  /\ UNCHANGED <<live, unused>>

\* The transaction of records: the enrollment is read again.  The answer
\* names the lines in conflict; a sensor that hears it drops the others.  A
\* sensor that does not (heard is FALSE) keeps the batch and retries.
Store(heard) ==
  /\ request # Null
  /\ request' = Null
  /\ IF live # request.agent
       THEN UNCHANGED <<stored, stream, health, queue, retired>>
       ELSE LET a == request.agent
                batch == request.batch
                new == Lines(stored[a], batch, {"accepted"})
                answered == Lines(stored[a], batch, {"accepted", "duplicate"})
                T == stored[a] \cup new
                touched == {x.stream : x \in answered}
            IN /\ stored' = [stored EXCEPT ![a] = T]
               /\ stream' = [stream EXCEPT ![a] = [s \in Streams |->
                    IF s \in touched THEN Advance(Seqs(T, s), @[s]) ELSE @[s]]]
               /\ health' = HealthAfter(a, {x \in new : x.kind = "health"}, batch)
               /\ queue' = queue \cup {<<a, x>> : x \in {y \in new : y.kind = "exec"}}
               /\ retired' = IF heard THEN retired \cup {<<a, x>> : x \in answered}
                             ELSE retired
  /\ UNCHANGED <<live, unused>>

StreamsNext ==
  \/ \E a \in Agents : EnrollLinux(a)
  \/ RevokeLinux
  \/ \E a \in Agents, b \in Batches : Validate(a, b)
  \/ \E heard \in BOOLEAN : Store(heard)

StreamsSpec == StreamsInit /\ [][StreamsNext]_streamVars

----------------------------------------------------------------------------
\* The accounting row of a stream is exact whatever order records came in:
\* the bounds and the count are those of the table, everything from the first
\* record through the acknowledged one is on file, and the next is not, so
\* the prefix is neither overstated nor stuck (_advance_stream).
PrefixExact ==
  \A a \in Agents, s \in Streams :
    LET S == Seqs(stored[a], s)  row == stream[a][s] IN
      /\ row = Null <=> S = {}
      /\ S # {} =>
           /\ row.first \in S /\ row.highest \in S
           /\ S \subseteq row.first..row.highest
           /\ row.count = Cardinality(S)
           /\ row.first <= row.acked /\ row.first..row.acked \subseteq S
           /\ row.acked + 1 \notin S

\* The gaps an answer lists are the gaps: every listed range is missing and
\* maximal, and what is missing below the highest record is listed unless
\* the limit cut the list (_missing_ranges).
GapsExact ==
  \A a \in Agents, s \in Streams : stream[a][s] # Null =>
    LET S == Seqs(stored[a], s)
        row == stream[a][s]
        gaps == MissingRanges(S, row.acked)
        listed == UNION {gaps[i][1]..gaps[i][2] : i \in DOMAIN gaps}
        missing == (row.first..row.highest) \ S
    IN /\ Len(gaps) <= MaxRanges
       /\ listed \subseteq missing
       /\ Len(gaps) < MaxRanges => listed = missing
       /\ \A i \in DOMAIN gaps : gaps[i][1] - 1 \in S /\ gaps[i][2] + 1 \in S

\* The sensor never drops a record the Manager does not hold byte for byte:
\* of two different lines for a slot, only the one on file is retired.
RetiredIsHeld == \A x \in retired : x[2] \in stored[x[1]]

\* One record per slot, and the one that came first stays: the table only
\* grows, and only for the agent that is enrolled at that moment.
EvidenceStays ==
  [][\A a \in Agents :
       /\ stored[a] \subseteq stored'[a]
       /\ stored[a] # stored'[a] => live = a
       /\ \A x, y \in stored'[a] : SameSlot(x, y) => x = y]_streamVars

\* The health row is the latest report of the host by event time, across
\* streams, agents, retries and late arrivals.
HealthIsLatest ==
  LET reports == UNION {{<<a, x>> : x \in {y \in stored[a] : y.kind = "health"}} : a \in Agents}
  IN IF reports = {} THEN health = Null
     ELSE /\ health # Null
          /\ <<health.agent, health.rec>> \in reports
          /\ \A r \in reports : r[2].time <= health.rec.time

\* What the Manager answers and shows of the streams of a host is exact, for
\* records that come late, again, in conflict or below the first one seen.
AccountingExact == StreamsTypeOK /\ PrefixExact /\ GapsExact /\ HealthIsLatest
=============================================================================
