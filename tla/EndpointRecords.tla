-------------------------- MODULE EndpointRecords --------------------------
(***************************************************************************)
(* Canonical records of a Windows endpoint (routers/endpoint.py,           *)
(* manager/endpoint_state.py, manager/endpoint_freshness.py and            *)
(* manager/process_snapshots.py).  Batches arrive late, again and out of   *)
(* order; the Manager projects the latest state from proved ordering only  *)
(* and bounds the age of a capture with a one-use challenge.               *)
(*                                                                         *)
(* One agent.  now is true time; both machines read clocks that advance in *)
(* steps of Quantum and start again with the machine.                      *)
(***************************************************************************)
EXTENDS Integers, FiniteSets, Sequences

CONSTANTS
  Ids,          \* the record lines there are
  NameOf,       \* the record_id of a line; two lines may claim the same
  Body,         \* what a line says, its capture apart
  Timed,        \* the lines that tell the uptime of their capture
  Packets,      \* sequences of lines the endpoint may send at once
  Manifest,     \* [capture, pages] of the lines that are inventory manifests
  Installs, Epochs, MaxGen, MaxRecSeq,
  Categories,
  Nonces,
  Quantum,      \* resolution of the machines' clocks
  Guard,        \* CLOCK_GUARD_MS
  ChallengeTTL, \* CHALLENGE_NS
  MaxSends, MaxBoots, MaxRestarts, MaxClock,
  Absent

\* gen 0 stands for a record without a collector generation, cat Absent for
\* one that is neither state nor health.
BodyType ==
  [inst: Installs, gen: 0..MaxGen, epoch: Epochs, seq: 1..MaxRecSeq,
   cat: Categories \cup {Absent}]

ASSUME EndpointAssumption ==
  /\ Body \in [Ids -> BodyType]
  /\ DOMAIN NameOf = Ids
  /\ Packets \subseteq Seq(Ids)
  /\ Timed \subseteq Ids
  /\ Quantum \in Nat \ {0}
  /\ Guard \in Nat /\ Guard >= 2 * (Quantum - 1)
  /\ {ChallengeTTL, MaxGen, MaxRecSeq, MaxClock} \subseteq Nat

VARIABLES
  clock,       \* true time
  boot,        \* start times of the endpoint's boots so far
  serving,     \* [epoch, base]: SERVER_EPOCH and when the server booted
  captured,    \* when and in which boot a record was captured
  sent,        \* batches sent in answer to a challenge, which arrive any time and again
  records,     \* endpoint_records: the lines on file
  generation,  \* endpoint_generations: the epoch of (installation, generation)
  active,      \* endpoint_active_streams
  latest,      \* endpoint_latest, per category
  challenge,   \* endpoint_freshness_challenges
  age          \* endpoint_capture_age

endpointVars == <<clock, boot, serving, captured, sent, records, generation,
                  active, latest, challenge, age>>

Gens == 1..MaxGen

CaptureRow == [at: Nat, boot: Nat]
ActiveRow == [inst: Installs, gen: Gens, epoch: Epochs]
ChallengeRow == [nonce: Nonces, epoch: Nat, issued: Nat, consumed: BOOLEAN]
AgeRow == [epoch: Nat, received: Nat, bound: Nat]

\* No row is the missing row.
ASSUME MissingAssumption ==
  /\ Absent \notin Ids /\ Absent \notin Epochs
  /\ Absent \notin CaptureRow /\ Absent \notin ActiveRow
  /\ Absent \notin ChallengeRow /\ Absent \notin AgeRow

EndpointTypeOK ==
  /\ clock \in 0..MaxClock
  /\ boot \in Seq(Nat)
  /\ serving \in [epoch: Nat, base: Nat]
  /\ captured \in [Ids -> CaptureRow \cup {Absent}]
  /\ sent \subseteq [batch: Packets, context: [nonce: Nonces, at: Nat, boot: Nat,
                                              as: Installs \X Gens \X Epochs]]
  /\ records \subseteq Ids
  /\ generation \in [Installs \X Gens -> Epochs \cup {Absent}]
  /\ active \in ActiveRow \cup {Absent}
  /\ latest \in [Categories -> Ids \cup {Absent}]
  /\ challenge \in ChallengeRow \cup {Absent}
  /\ age \in [Ids -> AgeRow \cup {Absent}]

EndpointInit ==
  /\ clock = 0
  /\ boot = <<0>>
  /\ serving = [epoch |-> 1, base |-> 0]
  /\ captured = [r \in Ids |-> IF r \in Timed THEN Absent ELSE [at |-> 0, boot |-> 1]]
  /\ sent = {}
  /\ records = {}
  /\ generation = [g \in Installs \X Gens |-> Absent]
  /\ active = Absent
  /\ latest = [c \in Categories |-> Absent]
  /\ challenge = Absent
  /\ age = [r \in Ids |-> Absent]

----------------------------------------------------------------------------
(* Clocks: whole steps since the machine started.                          *)

Reading(t) == (t \div Quantum) * Quantum

Uptime(t, b) == Reading(t - boot[b])

\* clock_ns of the server process.
ServerClock == Reading(clock - serving.base)

----------------------------------------------------------------------------
(* The tables during the transaction of records, as one record.            *)

Tables == [records |-> records, generation |-> generation, active |-> active,
           latest |-> latest, age |-> age]

\* A line raises when another line holds its id, or when its generation
\* belongs to another epoch (a cloned or reset collector).
Refused(D, r) ==
  LET b == Body[r] IN
    \/ \E q \in D.records \ {r} : NameOf[q] = NameOf[r]
    \/ r \notin D.records /\ b.gen # 0 /\ D.generation[<<b.inst, b.gen>>] \notin {Absent, b.epoch}

\* observe_generation, when it does not raise: the first installation stays
\* the active one and only moves forward.
ObserveGeneration(D, r) ==
  LET b == Body[r] IN
    IF b.gen = 0 THEN D
    ELSE [D EXCEPT
            !.generation[<<b.inst, b.gen>>] = b.epoch,
            !.active = IF @ = Absent \/ (@.inst = b.inst /\ b.gen > @.gen)
                         THEN [inst |-> b.inst, gen |-> b.gen, epoch |-> b.epoch] ELSE @]

Origin(r) == <<Body[r].inst, Body[r].gen, Body[r].epoch>>

\* Mutant: the uptimes of two boots are compared.
RecordAgeAnyBoot(D, r, proof) ==
  LET delta == proof.uptime - Uptime(captured[r].at, captured[r].boot)
  IN IF /\ proof # Absent /\ r \in Timed
        /\ Body[r].gen # 0 /\ Origin(r) = proof.as
        /\ delta >= 0
        /\ D.age[r] = Absent
     THEN [D EXCEPT !.age[r] = [epoch |-> serving.epoch, received |-> ServerClock,
                                bound |-> delta + proof.elapsed + Guard]]
     ELSE D

\* record_age: only for a record of the boot, generation and epoch the proof
\* was sent from, and captured before it was sent.
RecordAge(D, r, proof) ==
  LET delta == proof.uptime - Uptime(captured[r].at, captured[r].boot)
  IN IF /\ proof # Absent /\ r \in Timed
        /\ proof.boot = captured[r].boot
        /\ Body[r].gen # 0 /\ Origin(r) = proof.as
        /\ delta >= 0
        /\ D.age[r] = Absent
     THEN [D EXCEPT !.age[r] = [epoch |-> serving.epoch, received |-> ServerClock,
                                bound |-> delta + proof.elapsed + Guard]]
     ELSE D

\* Mutant: the record that arrives last is the latest of its generation.
ProjectStateOnArrival(D, r) ==
  LET b == Body[r] IN
    IF \/ b.cat = Absent
       \/ b.gen = 0 /\ D.active # Absent
       \/ b.gen # 0 /\ (D.active.inst # b.inst \/ D.active.gen # b.gen)
    THEN D ELSE [D EXCEPT !.latest[b.cat] = r]

\* Mutant: any record may be projected unless it is behind in its generation.
ProjectStateInactive(D, r) ==
  LET b == Body[r]
      old == D.latest[b.cat]
      behind == Body[old].gen = b.gen /\ Body[old].seq >= b.seq
  IN IF b.cat = Absent \/ (old # Absent /\ behind) THEN D
     ELSE [D EXCEPT !.latest[b.cat] = r]

\* project_state: proved ordering moves forward within the active generation;
\* an unproved record never displaces a proved one.
ProjectState(D, r) ==
  LET b == Body[r]
      old == D.latest[b.cat]
      ordered == old # Absent /\ Body[old].gen # 0
      ahead == \/ Body[old].gen < b.gen
               \/ Body[old].gen = b.gen /\ Body[old].seq < b.seq
  IN IF \/ b.cat = Absent
        \/ b.gen = 0 /\ (D.active # Absent \/ ordered)
        \/ b.gen # 0 /\ (D.active.inst # b.inst \/ D.active.gen # b.gen)
        \/ b.gen # 0 /\ ordered /\ ~ahead
     THEN D ELSE [D EXCEPT !.latest[b.cat] = r]

\* One line of the batch, unless its id is on file.
Insert(D, r, proof) ==
  IF r \in D.records THEN D
  ELSE ProjectState(
         RecordAge([ObserveGeneration(D, r) EXCEPT !.records = @ \cup {r}], r, proof), r)

\* The batch from the tables D on: the tables before each line.
Before(batch, proof) ==
  LET step[i \in 1..(Len(batch) + 1)] ==
        IF i = 1 THEN Tables ELSE Insert(step[i - 1], batch[i - 1], proof)
  IN step

\* consume: the proof a batch carries, if its nonce is the outstanding one.
Proves(m) ==
  /\ m.context # Absent /\ challenge # Absent
  /\ ~challenge.consumed
  /\ challenge.epoch = serving.epoch
  /\ challenge.nonce = m.context.nonce
  /\ ServerClock - challenge.issued \in 0..ChallengeTTL

Proof(m) ==
  IF Proves(m)
    THEN [uptime |-> Uptime(m.context.at, m.context.boot), boot |-> m.context.boot,
          as |-> m.context.as,
          elapsed |-> ServerClock - challenge.issued]
    ELSE Absent

----------------------------------------------------------------------------
(* The endpoint and its network.                                           *)

\* When a line that tells no uptime was captured does not matter: it is there
\* from the start.  A collector numbers its lines in the order it captures.
Capture(r) ==
  /\ captured[r] = Absent
  /\ \A q \in Timed : Origin(q) = Origin(r) /\ Body[q].seq < Body[r].seq => captured[q] # Absent
  /\ captured' = [captured EXCEPT ![r] = [at |-> clock, boot |-> Len(boot)]]
  /\ UNCHANGED <<clock, boot, serving, sent, records, generation, active, latest,
                 challenge, age>>

\* The capture context answers the outstanding challenge and names the
\* installation, generation and epoch of the collector that sends, which is
\* that of some line it timed this boot.
Send(batch, as) ==
  /\ Cardinality(sent) < MaxSends
  /\ \A i \in DOMAIN batch : captured[batch[i]] # Absent
  /\ captured[as] # Absent /\ captured[as].boot = Len(boot) /\ Body[as].gen # 0
  /\ challenge # Absent
  /\ sent' = sent \cup {[batch |-> batch,
                         context |-> [nonce |-> challenge.nonce, at |-> clock,
                                      boot |-> Len(boot), as |-> Origin(as)]]}
  /\ UNCHANGED <<clock, boot, serving, captured, records, generation, active, latest,
                 challenge, age>>

RebootEndpoint ==
  /\ Len(boot) < MaxBoots
  /\ boot' = Append(boot, clock)
  /\ UNCHANGED <<clock, serving, captured, sent, records, generation, active, latest,
                 challenge, age>>

----------------------------------------------------------------------------
\* issue: one challenge per agent, replaced by the next.
IssueFreshness(n) ==
  /\ challenge # Absent => challenge.nonce # n
  /\ \A m \in sent : m.context.nonce # n
  /\ challenge' = [nonce |-> n, epoch |-> serving.epoch, issued |-> ServerClock,
                   consumed |-> FALSE]
  /\ UNCHANGED <<clock, boot, serving, captured, sent, records, generation, active,
                 latest, age>>

\* A batch without a proof may be sent, lost and arrive any time.
Plain == [batch: Packets, context: {Absent}]

\* records: one transaction for the batch.  A refused line rolls back all of
\* it, the consumption of the challenge included, and is no step.
Receive(m) ==
  LET D == Before(m.batch, Proof(m))
      after == D[Len(m.batch) + 1]
  IN /\ \A i \in DOMAIN m.batch : captured[m.batch[i]] # Absent
     /\ \A i \in DOMAIN m.batch : ~Refused(D[i], m.batch[i])
     /\ records' = after.records
     /\ generation' = after.generation
     /\ active' = after.active
     /\ latest' = after.latest
     /\ age' = after.age
     /\ challenge' = IF Proves(m) THEN [challenge EXCEPT !.consumed = TRUE] ELSE challenge
     /\ UNCHANGED <<clock, boot, serving, captured, sent>>

\* A new server process, on the same boot or (rebooted) on a new one.
RestartServer(rebooted) ==
  /\ serving.epoch <= MaxRestarts
  /\ serving' = [epoch |-> serving.epoch + 1,
                 base |-> IF rebooted THEN clock ELSE serving.base]
  /\ UNCHANGED <<clock, boot, captured, sent, records, generation, active, latest,
                 challenge, age>>

TickEndpoint ==
  /\ clock < MaxClock
  /\ clock' = clock + 1
  /\ UNCHANGED <<boot, serving, captured, sent, records, generation, active, latest,
                 challenge, age>>

EndpointNext ==
  \/ TickEndpoint
  \/ RebootEndpoint
  \/ \E r \in Ids : Capture(r)
  \/ \E b \in Packets, as \in Timed : Send(b, as)
  \/ \E n \in Nonces : IssueFreshness(n)
  \/ \E m \in sent \cup Plain : Receive(m)
  \/ \E rebooted \in BOOLEAN : RestartServer(rebooted)

EndpointSpec == EndpointInit /\ [][EndpointNext]_endpointVars

----------------------------------------------------------------------------
(* Reads.                                                                  *)

\* status: the age the Manager reports, Absent for unverified.
ReportedAge(r) ==
  IF age[r] = Absent \/ age[r].epoch # serving.epoch THEN Absent
  ELSE age[r].bound + (ServerClock - age[r].received)

\* projection_status: how a projected row stands.
Ordering(c) ==
  LET b == Body[latest[c]] IN
    CASE b.gen = 0 -> "unverified"
      [] b.gen # 0 /\ (active = Absent \/ b.inst # active.inst) -> "inactive_installation"
      [] b.gen # 0 /\ active # Absent /\ b.inst = active.inst ->
           IF b.gen = active.gen /\ b.epoch = active.epoch THEN "current" ELSE "superseded"

Scope(r) == <<Origin(r), captured[r].boot>>

\* overview: a manifest is assembled when its begin and all its pages are on
\* file under its own scope.
Assembled(m) ==
  /\ m \in records
  /\ \A r \in Manifest[m].pages \cup {Manifest[m].capture} :
       r \in records /\ Scope(r) = Scope(m)

----------------------------------------------------------------------------
\* The reported age of a capture is never below the true age, whatever the
\* delays, reboots, restarts, replays and the rounding of both clocks.
AgeNeverUnderstated ==
  \A r \in Ids : ReportedAge(r) # Absent => ReportedAge(r) >= clock - captured[r].at

\* The table tells one story: one line per record id, and all lines that name
\* a generation come from one collector epoch, whatever batches were refused
\* half way.
OneStory ==
  \A p, q \in records :
    /\ NameOf[p] = NameOf[q] => p = q
    /\ Body[p].gen # 0 /\ Body[p].inst = Body[q].inst /\ Body[p].gen = Body[q].gen =>
         Body[p].epoch = Body[q].epoch

\* The projection of a category is the newest record on file of the active
\* generation, if there is one, of the one story the table tells: late,
\* repeated and forked deliveries neither hide it nor replace it.
ProjectionIsHead ==
  /\ EndpointTypeOK
  /\ OneStory
  /\ \A r \in records :
       LET b == Body[r] IN
         /\ b.gen # 0 => active # Absent
         /\ b.cat # Absent /\ b.gen # 0 /\ b.inst = active.inst /\ b.gen = active.gen =>
              /\ latest[b.cat] # Absent
              /\ Ordering(b.cat) = "current"
              /\ Body[latest[b.cat]].seq >= b.seq

\* What was proved is never unproved: the projection of a category never
\* falls back to an older generation, a lower sequence, another installation
\* or an unordered record, and an inventory once reported as assembled stays
\* so.
ProofsAreKept ==
  [][/\ \A c \in Categories :
          latest[c] # Absent /\ Body[latest[c]].gen # 0 =>
            LET b == Body[latest[c]]  n == Body[latest'[c]] IN
              /\ n.inst = b.inst
              /\ n.gen > b.gen \/ (n.gen = b.gen /\ n.seq >= b.seq)
     /\ \A m \in DOMAIN Manifest : Assembled(m) => Assembled(m)']_endpointVars
=============================================================================
