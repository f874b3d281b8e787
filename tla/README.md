# Verification of panopticon-manager

The manager collects telemetry from enrolled endpoints, detects on it, raises
alerts, stages responses to them and sends authorized commands back to the
endpoints. This directory holds TLA+ models of its core, the TLC configurations
that check them on small instances, and TLAPS proofs.

All state is in one SQLite database. One process serves it: nearly every request handler
is an `async def` whose body never awaits between `BEGIN IMMEDIATE` and `COMMIT`, so its
transaction is one atomic step on the event loop (reading a request body does await,
before the transaction: `LinuxStreams` keeps the two apart); one daemon thread, the
detection worker, has a connection of its own and competes for the write lock. There is
no scheduler. Whatever "expires" does so because a later request sweeps it.

## Inventory

| Part | State | Operations | Hard parts | What makes it correct |
|---|---|---|---|---|
| Command queue (`routers/commands.py`, `response_profile.py`, `command_signing.py`) | `commands`, `command_results`, `command_result_receipts`, `command_audit`, `agent_response_channels` | create, poll (single, durable), accept, submit result (v1, v2), sweep, cancel | late, repeated and colliding results; lost poll answers; expiry as text; signing demands; policy filters in a bounded batch | one outcome; nothing expired, cancelled or blocked handed out; every command closes |
| Response engine and operations (`detection/response.py`, `routers/response_actions.py`, `analyst_response.py`) | `response_actions`, `response_request_keys`, `response_campaigns`, `response_decision_audit` | stage from an alert, request, campaign, authorize, reject, cancel, sweep | duplicates among rows nobody swept; decisions racing expiry; retries; partial campaigns | no stacking; one final, audited decision; approval by another person |
| Detection worker (`detection/worker.py`, `factory.py`) | `detect_state` and `claimed_at` of three queues; the batch in memory | claim, process, fail, revert, crash, restart | crash between claim and verdict; fast restart; shared batch; order of twins | one verdict, committed with its alert; every event settled |
| Ingest (`routers/ingest.py`, `wire/`) | `events` | validate, insert or ignore | redelivery | idempotent |
| Auto-triage (`auto_triage.py`, `triage_store.py`, `routers/triage.py`) | `triage_runs`, `triage_items`, policies, assets | start, guard, reconcile, dispatchable, cancel | budgets re-checked at dispatch; overlap with the engine | budgets and concurrency limits hold; a cancelled run dispatches nothing |
| Alerts and incidents (`detection/store.py`, `routers/incidents.py`) | `alerts`, `incidents`, links, `incident_audit` | insert, upsert, set status | revisions in any order; analyst status against engine updates | revisions only grow; analyst decisions survive |
| Enrollment (`auth.py`) | `enrolled_agents`, challenges, analysts | challenge, enroll, revoke | one-use challenges; one active identity per host | identities are never rebound |
| Artifact keys (`artifact_keys.py`) | signing keys, rotations, decisions, audit | request and approve a rotation (which retires a key), mark a key compromised, revoke the enrollment | overlap of decisions; open sessions | one current key; compromised keys finish nothing |
| Artifact transfers (`artifact_transfers.py`) | sessions, chunks, usage counters | admit, chunk, complete, expire | quotas, retries, expiry of open sessions | usage equals the open sessions; completion is exact |
| Artifacts and access (`response_artifacts.py`, `artifact_delivery.py`, `artifact_access.py`) | artifacts, custody events, grants, receipts | retain, grant, revoke, deliver, acknowledge | revocation beside reads; repeated requests; refusals | custody is complete; reads need a live grant |
| Audit chain (`audit_chain.py`) | `response_audit_ledger`, checkpoints | append by trigger, verify, checkpoint | every audit table feeds one chain | the chain verifies and covers every audit row |
| Endpoint state (`endpoint_state.py`, `endpoint_freshness.py`, `process_snapshots.py`) | generations, challenges, snapshots | observe, project, issue, consume | reboots, stale generations, late answers | state never moves back; a challenge counts once |
| Linux streams (`linux_endpoint_store.py`) | records, streams | store, advance, gaps | out of order, repeated, below the start | the acknowledged prefix has no gap |
| Storage, status, tools | schema, read views, scripts | | | not modelled |

Parts meet in the database and in direct calls: ingest fills the detection queues;
the worker's alert sink calls the response engine inside the transaction of the
event; an authorized response becomes a command through `authorize_and_enqueue`;
polls deliver it; results close it. The full list of parts with their status, and
of what is hard to test in each, is in `PROJECT.json` (components, hazards).

## Modules

| Module | Models | Composed with |
|---|---|---|
| `CommandLifecycle` | the abstract promise of the command queue | refined by `CommandQueue` |
| `CommandQueue` | `routers/commands.py`, `response_profile.py`, `command_signing.py` | |
| `ResponseActions` | `detection/response.py`, `routers/response_actions.py`, `analyst_response.py` | |
| `DetectionQueue` | `detection/worker.py`, `detection/factory.py`, the insertion of `routers/ingest.py` | |
| `AutoTriage` | `auto_triage.py`, `triage_store.py`, `routers/triage.py` and their callers | |
| `ArtifactKeys` | endpoint enrollment in `auth.py`, `artifact_keys.py` and its router | extended by `ArtifactTransfers` |
| `ArtifactTransfers` | `artifact_transfers.py` and its router, retention in `response_artifacts.py`, the signed upload in one body | `ArtifactKeys` |
| `LinuxStreams` | `linux_endpoint_store.py`, `routers/linux_endpoint.py` | `RecordStores` |
| `Incidents` | `detection/store.py`, the alert sink, `routers/incidents.py` | `RecordStores` |
| `EndpointRecords` | `routers/endpoint.py`, `endpoint_state.py`, `endpoint_freshness.py`, `process_snapshots.py` | `RecordStores` |
| `AuditChain` | `audit_chain.py`, custody events, `routers/response_audit.py` | extended by `EvidenceAccess` |
| `EvidenceAccess` | `artifact_access.py` and its router, `artifact_delivery.py`, analyst enrollment in `auth.py`, the reads of `routers/response_artifacts.py` | `AuditChain` |

The modules named `...Proofs` hold theorems and their proofs, the ones named `MC...`
give the constants values. Operators whose comment begins with "Mutant" are wrong
versions of a definition beside them, the way the code could plausibly be wrong;
`PROJECT.json` says which property each of them breaks.

`CommandLifecycle`: a command is authorized once, moves forward only, closes at most
once, with an outcome only after it was handed out.

`CommandQueue`. A row of `commands` is split into what its INSERT fixes (`row`) and
what handlers update (`state`, `delivered`). `Enqueue` and `EnqueueStaged` are the
two callers of `authorize_and_enqueue`; `Poll` has its three answers, two refusals
that commit the channel observation and the sweep, and the delivery; `Accept` and
`SubmitResult` likewise keep the code's early returns apart. `Swept` is
`_expire_stale_commands`, run at the start of every handler that runs it. An expiry
is kept as the instant it denotes and as the text SQLite compares. A signing key may
be absent, ready or unusable at each authorization, as it is read again every time. A
profile is reduced to the actions it blocks. `LifecycleSpec` maps the queue to
`CommandLifecycle`: the outcome of a command is that of the row of `command_results`
that names it.

`ResponseActions`. A key stands for endpoint, action and target. `AlertCreated` is
`on_alert_created` with the policy of `_on_alert_created` in its order; the engine may also
stage nothing, as when its savepoint is undone. `CreateManual` and `CreateCampaign` share
`StageManual`; an item of a campaign whose derived request id is bound already is answered
from its row (`Replayed`). The translation of a recommendation is a constant
(`Recommends`), whether an automatic authorization is refused is a choice. The command of a
row is followed by `EndpointStep` only as far as duplicates and cancellation depend on it;
`CommandQueue` has its detail. Alerts carry the host they were raised for.

`DetectionQueue`. The three queues, the batch the worker holds in memory, crashes and
restarts. `Shares` is the loop that deals the slots of a claim, `SortKey` the three
ORDER BY clauses, `Emit` the alert sink. A crash stands for the death of the process
and for that of the thread alone. An alert may lead to a row for its recommendation and
to one for each collection of a triage run (`Origins`); any of them may be missing, since
there may be no recommendation, no policy, a skipped item or a savepoint that is undone.
Restarts happen at any time or never, and `started` is when the last one did.

`AutoTriage`. An alert whose rule has a policy opens a run with one item per collection
action. `IsPlan` says how the items are decided, one after the other, each against the
policy, the class of the asset, what the endpoint can do and the budgets, which count the
items before it. A policy revision carries its own limits, window and deadline
(`PolicyTerms`); the counters are shared, so `Usage` takes the terms it counts for, and a
run keeps those it was planned under. `Start` stages or sends the items; a refused command
undoes the whole run, and the alert stays without one. `Allowed` is `guard`: it runs again
at approval, at every poll (through `Dispatchable`, which also keeps a second collection of
an alert from starting) and at acceptance. `Reconciled` is `reconcile`, which the readers
of runs and of the queue and the polls call. Every item reserves the same number of bytes,
so budgets count items. The response row of an item and its command move together and are
one state. The target of a collection is taken to be resolvable and to stay what it was:
the checks of `guard` on it (`auto_triage.py:176-183`) can only withhold more than `Void`
does, and a target that cannot be resolved at the start skips its item like a policy that
says so.

`ArtifactKeys`. Challenges are minted, expire and are consumed once, by an enrollment or
by the proposal of a rotation. `Enroll` refuses a host that has an active agent and
includes the trigger that stores the first key. A rotation is proposed by the endpoint
under its current key and approved by an operator while that key still is the current
one. `RevokeKey` and `RevokeEnrollment` are the operator's decisions; a repeated decision
is answered from its row.

`ArtifactTransfers`. A session reserves space in the quotas of its command, its agent and
the Manager; chunks are stored once; completion checks the bytes, retains the artifact,
deletes the chunks and releases the reservation; `UploadSigned` retains in one step.
`usage` is the counter row the triggers keep, and `retained` the evidence on file. An
admission begins by sweeping the sessions whose time has run out. A chunk and a completion
do not sweep, they refuse a session that is overdue; but whatever transfer request is
refused, its transaction is rolled back and a second one sweeps (`Answer`, which is also
the retry of an admission). The upload in one body never sweeps. Evidence on file may
belong to a finished session, or to none or an expired one when it came in one body.
`Verified` is `verify_manifest`, with or without the instant a session was admitted. A
chunk is good or bad: the bytes the manifest's hash covers, or others.

`LinuxStreams`. A batch is authenticated and read first (`Validate`) and stored in a later
transaction (`Store`), and the enrollment may end in between. `Outcome` is the answer to
one line of a batch, `Advance` the loop that moves the acknowledged prefix over the
records held, `MissingRanges` the gaps reported back. `retired` is what the sensor drops
on the strength of an answer. One host, whose identities follow one another.

`Incidents`. Revisions of an incident are reported in any order and repeatedly;
`EmitReport` inserts the alert of a revision if it is new and folds the summary only
forwards, with a window that is merged with the one before (`Merged`); `SetStatus` is the
analyst's; each writes the audit trail.

`EndpointRecords`. Lines of Windows collectors carry an installation, a generation, an
epoch and a number. `ObserveGeneration` and `ProjectState` are the functions of
`endpoint_state.py`, `RecordAge` bounds the age of a line by a challenge of
`endpoint_freshness.py`. True time and the clocks of both machines are kept apart: a
clock reads whole steps of `Quantum` since its machine started, so endpoint and server
reboots are visible to it and nothing between two steps is. `Assembled` is the inventory
`process_snapshots.py` puts together from chunks; its checks of one page against the manifest
(index, capture, counts, bytes) depend on immutable records alone and are part of which pages
a manifest names.

`RecordStores` joins these three. They share no table, so transactions of one commute
with those of another, and a behaviour exercises one of them, chosen at the start
(`part`). What `LinuxStreams` queues for detection is judged by `Settle`, the worker's
step that `DetectionQueue` has in detail.

`AuditChain`. A trigger copies every row of a source table into the ledger. The hash of
row n is read as the rows 1 to n, so two hashes agree exactly when what they cover does.
Custody events and the security audit, the two sources evidence access writes, are kept;
the command and decision audits feed the ledger by the same trigger. The rows that existed
before the ledger did are its `legacy` rows.

`EvidenceAccess`. Enrolling an analyst again replaces the token; a request acts as the
analyst whose current token it carries. Grants name analyst and case and are revoked by an
id; grants and revocations share one table of request ids. A delivery needs permission,
a live grant, a key that is not compromised and bytes that verify; a refusal is written in
the custody of the artifact and in the security audit, in a transaction after the one that
was rolled back. View receipts have request ids of their own.

## Runs

| Run | Question |
|---|---|
| `queue_results` | one outcome, delivery history and the abstract lifecycle, under every order of results, cancellation and sweep; collections granted only in flight, a revoked endpoint inert |
| `queue_channel` | a demand for signatures is kept, through key loss and downgraded polls; blocked commands do not use up the batch; every command closes |
| `queue_offset` | is everything a poll hands out unexpired? No: violation, finding 1 |
| `detect_mixed` | one verdict, with its alert, one row for each origin of a response, twins in order and fair shares, through crashes |
| `detect_recover` | while a process runs every event is settled, except what it finds claimed too recently to revert |
| `detect_rows` | does an alert lead to at most one response row? No: violation, finding 2 |
| `response_engine` | no stacking, one final decision, approval |
| `response_campaign` | retries, campaigns; no response waits for ever |
| `artifact_transfers` | identities sound, counters exact, a reservation is enough to complete, commits whole, keys vouch in time |
| `triage` | each run within the limits of its own revision while revisions differ and change, one collection of an alert in flight, a cancelled run is quiet, permission on fresh grounds |
| `stores` | prefixes without gaps, one detection per execution, incidents that add up, ages never understated, projections at the head |
| `evidence` | every delivery justified by the ledger, one effect per request id, ledger and checkpoints verify |

Bounds. Two or three commands, responses, events, artifacts or grants are enough for the
races the properties speak of: each concerns one of them or a pair, with one more to be in
the way. Times are small numbers in which lifetimes are one or two units, so that every
order of "before, at and after expiry" occurs; `MaxTime` and `MaxClock` stop the clock.
Limits are scaled so that they bind: `BatchLimit` and `ClaimLimit` are 1 or 2 for the
code's 32 and 256; the quotas of `artifact_transfers` are one artifact away from what its
three artifacts need; in `triage` two alerts of two rules on one endpoint ask for one or
two collections each under policies that are lax (three live items, a window that reaches
over one instant) or tight (two live items, a longer window, one item for an alert), and
three administrative changes make either rule go from one to the other, so that a tight
plan meets lax work on file and lax work is admitted after a tight plan. The twins of
`detect_mixed` share a timestamp and arrive in either order, while the order of their
identities is fixed. `detect_recover` has a lease of one over three instants, so that a
restart falls inside the lease, at its end and after it, and two crashes, so that what one
start strands the next may recover. The command runs have one endpoint; that an endpoint
touches no other's commands, revoked or not, is in the theorems, which have any number.
`queue_offset` writes expiries in UTC and with a positive offset, the others in UTC. In
`stores`, Linux sequence numbers go up to 5 over batches that overlap, conflict and skip,
with one missing range reported; an incident has four revisions; Windows lines have two
installations, two generations and two epochs, one message on the network at a time, one
reboot and one restart of the server, clocks that step by two and challenges that live as
long as a step, so that accepted proofs may be a step old. The run has one Linux stream and
an inventory without pages; several streams and pages of any number are in the theorems. In
`evidence`, `MaxLedger` 8 bounds the audit rows, `MaxTokens` 3 the enrollments and
`MaxRefusals` 1 the recorded refusals, which any property tells apart from none. Names that
are interchangeable form symmetry sets in the safety runs. Deadlock is not checked: clients
may simply stop, and the clock and the ledger end at their bounds.

A command or response created so late that it would outlive the clock is excluded from
the liveness questions by their statement or by the guard of its creation.

Fairness. `queue_channel` and `response_campaign` assume that time passes and that somebody
goes on reading the queue of responses (a console that polls); nothing is assumed of
endpoints or analysts. `detect_recover` assumes that a worker that is up runs its loop
(weak fairness of `ClaimBatch` and `Process`) and nothing else: not that a dead process is
started again, nor when. The other runs state no liveness: uploads, reads and
administration depend on clients alone.

## Observations

What was met while modelling and differs from the words of the repository. The models do
what the code does.

1. `expires_at` is stored in the caller's offset and compared as text with UTC
   (`routers/commands.py:258`), so "unexpired" in `docs/API_CONTRACT.md:74` does not hold
   for positive offsets: `queue_offset` ends in a poll that hands out a command after its
   expiry. The expiries the response engine writes are in UTC and are not concerned.
   (Finding 1 of `PROJECT.json`.)
2. A demand for signatures is refused with a 409 while unsigned commands are open; the
   way out named there is to cancel them, but a command that is already dispatched
   cannot be cancelled (`routers/commands.py:272`): the endpoint waits for its expiry.
3. A result whose `result_id` already belongs to another command is dropped, and still
   audited as received (`routers/commands.py:431`, `:455`), so that the audit of a
   command can show two outcomes where `command_results` has one.
4. Claims are reverted once per start, and only those past the lease
   (`detection/worker.py:72`): a restart within the lease strands the events the dead
   worker held, until a later restart. ADR 003 (`docs/adr`, "gives crash recovery for free")
   promises the reversion of old claims on startup and no more, so this is the exception that
   `EventuallySettled` states (`Stranded`), not a disagreement.
5. A retry of an admission or completion whose evidence is on file is verified against the
   instant the evidence was verified, not against the admission of its session
   (`response_artifacts.py:240-242`, reached by `_retained`). If the key was retired between
   the two, the completion succeeds and a retry of it is refused with 403; a key retired
   after the completion makes no difference. The evidence stays on file and readable; only
   an endpoint that lost the answer cannot learn of it, although
   `docs/ARTIFACT_KEY_HISTORY.md:21` lets admitted sessions finish. Such a retry stores
   nothing either way: at most it sweeps (`Answer`).
6. Nothing in the Manager sets `analyst_credentials.revoked_at`; a credential ends only by
   being replaced.
7. The header of `detection/factory.py` (lines 16-17) says that `emit` creates at most one
   `response_actions` row. Since `on_alert_created` starts triage, an alert gets a row for each
   collection of its run beside that of its recommendation, as
   `tests/test_auto_triage.py:313-346` expects. `detect_rows` shows it; what does hold is one
   row per origin (`RespondOnce`). (Finding 2.)
8. Limits belong to a policy revision and counters to everyone, so work admitted under tight
   limits can be held back by a later run of another rule with laxer ones: the guard finds
   the tight limit spent, and the item is not sent or may not start until the later work
   ends. `AdmittedStaysAffordable` says that no budget holds it back otherwise, apart from
   the window once the run is older than that.

## Proofs

Each proof rests on the named assumptions on the constants of its module, which TLC
evaluates in every run of it, and holds for every number of commands, agents, results,
events, responses, analysts, keys, artifacts, incidents, records, runs and requests, and for
every lifetime, quota and budget.

`CommandQueueProofs`: `TypeCorrect`, `OneOutcomeHolds`, `DeliveryHistoryHolds`,
`RevokedAgentIsInertHolds`, `SignatureDemandIsKeptHolds` and `QueueImplementsLifecycle`,
the refinement of `CommandLifecycle`. The invariant joins type correctness, `OneOutcome`,
`DeliveryHistory` and two facts no run states: a command that exists has a row, and one
that waits for its first dispatch was never handed out. None is inductive alone: that a
command has an outcome exactly when one row of results names it is kept by `SubmitResult`
only because a result is taken for commands in flight, and those have none; that the
handed-out ones are the delivered ones is what cancellation and results need of a poll. The
refinement then goes action by action: each command of a step rests, moves or closes, and
the outcome of a command is unchanged unless its result was just inserted.
`CollectionGrantIsLiveHolds` and `BlockedWorkDoesNotStarveHolds` are about the last reply:
what it says is true of the state it leaves, so a step that writes no reply keeps them and
each of the replies is argued on its own, from the sweep that precedes it.

`DetectionQueueProofs`: `HeldIsClaimedHolds`, `RespondOnceHolds`,
`AlertsAreJustifiedHolds`, `TwinsInOrderHolds`, `SettledOnceHolds` and `FairShareHolds`,
over type correctness. `TwinsInOrder` is about a step, so the invariant carries its static
half (`InOrder`: what sorts and arrived before a held event of its queue is not pending)
and the step adds the order inside the batch. The invariant also says that no event has a
rank beyond the number arrived: an event that arrives while a batch is held must come after
everything in it, or the order of twins would not survive the arrival. `RespondOnce` needs
that an alert without a row has no responses of any origin. That a verdict is final follows
from `HeldIsClaimed` (what the worker holds is claimed by it, and a worker that is down
holds nothing): only a claimed event can be judged. `FairShareHolds` needs what the loop
over the rounds computes: after k rounds every queue has its k slots or all it can use, or
the slots ran out in a round and no queue is two behind another (`Dealt`, kept by a round
in `RoundStep`).

`ResponseActionsProofs`: `NeverStackedHolds`, `OneDecisionHolds`, `ApprovedHolds`,
`DecisionsAreFinalHolds` and `RetriesFindTheirRowHolds`, over type correctness. The
invariant adds that a staged response has its row, that one which is not staged was never
linked to a campaign, and that what waits on the engine's word comes from no behavioral
detector, which is why an approval need not look at the source of the alert again.
`NeverStacked` is kept by the staging actions because a response that is live after the
step, other than the new ones, is one that the search for duplicates would have found,
before the sweep (engine) or after it (requests); within a campaign it is kept because of
two items for one key only the first is staged. Retries find their row because a request
id, typed by the analyst or derived from a campaign and its item, is bound in the step that
stages its row, and no later step binds it again or takes the row away.

`ArtifactKeysProofs`: `IdentitiesAreSound`. The versions of an agent's keys are a line
only because of where its rotations come from, so the invariant adds the pedigree of
proposals and the spending of challenges: a proposal whose new key exists has lost its
old one, so it cannot be approved twice; every challenge that an enrollment or a proposal
rests on is consumed, so the next one needs another. One active agent per host is kept by
the guard of `Enroll` and by revocations being final.

`ArtifactTransfersProofs`: `NothingHalfCommitted`, `KeysVouchInTime`,
`IdentitiesStaySound`, `UsageAlwaysExact` and `ReservationsAlwaysSuffice`, over the
composition. The invariant joins that of the keys with the types of uploads, that nothing
was verified or admitted later than now, `NoHalfCommit` and `KeyVouchedInTime`. The actions
on uploads are brought to one abstract step, in which the session and evidence of each
artifact are kept (up to the sweep) or gained under a key verified at that moment; the
actions on keys to another, in which a key row keeps its start and its marks are set once,
to the current time. The two properties are preserved by these two steps, and an action
that is neither does not exist (`StepSplit`). The mark of a key can only be set now, and
what was verified was verified by now, so a mark never falls before what the key vouched
for.

For the counters and reservations the invariant (`UsageInv`) adds that the counter row is
exact and that, while anything is open, what is stored and what is reserved together fit
every quota, of the Manager and of each command. `ReservationsSuffice` alone is not
inductive: it speaks of one session at a time, and the room it finds is the room the other
sessions left. The actions come to four steps on the tables: sessions close (`CloseStep`),
one opens for which there is room (`OpenStep`), one is turned into evidence of its own size
(`MoveStep`), evidence for which there is room is stored (`StoreStep`). `Total` stands for
the sums of the code over any set of artifacts; that `MapThenSumSet` computes it, and that
a sum does not depend on the order its terms are taken in, is shown first.

`RecordStoresProofs` has four parts. Incidents (`IncidentsAlwaysAddUp`,
`IncidentsStayAddedUp`): the invariant is `IncidentsAddUp` with trails as sequences of any
length, and with the fact that a row and its trail begin together: a report that opens an
incident must find no trail. `Explains` relates each entry of a trail to the one before it
of the same kind and the row to the last of each kind, so the work is in the lemmas on an
appended entry: it becomes the last of its kind, its predecessor is the former last one,
and those of the other entries do not change. The window of a row reaches over every entry
that opened or revised it because a merge never narrows it (`WindowIsMerged`).

Linux streams (`EvidenceStaysHolds`, `DetectedOnceHolds`, `PrefixExactHolds`): the invariant
joins the types of the Linux tables, one record per slot, `PrefixExact` and `DetectedOnce`.
One record per slot is what makes a batch safe to answer: a line is accepted only as the
first of its slot, in the table and in the batch, and a line called a duplicate is the
record on file, because two lines of one slot with one digest are the same
(`DigestsAssumption`: no collision of SHA-256 among the lines of a slot). The prefix stays
exact because `Advance` ends at the first missing number (`WalkEnds`), and no record below
it is ever lost. Each action either stores an answered batch or leaves the Linux tables
alone (`StepSplit`).

Their accounts (`AccountingAlwaysExact`): the loop of `_missing_ranges` has, when it passed
number n, the gaps below n up to the limit and none else (`WalkFacts`); the health row is
the one of the newest health record because a batch folds it forwards only.

Windows records (`AgeIsNeverUnderstated`, `ProjectionIsAlwaysHead`, `ProofsAreKeptHolds`).
A message that answers the outstanding challenge was sent after that challenge was issued
(`ClocksSound`), so the time between issue and receipt covers the one between sending and
receipt; from then on bound and age grow alike (`AgesSound`), and what the two clocks round
off is less than the quantum that is added. For the projections the invariant says that
there is one line per id and one epoch per generation, that the active generation leads its
installation and that each projected line is on file (`HeadInv`). The lines of a batch are
handled one after the other, each from the tables the one before it left; `BatchKeeps`
carries the invariant through a batch of any length.

`EvidenceAccessProofs`: `ChainAlwaysVerifies`, `DeliveriesAlwaysJustified` and
`OneEffectHolds`. A request is one step that commits or leaves no trace: a transaction that
is rolled back is not a state of the model, only the refusal written after it is. The
ledger verifies because each writer adds the same row to its source and to the ledger in
one step, a checkpoint covers the rows there are when it is signed, and rows are only
appended: what was covered stays as it was. Deliveries are justified by rows before them,
so an appended row can only need a justification, never lose one; the new one finds its
grant on file because the access tables and the ledger are written together
(`GrantStaysOnFile`). For one effect per request id the invariant counts the ledger rows of
each request (`EffectInv`): one if its operation is on file, one per receipt.
`NullAssumption` keeps missing rows apart from rows.

`AutoTriageProofs`: `OneInFlightHolds`, `CancelledRunIsQuietHolds`,
`PermissionIsFreshHolds` and `PlansAlwaysHold`. The invariant adds to the types and
`OneInFlight` that a run has all its items, that only stored alerts have runs (so none is
started twice), that what was decided to be skipped never moves, and that nothing of a
cancelled run is staged or queued. The sweeps and the reconciliation only close reserved
items (`SweepsLower`), so each step is one of three: items rest, close or go on with the
guard's consent; a run begins with nothing out; a run is cancelled and its queue emptied
(`StepSplit`). A poll keeps `OneInFlight` because what it sends is one item of a run none
of whose other items is out after the sweep. `PlansAlwaysHold` is about the budgets. The
invariant says of every run that reserved something that, together with all reserved before
it, it fits the limits of its own revision (`Within`, `Counted`), and that ranks number the
runs in order of insertion and none was created after now (`Ranked`). Only a new run
reserves, and each item of its plan was decided against the ones before it under its own
terms (`PlanFits`); the new run comes last, so it adds nothing to what earlier runs count;
every other step can only take work out of the live set. That admitted work stays
affordable is then derived, not preserved (`LiveFits`): of the runs that count against a
live item, take the newest (`NewestOf`). If it is the item's own run, its budget holds with
all that was reserved before it; if it is a later one, its limit is no laxer, and it holds
with the item counted. That there are finitely many runs on file (`FewRuns`) is part of the
invariant, so that alerts and endpoints need not be finite sets.

What recursive functions, loops and sums compute is proved without the induction theorems
of the library, whose operator parameters the provers cannot instantiate: that a function
with the recursive equation exists, and that it has a property, is shown by looking at the
least argument (the smallest subset, the first round, the first line of a batch) where it
would not (`LeastExists`, `SmallestSubset`).

Only model-checked: the three liveness properties (`EventuallyClosed`, `EventuallySettled`,
`EventuallyDecided`). Liveness under fairness is beyond the prover. Every other property of
the passing runs is a theorem.

## Plan

Built so far: all of the modules above, and a theorem for each of their safety properties.
Left, in order:

1. The two other sources of the audit ledger, composed with the command queue.
2. A joined instance of `AutoTriage` and `CommandQueue`, in which a collection of a run
   and a manual one compete for the same poll.

## Not modelled

- Forensic context and readiness: immutable snapshots written when a response is staged,
  and reports read from them. No handler decides on them.
- Status, health, queue and export views: they only read.
- Schema migrations, connections and start-up, apart from the triggers of migrations 26,
  28 and 29, which are part of the actions they fire in.
- The vendored detection and response engines: submodules that are not in this tree. What
  they return is a choice or a constant of the models. Their pruning of in-memory state
  and their NDJSON feed are theirs.
- Contents as bytes: telemetry, evidence, hashes and signatures. A signature is valid or
  its request is refused; the validation of a line, a manifest or a result is a refusal
  that leaves no state.
- Unsigned uploads, which the Manager refuses with an audit row, and the inspection of
  Linux evidence bundles.
- Scripts under `tools/`: demonstrations and verification of hosts.
