----------------------------- MODULE CommandQueue -----------------------------
(***************************************************************************)
(* The endpoint command queue of manager/routers/commands.py: creation,    *)
(* polling, acceptance, results, the expiry sweep and cancellation.        *)
(*                                                                         *)
(* Every handler runs its whole BEGIN IMMEDIATE .. COMMIT on the event     *)
(* loop without awaiting, so one handler is one action.  A request that is *)
(* refused after its work was rolled back changes nothing and is not an    *)
(* action; a refusal that commits (it keeps the sweep, the channel         *)
(* observation or an audit fact) is one.  The clock advances between       *)
(* requests.                                                               *)
(*                                                                         *)
(* A command row is split into what its INSERT fixes for ever (row) and    *)
(* what later handlers update (state, delivered).  Commands that belong to *)
(* an auto-triage run are the subject of another module: for every other   *)
(* command guard() answers None, dispatchable() answers True and           *)
(* reconcile() touches nothing.                                            *)
(***************************************************************************)
EXTENDS Integers, FiniteSets

CONSTANTS
    Commands,    \* command_id values
    Agents,      \* agent_id values, all enrolled at the start
    ResultIds,   \* result_id values agents put on their results
    Collect,     \* the COLLECT_* actions, each with the boot its target names
    Disrupt,     \* the other actions of the closed enum, likewise
    Outcomes,    \* the outcomes results carry
    Reports,     \* what polls carry in X-Panopticon-Response-Profile
    Signers,     \* the conditions the signing key is found in
    Lifetimes,   \* lifetimes a caller of POST /api/v1/commands asks for
    Offsets,     \* UTC offsets such a caller writes expires_at in
    CommandTTL,  \* _DEFAULT_COMMAND_TTL, for commands of the response engine
    SigningLimit,  \* the longest lifetime the signer puts its name to
    ProfileTTL,  \* how long a reported runtime profile counts as recent
    BatchLimit,  \* LIMIT of one poll
    MaxTime,     \* bound: the clock stops here
    Null         \* no row yet, no agent

VARIABLES
    now,        \* the clock
    state,      \* commands.lifecycle_state ("ABSENT": no row)
    row,        \* the columns of commands fixed by its INSERT
    delivered,  \* commands.delivered_at IS NOT NULL
    results,    \* command_results, by result_id
    receipts,   \* command_result_receipts, by result_id
    audit,      \* command_audit: the set of facts recorded for a command
    channel,    \* agent_response_channels
    active,     \* enrolled_agents.revoked_at IS NULL
    signer,     \* the command signing key as the next authorization finds it
    reply       \* the body of the last answered agent request

vars == <<now, state, row, delivered, results, receipts, audit, channel, active, signer, reply>>

Actions == Collect \cup Disrupt

AllOutcomes == {"succeeded", "failed", "rejected", "indeterminate"}

\* Mutant: the sweep forgets that an acknowledged command can lapse.
OpenStatesUnacknowledged == {"AUTHORIZED", "DISPATCHED"}

\* _OPEN_LIFECYCLE_STATES, without PENDING: no command row ever holds it.
OpenStates == {"AUTHORIZED", "DISPATCHED", "ACCEPTED"}

ResultStates == {"SUCCEEDED", "FAILED", "REJECTED", "INDETERMINATE"}

Terminal == ResultStates \cup {"EXPIRED", "CANCELLED"}

States == {"ABSENT", "AUTHORIZED", "DISPATCHED", "ACCEPTED"} \cup Terminal

ASSUME ConstantsAssumption ==
    /\ IsFiniteSet(Commands)
    /\ Collect \cap Disrupt = {}
    /\ Outcomes \subseteq AllOutcomes
    /\ Reports \subseteq [blocked : SUBSET Actions, sign : BOOLEAN]
    /\ Signers \subseteq {"off", "ready", "unavailable"}
    /\ Lifetimes \subseteq Nat \ {0}
    /\ Offsets \subseteq Int
    /\ CommandTTL \in Nat \ {0}
    /\ SigningLimit \in Nat
    /\ ProfileTTL \in Nat
    /\ BatchLimit \in Nat \ {0}
    /\ MaxTime \in Nat

-----------------------------------------------------------------------------
(* Rows and replies *)

Rows == [agent : Agents, action : Actions, signed : BOOLEAN, linked : BOOLEAN,
         expires : Nat, text : Int, created : Nat]

\* The facts that say where a command went.  Creation is plain from the row,
\* and the facts about refused acceptances and ignored results are left out.
Facts == [event : {"dispatched", "accepted", "expired", "cancelled"}, detail : {"none"}]
         \cup [event : {"result_received"}, detail : Outcomes]

Fact(e) == [event |-> e, detail |-> "none"]

Replies == [op : {"none", "poll", "refused", "accept"}, agent : Agents \cup {Null},
            cmds : SUBSET Commands, auth : BOOLEAN]

NoReply == [op |-> "none", agent |-> Null, cmds |-> {}, auth |-> FALSE]

\* blocked: the actions the last reported profile does not permit, because of
\* its mode, its allowed actions or its boot; none without a profile.
Channels == [auth : BOOLEAN, blocked : SUBSET Actions, at : Nat]

Results == [rid : ResultIds, cmd : Commands, outcome : Outcomes]

Receipts == [rid : ResultIds, agent : Agents, cmd : Commands, outcome : Outcomes]

TypeOK ==
    /\ now \in Nat
    /\ state \in [Commands -> States]
    /\ row \in [Commands -> Rows \cup {Null}]
    /\ delivered \in [Commands -> BOOLEAN]
    /\ results \subseteq Results
    /\ receipts \subseteq Receipts
    /\ audit \in [Commands -> SUBSET Facts]
    /\ channel \in [Agents -> Channels]
    /\ active \in [Agents -> BOOLEAN]
    /\ signer \in Signers
    /\ reply \in Replies

Init ==
    /\ now = 0
    /\ state = [c \in Commands |-> "ABSENT"]
    /\ row = [c \in Commands |-> Null]
    /\ delivered = [c \in Commands |-> FALSE]
    /\ results = {}
    /\ receipts = {}
    /\ audit = [c \in Commands |-> {}]
    /\ channel = [a \in Agents |-> [auth |-> FALSE, blocked |-> {}, at |-> 0]]
    /\ active = [a \in Agents |-> TRUE]
    /\ signer \in Signers
    /\ reply = NoReply

-----------------------------------------------------------------------------
(* The expiry sweep.  expires_at is stored as the text the caller wrote, in *)
(* the caller's UTC offset, and SQLite compares it as text with the clock   *)
(* in UTC.  row[c].text is the reading of the digits, row[c].expires the    *)
(* instant they denote; they agree for an offset of zero.                   *)

LapsedText(c) == row[c].text <= now

Stale == {c \in Commands : state[c] \in OpenStates /\ LapsedText(c)}

Swept == [c \in Commands |-> IF c \in Stale THEN "EXPIRED" ELSE state[c]]

\* The audit facts f recorded for the commands in C.
Record(log, C, f) == [c \in Commands |-> IF c \in C THEN log[c] \cup {f} ELSE log[c]]

SweptAudit == Record(audit, Stale, Fact("expired"))

-----------------------------------------------------------------------------
(* Creation *)

\* policy_block with the profile current_profile finds: only a report that
\* is still recent can block.
PolicyBlocks(a, act) ==
    /\ now - channel[a].at <= ProfileTTL
    /\ act \in channel[a].blocked

\* authorize_and_enqueue: one new AUTHORIZED row, signed exactly when a key
\* is ready.  An endpoint that ever asked for signatures gets no unsigned
\* command, and a configured but unusable key creates nothing.
AuthorizeAndEnqueue(c, a, act, life, off, linked) ==
    /\ active[a]
    /\ ~PolicyBlocks(a, act)
    /\ signer # "unavailable"
    /\ signer = "off" => ~channel[a].auth
    /\ signer = "ready" => life <= SigningLimit
    /\ state[c] = "ABSENT"
    /\ now + life <= MaxTime
    /\ state' = [state EXCEPT ![c] = "AUTHORIZED"]
    /\ row' = [row EXCEPT ![c] = [agent |-> a, action |-> act,
                                  signed |-> signer = "ready", linked |-> linked,
                                  expires |-> now + life, text |-> now + life + off,
                                  created |-> now]]
    /\ reply' = NoReply
    /\ UNCHANGED <<now, audit, delivered, results, receipts, channel, active, signer>>

\* POST /api/v1/commands.  No response action points at such a command.
Enqueue(c, a, act, life, off) == AuthorizeAndEnqueue(c, a, act, life, off, FALSE)

\* The response engine authorizes a staged response action (its own state
\* is not modelled here): UTC expiry, and the row can be cancelled later.
EnqueueStaged(c, a, act) == AuthorizeAndEnqueue(c, a, act, CommandTTL, 0, TRUE)

-----------------------------------------------------------------------------
(* Polling *)

Owns(a, c) == state[c] # "ABSENT" /\ row[c].agent = a

\* Mutant: each poll overwrites the demand for signatures.
ObserveLast(a, auth, report) ==
    channel' = [channel EXCEPT ![a] =
                  [auth |-> auth \/ report.sign,
                   blocked |-> report.blocked,
                   at |-> IF report.blocked = {} THEN 0 ELSE now]]

\* The upsert of agent_response_channels: the profile is overwritten, or
\* cleared by a poll without one, but a demand for signatures is kept.  The
\* age of a report that blocks nothing is of no consequence.
Observe(a, auth, report) ==
    channel' = [channel EXCEPT ![a] =
                  [auth |-> channel[a].auth \/ auth \/ report.sign,
                   blocked |-> report.blocked,
                   at |-> IF report.blocked = {} THEN 0 ELSE now]]

\* A signature-requiring runtime that did not negotiate ES256.
MustNegotiate(auth, report) == report.sign /\ ~auth

\* Mutant: durable delivery repeats a command until its result arrives.
EligibleUntilResult(a, mode, report) ==
    {c \in Commands :
        /\ Owns(a, c)
        /\ IF mode = "durable" THEN Swept[c] \in OpenStates
                               ELSE Swept[c] = "AUTHORIZED" /\ ~delivered[c]
        /\ ~LapsedText(c)
        /\ row[c].action \notin report.blocked}

\* The commands a poll may hand out, before the batch limit.
Eligible(a, mode, report) ==
    {c \in Commands :
        /\ Owns(a, c)
        /\ IF mode = "durable" THEN Swept[c] \in {"AUTHORIZED", "DISPATCHED"}
                               ELSE Swept[c] = "AUTHORIZED" /\ ~delivered[c]
        /\ ~LapsedText(c)
        /\ row[c].action \notin report.blocked}

\* ORDER BY created_at LIMIT BatchLimit: the oldest ones, ties in any order.
Batches(E) ==
    {B \in SUBSET E :
        /\ Cardinality(B) = IF Cardinality(E) < BatchLimit THEN Cardinality(E) ELSE BatchLimit
        /\ \A x \in B, y \in E \ B : row[x].created <= row[y].created}

\* 409: the channel observation and the sweep are kept, nothing is handed out.
PollRefused(a, auth, report, why) ==
    /\ active[a]
    /\ state' = Swept
    /\ audit' = SweptAudit
    /\ Observe(a, auth, report)
    /\ reply' = [op |-> "refused", agent |-> a, cmds |-> why, auth |-> auth]
    /\ UNCHANGED <<now, row, delivered, results, receipts, active, signer>>

PollMustNegotiate(a, auth, report) ==
    /\ MustNegotiate(auth, report)
    /\ PollRefused(a, auth, report, {})

\* The batch of an ES256 poll holds a command that was queued unsigned.
PollUnsigned(a, mode, report) ==
    /\ ~MustNegotiate(TRUE, report)
    /\ \E B \in Batches(Eligible(a, mode, report)) :
          LET unsigned == {c \in B : ~row[c].signed}
          IN  unsigned # {} /\ PollRefused(a, TRUE, report, unsigned)

\* Mutant: the policy filter comes after LIMIT instead of in the query.
PollDeliverFilterLast(a, mode, auth, report) ==
    /\ active[a]
    /\ ~MustNegotiate(auth, report)
    /\ \E L \in Batches(Eligible(a, mode, [report EXCEPT !.blocked = {}])) :
          LET B == {c \in L : row[c].action \notin report.blocked}
          IN  /\ auth => \A c \in B : row[c].signed
              /\ state' = [c \in Commands |-> IF c \in B THEN "DISPATCHED" ELSE Swept[c]]
              /\ delivered' = [c \in Commands |-> c \in B \/ delivered[c]]
              /\ audit' = Record(SweptAudit, B, Fact("dispatched"))
              /\ reply' = [op |-> "poll", agent |-> a, cmds |-> B, auth |-> auth]
    /\ Observe(a, auth, report)
    /\ UNCHANGED <<now, row, results, receipts, active, signer>>

PollDeliver(a, mode, auth, report) ==
    /\ active[a]
    /\ ~MustNegotiate(auth, report)
    /\ \E B \in Batches(Eligible(a, mode, report)) :
          /\ auth => \A c \in B : row[c].signed
          /\ state' = [c \in Commands |-> IF c \in B THEN "DISPATCHED" ELSE Swept[c]]
          /\ delivered' = [c \in Commands |-> c \in B \/ delivered[c]]
          /\ audit' = Record(SweptAudit, B, Fact("dispatched"))
          /\ reply' = [op |-> "poll", agent |-> a, cmds |-> B, auth |-> auth]
    /\ Observe(a, auth, report)
    /\ UNCHANGED <<now, row, results, receipts, active, signer>>

Poll(a, mode, auth, report) ==
    \/ PollMustNegotiate(a, auth, report)
    \/ auth /\ PollUnsigned(a, mode, report)
    \/ PollDeliver(a, mode, auth, report)

-----------------------------------------------------------------------------
(* Acceptance and results *)

\* A collection may only be acknowledged while it is in flight.
AcceptRefused(a, c) ==
    /\ active[a]
    /\ Owns(a, c)
    /\ row[c].action \in Collect
    /\ Swept[c] \notin {"DISPATCHED", "ACCEPTED"}
    /\ state' = Swept
    /\ audit' = SweptAudit
    /\ reply' = NoReply
    /\ UNCHANGED <<now, row, delivered, results, receipts, channel, active, signer>>

\* Mutant: a collection is acknowledged in whatever state it is.
AcceptGrantedAnyway(a, c) ==
    /\ active[a]
    /\ Owns(a, c)
    /\ state' = [Swept EXCEPT ![c] = IF Swept[c] = "DISPATCHED" THEN "ACCEPTED" ELSE Swept[c]]
    /\ audit' = SweptAudit
    /\ reply' = [op |-> "accept", agent |-> a, cmds |-> {c}, auth |-> FALSE]
    /\ UNCHANGED <<now, row, delivered, results, receipts, channel, active, signer>>

AcceptGranted(a, c) ==
    /\ active[a]
    /\ Owns(a, c)
    /\ row[c].action \in Collect => Swept[c] \in {"DISPATCHED", "ACCEPTED"}
    /\ IF Swept[c] = "DISPATCHED"
       THEN /\ state' = [Swept EXCEPT ![c] = "ACCEPTED"]
            /\ audit' = Record(SweptAudit, {c}, Fact("accepted"))
       ELSE /\ state' = Swept
            /\ audit' = SweptAudit
    /\ reply' = [op |-> "accept", agent |-> a, cmds |-> {c}, auth |-> FALSE]
    /\ UNCHANGED <<now, row, delivered, results, receipts, channel, active, signer>>

Accept(a, c) == AcceptRefused(a, c) \/ AcceptGranted(a, c)

\* The state a reported outcome closes a command with.
FinalState(o) ==
    IF o = "succeeded" THEN "SUCCEEDED"
    ELSE IF o = "failed" THEN "FAILED"
    ELSE IF o = "rejected" THEN "REJECTED"
    ELSE "INDETERMINATE"

Receipt(a, c, r, o) == [rid |-> r, agent |-> a, cmd |-> c, outcome |-> o]

\* Mutant: a result is taken without looking at its sender's enrollment.
ResultAdmittedStale(a, c, r, version, o) ==
    /\ Owns(a, c)
    /\ version = 1 => row[c].expires > now
    /\ version = 2 => \A x \in receipts : x.rid = r => x = Receipt(a, c, r, o)

\* A version 1 result of a command past its expiry instant is refused (and
\* the sweep rolled back with it); a version 2 result never is, but its
\* result_id is bound for good to one agent, command and payload.
ResultAdmitted(a, c, r, version, o) ==
    /\ active[a]
    /\ Owns(a, c)
    /\ version = 1 => row[c].expires > now
    /\ version = 2 => \A x \in receipts : x.rid = r => x = Receipt(a, c, r, o)

Retained(a, c, r, version, o) ==
    receipts \cup {x \in {Receipt(a, c, r, o)} : version = 2}

\* The command already closed, or was never handed out: audited, ignored.
ResultIgnored(a, c, r, version, o) ==
    /\ ResultAdmitted(a, c, r, version, o)
    /\ Swept[c] \notin {"DISPATCHED", "ACCEPTED"}
    /\ state' = Swept
    /\ receipts' = Retained(a, c, r, version, o)
    /\ audit' = SweptAudit
    /\ reply' = NoReply
    /\ UNCHANGED <<now, row, delivered, results, channel, active, signer>>

\* Mutant: a result is applied whatever state its command is in.
ResultReceivedAnyway(a, c, r, version, o) ==
    /\ ResultAdmitted(a, c, r, version, o)
    /\ IF \E x \in results : x.rid = r
       THEN /\ results' = results
            /\ state' = Swept
       ELSE /\ results' = results \cup {[rid |-> r, cmd |-> c, outcome |-> o]}
            /\ state' = [Swept EXCEPT ![c] = FinalState(o)]
    /\ receipts' = Retained(a, c, r, version, o)
    /\ audit' = Record(SweptAudit, {c}, [event |-> "result_received", detail |-> o])
    /\ reply' = NoReply
    /\ UNCHANGED <<now, row, delivered, channel, active, signer>>

\* INSERT OR IGNORE on result_id decides whether the outcome is applied; the
\* audit fact is written either way.
ResultReceived(a, c, r, version, o) ==
    /\ ResultAdmitted(a, c, r, version, o)
    /\ Swept[c] \in {"DISPATCHED", "ACCEPTED"}
    /\ IF \E x \in results : x.rid = r
       THEN /\ results' = results
            /\ state' = Swept
       ELSE /\ results' = results \cup {[rid |-> r, cmd |-> c, outcome |-> o]}
            /\ state' = [Swept EXCEPT ![c] = FinalState(o)]
    /\ receipts' = Retained(a, c, r, version, o)
    /\ audit' = Record(SweptAudit, {c}, [event |-> "result_received", detail |-> o])
    /\ reply' = NoReply
    /\ UNCHANGED <<now, row, delivered, channel, active, signer>>

SubmitResult(a, c, r, version, o) ==
    ResultIgnored(a, c, r, version, o) \/ ResultReceived(a, c, r, version, o)

-----------------------------------------------------------------------------
(* Operators and the environment *)

\* Mutant: a command can be cancelled after it was dispatched.
CancelQueuedLate(c) ==
    /\ state[c] # "ABSENT" /\ row[c].linked
    /\ Swept[c] \in {"AUTHORIZED", "DISPATCHED", "CANCELLED"}
    /\ state' = [Swept EXCEPT ![c] = "CANCELLED"]
    /\ audit' = Record(SweptAudit, {c}, Fact("cancelled"))
    /\ reply' = NoReply
    /\ UNCHANGED <<now, row, delivered, results, receipts, channel, active, signer>>

\* POST response-actions/{id}/cancel: sweep, then AUTHORIZED -> CANCELLED.
\* Only a command with a response action can be named, and a repeat of a
\* cancellation changes nothing.
CancelQueued(c) ==
    /\ state[c] # "ABSENT" /\ row[c].linked
    /\ Swept[c] \in {"AUTHORIZED", "CANCELLED"}
    /\ state' = [Swept EXCEPT ![c] = "CANCELLED"]
    /\ audit' = Record(SweptAudit, {c}, Fact("cancelled"))
    /\ reply' = NoReply
    /\ UNCHANGED <<now, row, delivered, results, receipts, channel, active, signer>>

\* expire_pending, run by every read of the response queue.
ListSweep ==
    /\ Stale # {}
    /\ state' = Swept
    /\ audit' = SweptAudit
    /\ reply' = NoReply
    /\ UNCHANGED <<now, row, delivered, results, receipts, channel, active, signer>>

\* An administrator revokes an enrollment; agent_id is never enrolled again.
Revoke(a) ==
    /\ active[a]
    /\ active' = [active EXCEPT ![a] = FALSE]
    /\ reply' = NoReply
    /\ UNCHANGED <<now, state, row, delivered, results, receipts, audit, channel, signer>>

\* The key file is re-read at each authorization, and the configuration may
\* change with a restart.
ChangeSigner(s) ==
    /\ s # signer
    /\ signer' = s
    /\ reply' = NoReply
    /\ UNCHANGED <<now, state, row, delivered, results, receipts, audit, channel, active>>

Tick ==
    /\ now < MaxTime
    /\ now' = now + 1
    /\ reply' = NoReply
    /\ UNCHANGED <<state, row, delivered, results, receipts, audit, channel, active, signer>>

-----------------------------------------------------------------------------
Next ==
    \/ \E c \in Commands, a \in Agents, act \in Actions, life \in Lifetimes, off \in Offsets :
          Enqueue(c, a, act, life, off)
    \/ \E c \in Commands, a \in Agents, act \in Actions : EnqueueStaged(c, a, act)
    \/ \E a \in Agents, mode \in {"single", "durable"}, auth \in BOOLEAN, report \in Reports :
          Poll(a, mode, auth, report)
    \/ \E a \in Agents, c \in Commands : Accept(a, c)
    \/ \E a \in Agents, c \in Commands, r \in ResultIds, v \in {1, 2}, o \in Outcomes :
          SubmitResult(a, c, r, v, o)
    \/ \E c \in Commands : CancelQueued(c)
    \/ ListSweep
    \/ \E a \in Agents : Revoke(a)
    \/ \E s \in Signers : ChangeSigner(s)
    \/ Tick

Spec == Init /\ [][Next]_vars

\* Time passes and somebody keeps reading the queue (the console refreshes
\* it; every agent poll sweeps as well).  Nothing else is assumed: agents
\* may stay silent for ever and operators need not act.
FairSpec == Spec /\ WF_vars(Tick) /\ WF_vars(ListSweep)

-----------------------------------------------------------------------------
(* Properties *)

\* A command shows SUCCEEDED, FAILED, REJECTED or INDETERMINATE exactly when
\* one command_results row names it, and that row holds the same outcome:
\* replayed, late, colliding or racing results neither leave a second row nor
\* overwrite the first (submit_result, "accepts exactly one outcome").
OneOutcome ==
    /\ \A x \in results : state[x.cmd] = FinalState(x.outcome)
    /\ \A x, y \in results : x.cmd = y.cmd => x = y
    /\ \A c \in Commands : state[c] \in ResultStates => \E x \in results : x.cmd = c

\* What reached an endpoint: an outcome is only ever recorded for a command
\* that a poll handed out, and a command that was cancelled before dispatch
\* was never handed out by any delivery mode (cancel_queued against poll).
DeliveryHistory ==
    \A c \in Commands :
        /\ state[c] \in ResultStates \cup {"DISPATCHED", "ACCEPTED"} => delivered[c]
        /\ state[c] = "CANCELLED" => ~delivered[c]
        /\ delivered[c] <=> Fact("dispatched") \in audit[c]

\* Revocation takes effect on the next request: from then on only the sweep
\* and an operator's cancellation move the agent's commands, and no reply
\* carries them (require_agent_token in poll, accept and submit_result).
RevokedAgentIsInert ==
    [][\A c \in Commands :
          state[c] # "ABSENT" /\ ~active[row[c].agent]
            => state'[c] \in {state[c], "EXPIRED", "CANCELLED"} /\ c \notin reply'.cmds]_vars

\* A poll that asks for signatures is remembered, refused or not, no later
\* poll, report or request forgets it, and every command created for that
\* endpoint afterwards is signed, whatever became of the key
\* (agent_response_channels.command_auth against authorize_and_enqueue).
SignatureDemandIsKept ==
    [][/\ reply'.op \in {"poll", "refused"} /\ reply'.auth => channel'[reply'.agent].auth
       /\ \A a \in Agents : channel[a].auth => channel'[a].auth
       /\ \A c \in Commands :
             state[c] = "ABSENT" /\ state'[c] # "ABSENT" /\ channel[row'[c].agent].auth
               => row'[c].signed]_vars

\* What docs/API_CONTRACT.md:74-75 promises of a poll: what it claims are
\* "undelivered, unexpired commands".  The query compares the text of
\* expires_at, so this fails for an expiry written east of UTC (queue_offset).
DeliveredUnexpired ==
    reply.op = "poll" => \A c \in reply.cmds : row[c].expires > now

\* A collection acknowledgement is permission to execute: it is only granted
\* while the command is in flight and, for a command whose expiry is written
\* in UTC, before that instant (accept).
CollectionGrantIsLive ==
    reply.op = "accept" =>
        \A c \in reply.cmds :
            row[c].action \in Collect =>
                state[c] = "ACCEPTED" /\ (row[c].text = row[c].expires => row[c].expires > now)

\* Work the endpoint's policy blocks does not use up the batch: what a poll
\* with room left in its batch leaves AUTHORIZED is blocked by the profile
\* that poll reported (delivery_predicate is applied before LIMIT).
BlockedWorkDoesNotStarve ==
    reply.op = "poll" /\ Cardinality(reply.cmds) < BatchLimit =>
        \A c \in Commands :
            state[c] = "AUTHORIZED" /\ row[c].agent = reply.agent
              => row[c].action \in channel[reply.agent].blocked

\* Every command closes, whatever its endpoint does or fails to do.
EventuallyClosed ==
    \A c \in Commands : (state[c] # "ABSENT") ~> (state[c] \in Terminal)

\* The outcome shown for a command: that of the row of R, the command_results
\* rows, that names it.
OutcomeIn(R, c) ==
    IF \E x \in R : x.cmd = c THEN (CHOOSE x \in R : x.cmd = c).outcome ELSE "none"

Lifecycle ==
    INSTANCE CommandLifecycle WITH outcome <- [c \in Commands |-> OutcomeIn(results, c)]

\* The queue implements the lifecycle promised to operators.
LifecycleSpec == Lifecycle!Spec
=============================================================================
