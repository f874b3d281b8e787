---------------------------- MODULE ResponseActions ----------------------------
(***************************************************************************)
(* Staging and deciding response actions: the response engine              *)
(* (manager/detection/response.py), the operator API                       *)
(* (manager/routers/response_actions.py) and the decision audit.           *)
(*                                                                         *)
(* An alert may recommend a response, an analyst may request one, alone or *)
(* in a campaign.  It waits as PENDING until it is authorized, rejected or *)
(* expires; authorization creates its command, whose later life is the one *)
(* CommandQueue implements and is only followed here as far as duplicates  *)
(* and cancellation depend on it.  A key stands for the endpoint, the      *)
(* action and the target of a response.  Auto-triage rows are not here.    *)
(*                                                                         *)
(* Each action is one transaction.  A request that is refused rolls back   *)
(* everything it did, the sweep included, and is not an action.            *)
(***************************************************************************)
EXTENDS Integers, FiniteSets

CONSTANTS
    Responses,         \* response_id values
    Alerts,            \* alert_id values
    Keys,              \* endpoint, action and target of a response
    AutoSafe,          \* the keys whose action is of tier AUTO_SAFE
    Recommends,        \* the key an alert recommends; Null: nothing, Bad: nothing safe
    RecordOnly,        \* the alerts of behavioral detectors
    Analysts,          \* analyst_id values
    Requests,          \* request_id values
    Campaigns,         \* campaign_id values
    CampaignItems,     \* the item lists campaigns are created with
    SeparateApprover,  \* PANOPTICON_REQUIRE_SEPARATE_APPROVER
    ActionTTL,         \* _RESPONSE_ACTION_TTL
    CommandTTL,        \* _DEFAULT_COMMAND_TTL
    MaxTime,           \* bound: the clock stops here
    Null, Bad

System == "system"

\* What a campaign asks for, item by item.
Items == [alert : Alerts, key : Keys]

Rows == [alert : Alerts, key : Keys \cup {Bad}, by : Analysts \cup {System}, created : Nat]

ASSUME ConstantsAssumption ==
    /\ IsFiniteSet(Responses)
    /\ AutoSafe \subseteq Keys
    /\ Null \notin Keys /\ Bad \notin Keys /\ Null # Bad
    /\ Recommends \in [Alerts -> Keys \cup {Null, Bad}]
    /\ RecordOnly \subseteq Alerts
    /\ System \notin Analysts
    /\ \A items \in CampaignItems :
          DOMAIN items \subseteq Nat /\ \A i \in DOMAIN items : items[i] \in Items
    /\ SeparateApprover \in BOOLEAN
    /\ ActionTTL \in Nat \ {0}
    /\ CommandTTL \in Nat \ {0}
    /\ MaxTime \in Nat

VARIABLES
    now,        \* the clock
    seen,       \* the alerts the engine was told of
    phase,      \* response_actions.lifecycle_state ("ABSENT": no row)
    row,        \* the columns of response_actions fixed when it was staged
    approver,   \* authorized_by, of the authorized ones
    command,    \* commands.lifecycle_state of the row's command
    lapses,     \* commands.expires_at of the row's command
    decisions,  \* response_decision_audit: events recorded for the row
    bound,      \* response_request_keys
    campaigns   \* response_campaigns

vars == <<now, seen, phase, row, approver, command, lapses, decisions, bound, campaigns>>

Phases == {"ABSENT", "PENDING", "AUTHORIZED", "REJECTED", "EXPIRED"}

OpenCommands == {"AUTHORIZED", "DISPATCHED", "ACCEPTED"}

ClosedCommands == {"RESULT", "EXPIRED", "CANCELLED"}

DecisionEvents == {"staged", "linked", "authorized", "rejected", "expired", "cancelled"}

\* A request_id of a plain request, or one derived from a campaign and index.
Bindings == [actor : Analysts, request : Requests \cup (Campaigns \X Nat),
             alert : Alerts, key : Keys, response : Responses]

TypeOK ==
    /\ now \in Nat
    /\ seen \subseteq Alerts
    /\ phase \in [Responses -> Phases]
    /\ row \in [Responses -> Rows \cup {Null}]
    /\ approver \in [Responses -> Analysts \cup {System, Null}]
    /\ command \in [Responses -> {"ABSENT"} \cup OpenCommands \cup ClosedCommands]
    /\ lapses \in [Responses -> Nat]
    /\ decisions \in [Responses -> [DecisionEvents -> Nat]]
    /\ bound \subseteq Bindings
    /\ campaigns \subseteq [actor : Analysts, campaign : Campaigns, items : CampaignItems,
                            created : SUBSET Responses]

Init ==
    /\ now = 0
    /\ seen = {}
    /\ phase = [r \in Responses |-> "ABSENT"]
    /\ row = [r \in Responses |-> Null]
    /\ approver = [r \in Responses |-> Null]
    /\ command = [r \in Responses |-> "ABSENT"]
    /\ lapses = [r \in Responses |-> 0]
    /\ decisions = [r \in Responses |-> [e \in DecisionEvents |-> 0]]
    /\ bound = {}
    /\ campaigns = {}

-----------------------------------------------------------------------------
(* The two sweeps.  created_at (milliseconds, Z) and expires_at are written  *)
(* by the manager in UTC here, so comparing them as text is comparing them   *)
(* as instants, to the millisecond.                                          *)

\* Mutant: only the engine's rows are swept.
UndecidedEngine ==
    {r \in Responses : phase[r] = "PENDING" /\ row[r].created + ActionTTL <= now
                          /\ row[r].by = System}

\* _RESPONSE_ACTION_TTL after it was staged, a row that waits is out of time.
Undecided == {r \in Responses : phase[r] = "PENDING" /\ row[r].created + ActionTTL <= now}

SweptPhase == [r \in Responses |-> IF r \in Undecided THEN "EXPIRED" ELSE phase[r]]

\* One more event e in the audit of the rows in R.
Note(log, R, e) ==
    [r \in Responses |-> IF r \in R THEN [log[r] EXCEPT ![e] = @ + 1] ELSE log[r]]

SweptDecisions == Note(decisions, Undecided, "expired")

\* Mutant: finished commands are swept too.
LapsedAll == {r \in Responses : command[r] # "ABSENT" /\ lapses[r] <= now}

Lapsed == {r \in Responses : command[r] \in OpenCommands /\ lapses[r] <= now}

SweptCommand == [r \in Responses |-> IF r \in Lapsed THEN "EXPIRED" ELSE command[r]]

-----------------------------------------------------------------------------
(* Staging *)

\* Mutant: only requests that still wait count as duplicates.
OpenDuplicatePending(key) ==
    \E r \in Responses :
        phase[r] = "PENDING" /\ row[r].key = key /\ row[r].created + ActionTTL > now

\* find_open_duplicate, on the rows as they are: a row past its window is not
\* open even before the sweep finds it, an unswept command still is.
OpenDuplicate(key) ==
    \E r \in Responses :
        /\ phase[r] # "ABSENT" /\ row[r].key = key
        /\ \/ phase[r] = "PENDING" /\ row[r].created + ActionTTL > now
           \/ phase[r] = "AUTHORIZED" /\ command[r] \in OpenCommands

\* The same question after both sweeps.
OpenDuplicateSwept(key) ==
    \E r \in Responses :
        /\ phase[r] # "ABSENT" /\ row[r].key = key
        /\ \/ SweptPhase[r] = "PENDING"
           \/ phase[r] = "AUTHORIZED" /\ SweptCommand[r] \in OpenCommands

NewRow(alert, key, by) == [alert |-> alert, key |-> key, by |-> by, created |-> now]

\* A row that is rejected as it is written: its staging is its decision.
RecordRejected(a, r, key) ==
    /\ row' = [row EXCEPT ![r] = NewRow(a, key, System)]
    /\ phase' = [phase EXCEPT ![r] = "REJECTED"]
    /\ decisions' = Note(decisions, {r}, "staged")
    /\ UNCHANGED <<approver, command, lapses>>

\* A disruptive recommendation waits for an analyst.
StageForApproval(a, r, key) ==
    /\ row' = [row EXCEPT ![r] = NewRow(a, key, System)]
    /\ phase' = [phase EXCEPT ![r] = "PENDING"]
    /\ decisions' = Note(decisions, {r}, "staged")
    /\ UNCHANGED <<approver, command, lapses>>

\* An AUTO_SAFE one is authorized at once, or rejected if its command is
\* refused (authorize_and_enqueue raises) or its target no longer holds.
StageAndAuthorize(a, r, key, granted) ==
    /\ row' = [row EXCEPT ![r] = NewRow(a, key, System)]
    /\ IF granted
       THEN /\ phase' = [phase EXCEPT ![r] = "AUTHORIZED"]
            /\ command' = [command EXCEPT ![r] = "AUTHORIZED"]
            /\ lapses' = [lapses EXCEPT ![r] = now + CommandTTL]
            /\ approver' = [approver EXCEPT ![r] = System]
            /\ decisions' = Note(Note(decisions, {r}, "staged"), {r}, "authorized")
       ELSE /\ phase' = [phase EXCEPT ![r] = "REJECTED"]
            /\ decisions' = Note(Note(decisions, {r}, "staged"), {r}, "rejected")
            /\ UNCHANGED <<approver, command, lapses>>

\* The engine's policy for a recommendation, in the order of the code.
Decide(a, r, granted) ==
    LET key == Recommends[a] IN
    IF key = Bad \/ (key \notin AutoSafe /\ a \in RecordOnly) \/ OpenDuplicate(key)
    THEN RecordRejected(a, r, key)
    ELSE IF key \notin AutoSafe THEN StageForApproval(a, r, key)
    ELSE StageAndAuthorize(a, r, key, granted)

\* A new alert, in the worker's transaction.  Without a recommendation, or
\* when the engine fails and its savepoint is undone, nothing is staged.
AlertCreated(a, r, granted) ==
    /\ a \notin seen
    /\ seen' = seen \cup {a}
    /\ \/ UNCHANGED <<phase, row, approver, command, lapses, decisions>>
       \/ Recommends[a] # Null /\ phase[r] = "ABSENT" /\ Decide(a, r, granted)
    /\ UNCHANGED <<now, bound, campaigns>>

\* A request_id is answered from response_request_keys for ever after.
Bound(actor, request) == \E b \in bound : b.actor = actor /\ b.request = request

\* The rows R that one request or campaign stages; item says for what, linked
\* is whether they belong to a campaign.
StageManual(actor, R, item, linked) ==
    /\ row' = [r \in Responses |-> IF r \in R THEN NewRow(item[r].alert, item[r].key, actor)
                                              ELSE row[r]]
    /\ phase' = [r \in Responses |-> IF r \in R THEN "PENDING" ELSE SweptPhase[r]]
    /\ command' = SweptCommand
    /\ decisions' = LET staged == Note(SweptDecisions, R, "staged")
                    IN  IF linked THEN Note(staged, R, "linked") ELSE staged
    /\ UNCHANGED <<now, seen, approver, lapses>>

\* Mutant: the request key is not looked up before staging.
CreateManualUnkeyed(actor, a, key, request, r) ==
    /\ a \in seen
    /\ phase[r] = "ABSENT"
    /\ ~OpenDuplicateSwept(key)
    /\ StageManual(actor, {r}, [x \in {r} |-> [alert |-> a, key |-> key]], FALSE)
    /\ bound' = IF request = Null THEN bound
                ELSE bound \cup {[actor |-> actor, request |-> request, alert |-> a,
                                  key |-> key, response |-> r]}
    /\ UNCHANGED campaigns

\* POST response-actions: a new request_id, or none.  A known one is
\* answered with the earlier row or refused, and changes nothing.
CreateManual(actor, a, key, request, r) ==
    /\ a \in seen
    /\ request # Null => ~Bound(actor, request)
    /\ phase[r] = "ABSENT"
    /\ ~OpenDuplicateSwept(key)
    /\ StageManual(actor, {r}, [x \in {r} |-> [alert |-> a, key |-> key]], FALSE)
    /\ bound' = IF request = Null THEN bound
                ELSE bound \cup {[actor |-> actor, request |-> request, alert |-> a,
                                  key |-> key, response |-> r]}
    /\ UNCHANGED campaigns

\* The items of a campaign that get a row: not bound already (an analyst may
\* have used the derived request_id), not refused for their target, not open
\* already, and the first of their kind among those.
Staged(actor, campaign, items, refused) ==
    LET new == {i \in DOMAIN items \ refused :
                   /\ ~Bound(actor, <<campaign, i>>)
                   /\ items[i].alert \in seen
                   /\ ~OpenDuplicateSwept(items[i].key)}
    IN  {i \in new : ~ \E j \in new : j < i /\ items[j].key = items[i].key}

\* The rows the report names without staging them: bound for the same request.
Replayed(actor, campaign, items, refused) ==
    {b.response : b \in {c \in bound :
        /\ c.actor = actor
        /\ \E i \in DOMAIN items \ refused :
              c.request = <<campaign, i>> /\ c.alert = items[i].alert /\ c.key = items[i].key}}

\* POST response-campaigns: each item on a savepoint of its own, the report
\* kept in any case.  to[i] is the row item i gets.
CreateCampaign(actor, campaign, items, refused, to) ==
    LET created == Staged(actor, campaign, items, refused)
        R == {to[i] : i \in created}
        at(r) == CHOOSE i \in created : to[i] = r
    IN  /\ ~ \E c \in campaigns : c.actor = actor /\ c.campaign = campaign
        /\ \A i \in created : phase[to[i]] = "ABSENT"
        /\ \A i, j \in created : to[i] = to[j] => i = j
        /\ IF created = {} THEN UNCHANGED <<now, seen, phase, row, approver, command, lapses, decisions>>
           ELSE StageManual(actor, R, [r \in R |-> items[at(r)]], TRUE)
        /\ bound' = bound \cup {[actor |-> actor, request |-> <<campaign, i>>,
                                 alert |-> items[i].alert, key |-> items[i].key,
                                 response |-> to[i]] : i \in created}
        /\ campaigns' = campaigns \cup
              {[actor |-> actor, campaign |-> campaign, items |-> items,
                created |-> R \cup Replayed(actor, campaign, items, refused)]}

-----------------------------------------------------------------------------
(* Decisions *)

\* The row can still be decided: the sweep runs first.
Awaits(r) == SweptPhase[r] = "PENDING"

\* Mutant: analysts may approve what they asked for themselves.
AuthorizeOwn(r, actor) ==
    /\ Awaits(r)
    /\ phase' = [SweptPhase EXCEPT ![r] = "AUTHORIZED"]
    /\ command' = [command EXCEPT ![r] = "AUTHORIZED"]
    /\ lapses' = [lapses EXCEPT ![r] = now + CommandTTL]
    /\ approver' = [approver EXCEPT ![r] = actor]
    /\ decisions' = Note(SweptDecisions, {r}, "authorized")
    /\ UNCHANGED <<now, seen, row, bound, campaigns>>

\* The command is created and the row authorized in one transaction.
Authorize(r, actor) ==
    /\ Awaits(r)
    /\ SeparateApprover => row[r].by # actor
    /\ phase' = [SweptPhase EXCEPT ![r] = "AUTHORIZED"]
    /\ command' = [command EXCEPT ![r] = "AUTHORIZED"]
    /\ lapses' = [lapses EXCEPT ![r] = now + CommandTTL]
    /\ approver' = [approver EXCEPT ![r] = actor]
    /\ decisions' = Note(SweptDecisions, {r}, "authorized")
    /\ UNCHANGED <<now, seen, row, bound, campaigns>>

\* The enrolled host or the canonical target changed since an engine row was
\* staged: authorizing it rejects it.
AuthorizeRejects(r) ==
    /\ Awaits(r)
    /\ row[r].by = System
    /\ phase' = [SweptPhase EXCEPT ![r] = "REJECTED"]
    /\ decisions' = Note(SweptDecisions, {r}, "rejected")
    /\ UNCHANGED <<now, seen, row, approver, command, lapses, bound, campaigns>>

Reject(r) ==
    /\ Awaits(r)
    /\ phase' = [SweptPhase EXCEPT ![r] = "REJECTED"]
    /\ decisions' = Note(SweptDecisions, {r}, "rejected")
    /\ UNCHANGED <<now, seen, row, approver, command, lapses, bound, campaigns>>

\* Mutant: a repeated cancellation is recorded again.
CancelAgain(r) ==
    /\ phase[r] = "AUTHORIZED"
    /\ SweptCommand[r] \in {"AUTHORIZED", "CANCELLED"}
    /\ command' = [SweptCommand EXCEPT ![r] = "CANCELLED"]
    /\ decisions' = Note(decisions, {r}, "cancelled")
    /\ UNCHANGED <<now, seen, phase, row, approver, lapses, bound, campaigns>>

\* Before dispatch only.  A repeated cancellation does nothing more.
Cancel(r) ==
    /\ phase[r] = "AUTHORIZED"
    /\ SweptCommand[r] = "AUTHORIZED"
    /\ command' = [SweptCommand EXCEPT ![r] = "CANCELLED"]
    /\ decisions' = Note(decisions, {r}, "cancelled")
    /\ UNCHANGED <<now, seen, phase, row, approver, lapses, bound, campaigns>>

-----------------------------------------------------------------------------
(* Reads, endpoints and time *)

\* expire_pending, run by every read of the queue.
ListSweep ==
    /\ Undecided # {} \/ Lapsed # {}
    /\ phase' = SweptPhase
    /\ command' = SweptCommand
    /\ decisions' = SweptDecisions
    /\ UNCHANGED <<now, seen, row, approver, lapses, bound, campaigns>>

\* The endpoint polls, acknowledges or reports: the lifecycle of CommandQueue.
EndpointStep(r) ==
    /\ \/ SweptCommand[r] = "AUTHORIZED" /\ command' = [SweptCommand EXCEPT ![r] = "DISPATCHED"]
       \/ SweptCommand[r] = "DISPATCHED" /\ command' = [SweptCommand EXCEPT ![r] = "ACCEPTED"]
       \/ /\ SweptCommand[r] \in {"DISPATCHED", "ACCEPTED"}
          /\ command' = [SweptCommand EXCEPT ![r] = "RESULT"]
    /\ UNCHANGED <<now, seen, phase, row, approver, lapses, decisions, bound, campaigns>>

Tick ==
    /\ now < MaxTime
    /\ now' = now + 1
    /\ UNCHANGED <<seen, phase, row, approver, command, lapses, decisions, bound, campaigns>>

-----------------------------------------------------------------------------
Next ==
    \/ \E a \in Alerts, r \in Responses, granted \in BOOLEAN : AlertCreated(a, r, granted)
    \/ \E actor \in Analysts, a \in Alerts, key \in Keys, request \in Requests \cup {Null},
          r \in Responses : CreateManual(actor, a, key, request, r)
    \/ \E actor \in Analysts, campaign \in Campaigns, items \in CampaignItems :
          \E refused \in SUBSET DOMAIN items, to \in [DOMAIN items -> Responses] :
             CreateCampaign(actor, campaign, items, refused, to)
    \/ \E r \in Responses, actor \in Analysts : Authorize(r, actor)
    \/ \E r \in Responses : AuthorizeRejects(r)
    \/ \E r \in Responses : Reject(r)
    \/ \E r \in Responses : Cancel(r)
    \/ ListSweep
    \/ \E r \in Responses : EndpointStep(r)
    \/ Tick

Spec == Init /\ [][Next]_vars

\* Time passes and somebody keeps reading the queue; nobody need decide.
FairSpec == Spec /\ WF_vars(Tick) /\ WF_vars(ListSweep)

-----------------------------------------------------------------------------
(* Properties *)

\* A row that can still become, or already is, work at an endpoint.
Live(r) ==
    \/ phase[r] = "PENDING" /\ row[r].created + ActionTTL > now
    \/ phase[r] = "AUTHORIZED" /\ command[r] \in OpenCommands

\* Repeat detections, requests, retries and campaigns never stack a second
\* response on one endpoint, action and target (find_open_duplicate,
\* stage_manual_request), however late rows are swept.
NeverStacked ==
    \A r, s \in Responses :
        r # s /\ phase[r] # "ABSENT" /\ phase[s] # "ABSENT" /\ row[r].key = row[s].key
          => ~(Live(r) /\ Live(s))

\* The audit tells one story: staged once, decided at most once and as the
\* row says, cancelled at most once and only if the command was, and a
\* command exists exactly for the authorized rows (record_decision).
OneDecision ==
    \A r \in Responses :
        LET d == decisions[r] IN
        /\ d["staged"] = IF phase[r] = "ABSENT" THEN 0 ELSE 1
        /\ d["authorized"] = IF phase[r] = "AUTHORIZED" THEN 1 ELSE 0
        /\ d["expired"] = IF phase[r] = "EXPIRED" THEN 1 ELSE 0
        /\ d["rejected"] <= 1 /\ (d["rejected"] = 1 => phase[r] = "REJECTED")
        /\ d["cancelled"] = IF command[r] = "CANCELLED" THEN 1 ELSE 0
        /\ d["linked"] <= 1
        /\ command[r] # "ABSENT" <=> phase[r] = "AUTHORIZED"

\* A disruptive response reaches an endpoint only through an analyst, under
\* the separate-approver policy through one who did not ask for it, and what
\* a behavioral detector proposes never does.
Approved ==
    \A r \in Responses :
        phase[r] = "AUTHORIZED" /\ row[r].key \notin AutoSafe =>
            /\ approver[r] \in Analysts
            /\ SeparateApprover => approver[r] # row[r].by
            /\ row[r].by = System => row[r].alert \notin RecordOnly

\* One request_id, one row: a retry of a request or of a campaign finds the
\* row it made the first time, and a row is bound to one request
\* (response_request_keys, response_campaigns).
RetriesFindTheirRow ==
    /\ \A b, c \in bound : b.actor = c.actor /\ b.request = c.request => b = c
    /\ \A b, c \in bound : b.response = c.response => b = c
    /\ \A b \in bound : /\ phase[b.response] # "ABSENT"
                        /\ row[b.response].by = b.actor
                        /\ row[b.response].key = b.key
    /\ \A c \in campaigns : \A r \in c.created :
          \E b \in bound : b.response = r /\ b.actor = c.actor

\* A decision is final and a staged row never changes what it asks for.
DecisionsAreFinal ==
    [][\A r \in Responses :
          /\ phase[r] # "ABSENT" => row'[r] = row[r]
          /\ phase[r] \in {"AUTHORIZED", "REJECTED", "EXPIRED"} => phase'[r] = phase[r]
          /\ command[r] \in ClosedCommands => command'[r] = command[r]]_vars

\* No row waits for ever: one whose window ends before the clock stops is
\* decided or expires (expire_stale_response_actions, run by every read).
EventuallyDecided ==
    \A r \in Responses :
        (phase[r] = "PENDING" /\ row[r].created + ActionTTL <= MaxTime) ~> (phase[r] # "PENDING")
=============================================================================
