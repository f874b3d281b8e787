----------------------------- MODULE AutoTriage -----------------------------
(***************************************************************************)
(* Automatic, collection-only workflows (manager/auto_triage.py,           *)
(* manager/triage_store.py, routers/triage.py and the calls the detection, *)
(* response and command handlers make to them).  An alert whose rule has a *)
(* policy opens a run: one item per collection action, decided against the *)
(* policy, the class of the asset, what the endpoint can do and shared     *)
(* budgets, then staged for approval or sent as a command.  The same guard *)
(* is run again at approval, at every poll and at acceptance.              *)
(*                                                                         *)
(* Every item reserves the same number of bytes, so budgets count items.   *)
(* The response row and the command of an item are one state here.         *)
(***************************************************************************)
EXTENDS Integers, Sequences, FiniteSets

CONSTANTS
  Alerts, Rules, Hosts,
  RuleOf, HostOf,   \* the rule and the endpoint of an alert
  Actions,          \* COLLECT_ACTIONS, in order
  Policies,         \* the terms a policy revision can have: PolicyTerms below
  Labels,           \* the classes administrators give an asset
  Requests,         \* (actor, request_id) pairs of administrative changes
  ActionTTL,        \* _RESPONSE_ACTION_TTL
  MaxTime,
  Null

Acts == {Actions[i] : i \in 1..Len(Actions)}
Verdicts == {"auto_dispatch", "require_approval", "skip"}
Classes == {"standard", "critical", "unknown"}

\* AutoTriagePolicy: what it says of each action, and its budget, which every
\* revision of every rule sets for itself: items of one alert, of one endpoint
\* created within endpoint_window_seconds, active ones of one endpoint and of
\* all, and workflow_ttl_seconds.
PolicyTerms ==
  [says: [Acts -> Verdicts], perAlert: Nat, perWindow: Nat, window: Nat,
   perEndpoint: Nat, global: Nat, ttl: Nat]

ASSUME TriageAssumption ==
  /\ Actions \in Seq(Acts) /\ Acts # {}
  /\ RuleOf \in [Alerts -> Rules]
  /\ HostOf \in [Alerts -> Hosts]
  /\ Policies \subseteq PolicyTerms
  /\ Labels \subseteq Classes
  /\ ActionTTL \in Nat /\ MaxTime \in Nat

VARIABLES
  now,
  policy,    \* the head revision of each rule's policy, version 0 for none
  asset,     \* triage_asset_classes, version 0 for the default
  capable,   \* the last profile and signing key of a host allow collection
  seen,      \* alerts the detection worker has stored
  run,       \* triage_runs
  item,      \* triage_items with their response row and command
  admin      \* triage_admin_requests

vars == <<now, policy, asset, capable, seen, run, item, admin>>

Time == 0..MaxTime

Live == {"PENDING", "AUTHORIZED", "DISPATCHED", "ACCEPTED"}
States == Live \cup {"SKIPPED", "REJECTED", "EXPIRED", "CANCELLED", "DONE"}

\* terms is policy_json; rank is the rowid, the place in order of insertion.
RunRow == [version: Nat, terms: Policies, asset: [class: Classes, version: Nat],
           created: Time, deadline: Nat, cancelled: BOOLEAN, rank: Nat]

ItemRow == [decision: Verdicts, state: States]

\* No row is the missing row.
ASSUME TriageRowsAssumption == Null \notin RunRow /\ Null \notin ItemRow

TypeOK ==
  /\ now \in Time
  /\ policy \in [Rules -> [version: Nat, terms: Policies \cup {Null}]]
  /\ asset \in [Hosts -> [class: Classes, version: Nat]]
  /\ capable \in [Hosts -> BOOLEAN]
  /\ seen \subseteq Alerts
  /\ run \in [Alerts -> RunRow \cup {Null}]
  /\ item \in [Alerts -> [Acts -> ItemRow \cup {Null}]]
  /\ admin \in [Requests -> (Rules \X Policies) \cup (Hosts \X Labels) \cup {Null}]

Init ==
  /\ now = 0
  /\ policy = [r \in Rules |-> [version |-> 0, terms |-> Null]]
  /\ asset = [h \in Hosts |-> [class |-> "unknown", version |-> 0]]
  /\ capable = [h \in Hosts |-> FALSE]
  /\ seen = {}
  /\ run = [a \in Alerts |-> Null]
  /\ item = [a \in Alerts |-> [c \in Acts |-> Null]]
  /\ admin = [q \in Requests |-> Null]

----------------------------------------------------------------------------
(* Budgets and decisions.                                                  *)

State(a, c) == item[a][c].state

\* The items of the runs on file, as pairs, that reserved something.
Reserved == {x \in Alerts \X Acts :
               item[x[1]][x[2]] # Null /\ item[x[1]][x[2]].decision # "skip"}

InWindow(a, w) == run[a].created >= now - w

IsLive(x) == State(x[1], x[2]) \in Live

InFlight(a, c) == item[a][c] # Null /\ State(a, c) \in {"DISPATCHED", "ACCEPTED"}

\* usage(conn, agent, alert, policy): what counts against the budgets of alert
\* a under the terms p, leaving out the items in Own.  Finished items count
\* while the window of p lasts, live ones always, whatever rule they are of.
Usage(a, Own, p) ==
  LET rows == {x \in Reserved \ Own : InWindow(x[1], p.window) \/ IsLive(x)}
      live == {x \in rows : IsLive(x)}
  IN [alert    |-> Cardinality({x \in rows : x[1] = a}),
      window   |-> Cardinality({x \in rows : HostOf[x[1]] = HostOf[a]
                                         /\ InWindow(x[1], p.window)}),
      endpoint |-> Cardinality({x \in live : HostOf[x[1]] = HostOf[a]}),
      global   |-> Cardinality(live)]

\* Mutant: the items of a run do not count against one another.
PlusNothing(u, n) == u

\* A usage after n more items of the same new run.
Plus(u, n) == [f \in DOMAIN u |-> u[f] + n]

Affordable(u, p) ==
  /\ u.alert < p.perAlert
  /\ u.window < p.perWindow
  /\ u.endpoint < p.perEndpoint
  /\ u.global < p.global

\* evaluate of the response engine, as the tests fix its results: a policy
\* that skips, an endpoint that cannot collect or a spent budget skip; only
\* a standard asset collects without approval.
Evaluate(p, c, class, able, u) ==
  IF p.says[c] = "skip" \/ ~able \/ ~Affordable(u, p) THEN "skip"
  ELSE IF class = "standard" THEN p.says[c] ELSE "require_approval"

\* Mutant: a run that was planned under an earlier policy goes on.
VoidLate(a) ==
  run[a].cancelled \/ run[a].deadline <= now \/ asset[HostOf[a]] # run[a].asset

\* The permanent half of guard: the run is cancelled, late, or decided under a
\* policy or a classification that has changed since.
Void(a) ==
  \/ run[a].cancelled
  \/ run[a].deadline <= now
  \/ policy[RuleOf[a]].version # run[a].version
  \/ asset[HostOf[a]] # run[a].asset

\* guard(conn, response_id): NULL exactly when the item may go on.
Allowed(a, c, able) ==
  /\ ~Void(a)
  /\ LET p == policy[RuleOf[a]].terms
     IN Evaluate(p, c, run[a].asset.class, able, Usage(a, {<<a, c>>}, p)) = item[a][c].decision

----------------------------------------------------------------------------
(* The sweeps other handlers begin with, on a table of items I.            *)

Move(I, X, to) ==
  [a \in Alerts |-> [c \in Acts |->
     IF <<a, c>> \in X THEN [I[a][c] EXCEPT !.state = to] ELSE I[a][c]]]

Items(S) == {x \in Reserved : State(x[1], x[2]) \in S}

\* _expire_stale_commands: the command of an item runs out with its run.
CommandsSwept ==
  Move(item, {x \in Items(Live \ {"PENDING"}) : run[x[1]].deadline <= now}, "EXPIRED")

\* expire_stale_response_actions, before an analyst decides.
ResponsesSwept ==
  Move(item, {x \in Items({"PENDING"}) : run[x[1]].created + ActionTTL <= now}, "EXPIRED")

\* reconcile for the hosts in H: queued work of void runs is retired.
Reconciled(I, H) ==
  LET void(x) == HostOf[x[1]] \in H /\ Void(x[1])
      was(s) == {x \in Reserved : I[x[1]][x[2]].state = s /\ void(x)}
  IN Move(Move(I, was("PENDING"), "REJECTED"), was("AUTHORIZED"), "CANCELLED")

----------------------------------------------------------------------------
(* Administration: revisions with an expected version, retries by request. *)

SavePolicy(q, r, terms, expected) ==
  /\ admin[q] = Null
  /\ policy[r].version = expected
  /\ policy' = [policy EXCEPT ![r] = [version |-> expected + 1, terms |-> terms]]
  /\ admin' = [admin EXCEPT ![q] = <<r, terms>>]
  /\ UNCHANGED <<now, asset, capable, seen, run, item>>

SaveAsset(q, h, class, expected) ==
  /\ admin[q] = Null
  /\ asset[h].version = expected
  /\ asset' = [asset EXCEPT ![h] = [class |-> class, version |-> expected + 1]]
  /\ admin' = [admin EXCEPT ![q] = <<h, class>>]
  /\ UNCHANGED <<now, policy, capable, seen, run, item>>

----------------------------------------------------------------------------
\* The decisions of a new run, action by action: each item already planned
\* counts against the ones after it.
IsPlan(a, plan) ==
  LET p == policy[RuleOf[a]].terms
      u == Usage(a, {}, p)
      taken(i) == Cardinality({j \in 1..(i - 1) : plan[Actions[j]] # "skip"})
  IN \A i \in 1..Len(Actions) :
       plan[Actions[i]] = Evaluate(p, Actions[i], asset[HostOf[a]].class,
                                   capable[HostOf[a]], Plus(u, taken(i)))

Planned(d) ==
  [decision |-> d,
   state |-> CASE d = "skip" -> "SKIPPED"
               [] d = "require_approval" -> "PENDING"
               [] d = "auto_dispatch" -> "AUTHORIZED"]

\* The runs on file; none is ever deleted.
OnFile == {a \in Alerts : run[a] # Null}

\* start, on the savepoint of a new alert.  Without a policy there is no run.
\* A command the queue refuses (signing down, endpoint gone) raises, which
\* undoes the whole run and keeps the alert; nothing tries again.
Start(a, enqueued) ==
  /\ a \notin seen
  /\ seen' = seen \cup {a}
  /\ \/ policy[RuleOf[a]].terms = Null /\ enqueued /\ UNCHANGED <<run, item>>
     \/ /\ policy[RuleOf[a]].terms # Null
        /\ \E plan \in [Acts -> Verdicts] :
             /\ IsPlan(a, plan)
             /\ IF enqueued
                  THEN /\ run' = [run EXCEPT ![a] =
                            [version |-> policy[RuleOf[a]].version,
                             terms |-> policy[RuleOf[a]].terms,
                             asset |-> asset[HostOf[a]], created |-> now,
                             deadline |-> now + policy[RuleOf[a]].terms.ttl,
                             cancelled |-> FALSE,
                             rank |-> Cardinality(OnFile) + 1]]
                       /\ item' = [item EXCEPT ![a] = [c \in Acts |-> Planned(plan[c])]]
                  ELSE /\ \E c \in Acts : plan[c] = "auto_dispatch"
                       /\ UNCHANGED <<run, item>>
  /\ UNCHANGED <<now, policy, asset, capable, admin>>

\* An analyst approves (authorize_response_action) or rejects a staged item.
Authorize(a, c) ==
  /\ <<a, c>> \in Items({"PENDING"})
  /\ ResponsesSwept[a][c].state = "PENDING"
  /\ Allowed(a, c, capable[HostOf[a]])
  /\ item' = [ResponsesSwept EXCEPT ![a][c].state = "AUTHORIZED"]
  /\ UNCHANGED <<now, policy, asset, capable, seen, run, admin>>

Reject(a, c) ==
  /\ <<a, c>> \in Items({"PENDING"})
  /\ ResponsesSwept[a][c].state = "PENDING"
  /\ item' = [ResponsesSwept EXCEPT ![a][c].state = "REJECTED"]
  /\ UNCHANGED <<now, policy, asset, capable, seen, run, admin>>

\* cancel_queued for one response.
Cancel(a, c) ==
  /\ <<a, c>> \in Items({"AUTHORIZED"})
  /\ CommandsSwept[a][c].state = "AUTHORIZED"
  /\ item' = [CommandsSwept EXCEPT ![a][c].state = "CANCELLED"]
  /\ UNCHANGED <<now, policy, asset, capable, seen, run, admin>>

\* Mutant: cancelling a run leaves its queued commands to their polls.
CancelRunStaged(a) ==
  /\ run[a] # Null /\ ~run[a].cancelled
  /\ run' = [run EXCEPT ![a].cancelled = TRUE]
  /\ item' = Move(item, {x \in Items({"PENDING"}) : x[1] = a}, "REJECTED")
  /\ UNCHANGED <<now, policy, asset, capable, seen, admin>>

\* cancel_run; a retry finds the run cancelled and does nothing.
CancelRun(a) ==
  /\ run[a] # Null /\ ~run[a].cancelled
  /\ run' = [run EXCEPT ![a].cancelled = TRUE]
  /\ item' = Move(Move(item, {x \in Items({"PENDING"}) : x[1] = a}, "REJECTED"),
                  {x \in Items({"AUTHORIZED"}) : x[1] = a}, "CANCELLED")
  /\ UNCHANGED <<now, policy, asset, capable, seen, admin>>

\* Reading the runs reconciles all hosts; reading the response queue expires
\* what nobody decided on.
ReadRuns ==
  /\ item' = Reconciled(item, Hosts)
  /\ UNCHANGED <<now, policy, asset, capable, seen, run, admin>>

ReadQueue ==
  /\ item' = ResponsesSwept
  /\ UNCHANGED <<now, policy, asset, capable, seen, run, admin>>

----------------------------------------------------------------------------
\* Mutant: siblings in flight are not looked at.
DispatchableAlone(I, x, able) == Allowed(x[1], x[2], able)

\* dispatchable: guard passes and no sibling is in flight.
Dispatchable(I, x, able) ==
  /\ Allowed(x[1], x[2], able)
  /\ \A c \in Acts \ {x[2]} :
       I[x[1]][c] # Null => I[x[1]][c].state \notin {"DISPATCHED", "ACCEPTED"}

\* A poll of host h reports what it can do, sweeps, reconciles, and hands out
\* at most one item per run; in durable mode one that is out may be sent
\* again.  Which item of a run is oldest is left open.
Poll(h, able, durable) ==
  LET swept == Reconciled(CommandsSwept, {h})
      queued == {x \in Reserved :
                   /\ HostOf[x[1]] = h
                   /\ able
                   /\ swept[x[1]][x[2]].state \in
                        {"AUTHORIZED"} \cup (IF durable THEN {"DISPATCHED"} ELSE {})
                   /\ Dispatchable(swept, x, able)}
  IN /\ capable' = [capable EXCEPT ![h] = able]
     /\ \E sent \in SUBSET queued :
          /\ \A x \in queued : \E y \in sent : y[1] = x[1]
          /\ \A x, y \in sent : x[1] = y[1] => x = y
          /\ item' = Move(swept, sent, "DISPATCHED")
     /\ UNCHANGED <<now, policy, asset, seen, run, admin>>

\* The endpoint asks to start; for a collection the answer is permission.  A
\* refusal keeps the sweep.
Accept(a, c) ==
  /\ <<a, c>> \in Items({"DISPATCHED"})
  /\ item' = IF CommandsSwept[a][c].state = "DISPATCHED" /\ Allowed(a, c, capable[HostOf[a]])
               THEN [CommandsSwept EXCEPT ![a][c].state = "ACCEPTED"]
               ELSE CommandsSwept
  /\ UNCHANGED <<now, policy, asset, capable, seen, run, admin>>

\* A result closes the command.
Finish(a, c) ==
  /\ <<a, c>> \in Items({"DISPATCHED", "ACCEPTED"})
  /\ item' = IF CommandsSwept[a][c].state = "EXPIRED" THEN CommandsSwept
             ELSE [CommandsSwept EXCEPT ![a][c].state = "DONE"]
  /\ UNCHANGED <<now, policy, asset, capable, seen, run, admin>>

Tick ==
  /\ now < MaxTime
  /\ now' = now + 1
  /\ UNCHANGED <<policy, asset, capable, seen, run, item, admin>>

Next ==
  \/ Tick
  \/ \E q \in Requests, r \in Rules, p \in Policies, v \in 0..Cardinality(Requests) :
       SavePolicy(q, r, p, v)
  \/ \E q \in Requests, h \in Hosts, k \in Labels, v \in 0..Cardinality(Requests) :
       SaveAsset(q, h, k, v)
  \/ \E a \in Alerts, ok \in BOOLEAN : Start(a, ok)
  \/ \E a \in Alerts, c \in Acts :
       Authorize(a, c) \/ Reject(a, c) \/ Cancel(a, c) \/ Accept(a, c) \/ Finish(a, c)
  \/ \E a \in Alerts : CancelRun(a)
  \/ ReadRuns
  \/ ReadQueue
  \/ \E h \in Hosts, able, durable \in BOOLEAN : Poll(h, able, durable)

Spec == Init /\ [][Next]_vars

----------------------------------------------------------------------------
\* At most one collection of an alert is out at an endpoint at any time,
\* through resends, several items queued for one poll, and approvals that
\* arrive while another item runs (dispatchable).
OneInFlight ==
  \A a \in Alerts : \A c, d \in Acts : InFlight(a, c) /\ InFlight(a, d) => c = d

\* Once a run is cancelled nothing of it is queued, nothing more is handed
\* out and nothing is allowed to start (cancel_run and guard).
CancelledRunIsQuiet ==
  [][\A a \in Alerts :
       run[a] # Null /\ run[a].cancelled =>
         \A c \in Acts :
           /\ item'[a][c].state \notin {"PENDING", "AUTHORIZED"}
           /\ item'[a][c].state \in {"DISPATCHED", "ACCEPTED"} =>
                item'[a][c].state = State(a, c)]_vars

\* Permission to start is never given on stale grounds: whatever changed
\* since the run was planned, dispatched or sent again, at the step that
\* permits it the run is in time, not cancelled, planned under the policy and
\* the classification in force, and the policy still says to collect.
PermissionIsFresh ==
  [][\A a \in Alerts, c \in Acts :
       item'[a][c] # Null /\ item'[a][c].state = "ACCEPTED" /\ State(a, c) # "ACCEPTED" =>
         /\ now < run[a].deadline /\ ~run[a].cancelled
         /\ policy[RuleOf[a]].version = run[a].version
         /\ policy[RuleOf[a]].terms.says[c] # "skip"
         /\ asset[HostOf[a]].class # "standard" => item[a][c].decision = "require_approval"]_vars

\* What was reserved up to and including run a.
Upto(a) == {x \in Reserved : run[x[1]].rank <= run[a].rank}

\* Every run fitted its own budget, whichever revision set it, and still does:
\* with all that was reserved before it, under whatever rules and limits, what
\* it reserved stays within the alert's, the endpoint's and the shared limits
\* of its revision, whatever is cancelled, finished or lapsed meanwhile.  So a
\* tightened revision binds at once: work admitted under a laxer one counts.
BudgetsHold ==
  \A x \in Reserved :
    LET a == x[1]
        b == run[a].terms
        host == {y \in Upto(a) : HostOf[y[1]] = HostOf[a]}
    IN /\ Cardinality({y \in Reserved : y[1] = a}) <= b.perAlert
       /\ Cardinality({y \in host : run[y[1]].created >= run[a].created - b.window})
            <= b.perWindow
       /\ Cardinality({y \in host : IsLive(y)}) <= b.perEndpoint
       /\ Cardinality({y \in Upto(a) : IsLive(y)}) <= b.global

\* The terms of the runs that reserved something after run a.
TermsSince(a) == {run[y[1]].terms : y \in Reserved \ Upto(a)}

\* What was admitted stays affordable under its own terms: the guard, which
\* leaves out the item's own reservation, never blocks live work for a budget
\* that still counts it.  Two things can: a later run under laxer terms, for
\* the limit that is laxer there, and, for the window, the run's own age: a
\* run older than the window is no longer counted and newer work may be.
AdmittedStaysAffordable ==
  \A x \in Reserved :
    LET a == x[1]
        b == run[a].terms
        u == Usage(a, {x}, b)
    IN IsLive(x) =>
         /\ u.alert < b.perAlert
         /\ (\A l \in TermsSince(a) : l.perEndpoint <= b.perEndpoint)
              => u.endpoint < b.perEndpoint
         /\ (\A l \in TermsSince(a) : l.global <= b.global) => u.global < b.global
         /\ /\ InWindow(a, b.window)
            /\ \A l \in TermsSince(a) : l.perWindow <= b.perWindow /\ l.window >= b.window
            => u.window < b.perWindow

\* Nothing is half planned: a run has all its items, and an item the run
\* decided to send has its command (on_alert_created's savepoint).
RunsAreWhole ==
  \A a \in Alerts :
    /\ run[a] = Null <=> \A c \in Acts : item[a][c] = Null
    /\ \A c \in Acts :
         item[a][c] # Null =>
           /\ run[a] # Null
           /\ item[a][c].decision = "auto_dispatch" => State(a, c) \notin {"PENDING", "REJECTED"}

\* What a run was planned and admitted for stays true of it: runs are whole,
\* within the budget of their own revision, and live work stays within it
\* until a later run is admitted under laxer terms (start, usage, guard).
PlansHold == TypeOK /\ RunsAreWhole /\ BudgetsHold /\ AdmittedStaysAffordable
=============================================================================
