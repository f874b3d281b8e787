------------------------------ MODULE Incidents ------------------------------
(***************************************************************************)
(* Alerts and incidents of the Manager (manager/detection/store.py, the    *)
(* sink in manager/detection/factory.py and routers/incidents.py).  The    *)
(* engine reports an incident again and again as it grows, one alert per   *)
(* revision; a replay, a restart of the engine or a second queue delivers  *)
(* revisions in any order, twice, and with other stages.  The analyst owns *)
(* the status.                                                             *)
(***************************************************************************)
EXTENDS Integers, FiniteSets, Sequences

CONSTANTS
  RuleAlerts,   \* ids of alerts that belong to no incident
  Incidents,    \* incident ids
  Revisions,    \* revision numbers the engine may give, 0 when unreadable
  Reports,      \* incident alerts: incident, rev, stages, first and last seen
  Statuses,     \* INCIDENT_STATUSES
  MaxTrail,     \* bound on the audit rows of an incident
  None          \* no value

ASSUME IncidentsAssumption ==
  /\ Revisions \subseteq Nat
  /\ Reports \subseteq [incident: Incidents, rev: Revisions,
                        stages: SUBSET RuleAlerts, first: Nat, last: Nat]
  /\ "open" \in Statuses
  /\ MaxTrail \in Nat
  /\ None \notin [rev: Revisions, latest: Incidents \X Revisions, status: Statuses,
                  first: Nat, last: Nat]

VARIABLES
  held,       \* alerts, by id
  incident,   \* incidents
  member,     \* incident_alerts
  trail,      \* incident_audit, in order, per incident
  folded      \* history: the reports delivered so far

incidentVars == <<held, incident, member, trail, folded>>

\* The id of an incident alert is made from its incident and revision.
IdOf(x) == <<x.incident, x.rev>>

AlertIds == RuleAlerts \cup (Incidents \X Revisions)

EngineRow == [event: {"opened", "revised"}, from: Nat, rev: Revisions]

AnalystRow == [event: {"status_changed"}, was: Statuses, status: Statuses]

IncidentRow ==
  [rev: Revisions, latest: Incidents \X Revisions, status: Statuses, first: Nat, last: Nat]

IncidentsTypeOK ==
  /\ held \subseteq AlertIds
  /\ incident \in [Incidents -> IncidentRow \cup {None}]
  /\ member \subseteq Incidents \X AlertIds
  /\ DOMAIN trail = Incidents
  /\ \A i \in Incidents : \A n \in 1..Len(trail[i]) :
       trail[i][n] \in EngineRow \/ trail[i][n] \in AnalystRow
  /\ folded \subseteq Reports

IncidentsInit ==
  /\ held = {}
  /\ incident = [i \in Incidents |-> None]
  /\ member = {}
  /\ trail = [i \in Incidents |-> <<>>]
  /\ folded = {}

----------------------------------------------------------------------------
\* insert_alert: an id that is on file already is kept.  upsert_incident does
\* nothing for an alert without an incident.
EmitRule(id) ==
  /\ held' = held \cup {id}
  /\ UNCHANGED <<incident, member, trail, folded>>

\* Mutant: the window is that of the newest revision alone.
MergedWindow(old, row) == [row EXCEPT !.status = old.status]

\* The row of a newer revision: the status is kept, and the window reaches
\* over the one there was.
Merged(old, row) ==
  [row EXCEPT !.status = old.status,
              !.first = IF old.first < @ THEN old.first ELSE @,
              !.last = IF old.last > @ THEN old.last ELSE @]

\* upsert_incident after the insert_alert of the report.  Links to the
\* revision and to the stages on file are INSERT OR IGNORE.
EmitReport(x) ==
  LET i == x.incident
      old == incident[i]
      row == [rev |-> x.rev, latest |-> IdOf(x), status |-> "open",
              first |-> x.first, last |-> x.last]
  IN /\ Len(trail[i]) < MaxTrail
     /\ held' = held \cup {IdOf(x)}
     /\ folded' = folded \cup {x}
     /\ member' = member \cup {<<i, id>> : id \in {IdOf(x)} \cup (x.stages \cap held)}
     /\ \/ /\ old = None
           /\ incident' = [incident EXCEPT ![i] = row]
           /\ trail' = [trail EXCEPT ![i] =
                Append(@, [event |-> "opened", from |-> 0, rev |-> x.rev])]
        \/ /\ old # None /\ x.rev > old.rev
           /\ incident' = [incident EXCEPT ![i] = Merged(old, row)]
           /\ trail' = [trail EXCEPT ![i] =
                Append(@, [event |-> "revised", from |-> old.rev, rev |-> x.rev])]
        \/ /\ old # None /\ x.rev <= old.rev
           /\ UNCHANGED <<incident, trail>>

\* update_status by an analyst with incident:write; any status may follow any.
SetStatus(i, status) ==
  /\ incident[i] # None
  /\ Len(trail[i]) < MaxTrail
  /\ incident' = [incident EXCEPT ![i].status = status]
  /\ trail' = [trail EXCEPT ![i] =
       Append(@, [event |-> "status_changed", was |-> incident[i].status, status |-> status])]
  /\ UNCHANGED <<held, member, folded>>

IncidentsNext ==
  \/ \E id \in RuleAlerts : EmitRule(id)
  \/ \E x \in Reports : EmitReport(x)
  \/ \E i \in Incidents, s \in Statuses : SetStatus(i, s)

IncidentsSpec == IncidentsInit /\ [][IncidentsNext]_incidentVars

----------------------------------------------------------------------------
\* The stored summary is the newest revision ever delivered, whatever the
\* order ("revision only moves forward", upsert_incident).
SummaryIsNewest ==
  \A i \in Incidents :
    LET mine == {x \in folded : x.incident = i} IN
      /\ incident[i] = None <=> mine = {}
      /\ incident[i] # None =>
           /\ incident[i].latest = <<i, incident[i].rev>>
           /\ \E x \in mine : x.rev = incident[i].rev
           /\ \A x \in mine : x.rev <= incident[i].rev

\* The window of an incident reaches over every revision it was opened or
\* revised with, for each of which the trail has a row and the engine sent a
\* report, and it begins and ends where a report does (the merge of first_seen
\* and last_seen in upsert_incident).
WindowIsMerged ==
  \A i \in Incidents :
    LET mine == {x \in folded : x.incident = i} IN
      /\ \A n \in DOMAIN trail[i] : trail[i][n].event # "status_changed" =>
           \E x \in mine : /\ x.rev = trail[i][n].rev
                           /\ incident[i].first <= x.first /\ x.last <= incident[i].last
      /\ incident[i] # None =>
           \E x, y \in mine : x.first = incident[i].first /\ y.last = incident[i].last

\* The audit trail explains the row: it begins with the only opening, each
\* revision starts from the one recorded before it and goes forward, each
\* change of status starts from the status before it, and the row is what
\* the trail ends in.  So replays add no rows, and the engine never writes
\* the analyst's status.
TrailExplainsRow ==
  \A i \in Incidents :
    LET t == trail[i]
        engine == {n \in DOMAIN t : t[n].event # "status_changed"}
        human == DOMAIN t \ engine
        last(S, n) == {m \in S : m < n /\ \A k \in S : k < n => k <= m}
        final(S) == {m \in S : \A k \in S : k <= m}
    IN /\ \A n \in DOMAIN t : t[n].event = "opened" <=> n = 1
       /\ \A n \in engine : \A m \in last(engine, n) : t[n].from = t[m].rev /\ t[m].rev < t[n].rev
       /\ \A n \in human : IF last(human, n) = {} THEN t[n].was = "open"
                           ELSE \A m \in last(human, n) : t[n].was = t[m].status
       /\ incident[i] # None =>
            /\ \A n \in final(engine) : t[n].rev = incident[i].rev
            /\ IF human = {} THEN incident[i].status = "open"
               ELSE \A n \in final(human) : t[n].status = incident[i].status

\* Every link names an alert that is on file and that some delivered report
\* accounts for, as its revision or as one of its stages.
LinksAreJustified ==
  \A l \in member :
    /\ l[2] \in held
    /\ \E x \in folded : x.incident = l[1] /\ (l[2] = IdOf(x) \/ l[2] \in x.stages)

\* An incident adds up: its summary, its window, its audit trail and its links
\* tell the same story of the reports and the decisions that reached it.
IncidentsAddUp ==
  /\ IncidentsTypeOK
  /\ SummaryIsNewest
  /\ WindowIsMerged
  /\ TrailExplainsRow
  /\ LinksAreJustified
=============================================================================
