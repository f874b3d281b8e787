------------------------ MODULE ResponseActionsProofs ------------------------
(***************************************************************************)
(* Theorems about ResponseActions, for any number of responses, alerts,    *)
(* analysts, requests and campaigns, any recommendations and any windows.  *)
(*                                                                         *)
(* The inductive invariant adds three facts to the invariants of the runs: *)
(* a staged response has its row; a response that is not staged was never  *)
(* linked to a campaign; and what waits for an analyst on the engine's     *)
(* word does not come from a behavioral detector.  The last one is why     *)
(* approval does not have to look at the source of the alert again.        *)
(***************************************************************************)
EXTENDS ResponseActions, TLAPS

\* A staged response has its row.
RowsExist == \A r \in Responses : phase[r] # "ABSENT" => row[r] \in Rows

\* What is not staged was never linked to a campaign.
AbsentIsUnlinked == \A r \in Responses : phase[r] = "ABSENT" => decisions[r]["linked"] = 0

\* What waits on the engine's word comes from no behavioral detector.
PendingIsProposable ==
    \A r \in Responses :
        phase[r] = "PENDING" /\ row[r].key \notin AutoSafe /\ row[r].by = System
          => row[r].alert \notin RecordOnly

IInv ==
    /\ TypeOK
    /\ RowsExist
    /\ AbsentIsUnlinked
    /\ PendingIsProposable
    /\ OneDecision
    /\ Approved
    /\ NeverStacked

-----------------------------------------------------------------------------
(* The helpers of the specification *)

\* Note adds one event to the audit of some rows and changes nothing else.
LEMMA NoteLemma ==
    ASSUME NEW log \in [Responses -> [DecisionEvents -> Nat]],
           NEW R, NEW e \in DecisionEvents
    PROVE  /\ Note(log, R, e) \in [Responses -> [DecisionEvents -> Nat]]
           /\ \A r \in Responses, x \in DecisionEvents :
                 Note(log, R, e)[r][x] = IF r \in R /\ x = e THEN log[r][x] + 1 ELSE log[r][x]
  <1>1. \A r \in Responses : log[r] \in [DecisionEvents -> Nat]
    OBVIOUS
  <1>2. \A r \in Responses : [log[r] EXCEPT ![e] = @ + 1] \in [DecisionEvents -> Nat]
    BY <1>1
  <1>3. QED
    BY <1>1, <1>2 DEF Note

\* The two sweeps expire what is out of time and touch nothing else.
LEMMA SweepLemma ==
    ASSUME TypeOK, RowsExist
    PROVE  /\ SweptPhase \in [Responses -> Phases]
           /\ \A r \in Responses :
                 SweptPhase[r] = IF r \in Undecided THEN "EXPIRED" ELSE phase[r]
           /\ \A r \in Undecided : r \in Responses /\ phase[r] = "PENDING"
           /\ SweptDecisions \in [Responses -> [DecisionEvents -> Nat]]
           /\ \A r \in Responses, x \in DecisionEvents :
                 SweptDecisions[r][x] = IF r \in Undecided /\ x = "expired"
                                        THEN decisions[r][x] + 1 ELSE decisions[r][x]
           /\ SweptCommand \in [Responses -> {"ABSENT"} \cup OpenCommands \cup ClosedCommands]
           /\ \A r \in Responses :
                 SweptCommand[r] = command[r]
                   \/ (SweptCommand[r] = "EXPIRED" /\ command[r] \in OpenCommands)
  <1>1. /\ SweptPhase \in [Responses -> Phases]
        /\ \A r \in Responses : SweptPhase[r] = IF r \in Undecided THEN "EXPIRED" ELSE phase[r]
        /\ \A r \in Undecided : r \in Responses /\ phase[r] = "PENDING"
    BY DEF TypeOK, SweptPhase, Undecided, Phases
  <1>2. "expired" \in DecisionEvents
    BY DEF DecisionEvents
  <1>3. /\ SweptDecisions \in [Responses -> [DecisionEvents -> Nat]]
        /\ \A r \in Responses, x \in DecisionEvents :
              SweptDecisions[r][x] = IF r \in Undecided /\ x = "expired"
                                     THEN decisions[r][x] + 1 ELSE decisions[r][x]
    BY <1>2, NoteLemma DEF TypeOK, SweptDecisions
  <1>4. /\ SweptCommand \in [Responses -> {"ABSENT"} \cup OpenCommands \cup ClosedCommands]
        /\ \A r \in Responses :
              SweptCommand[r] = command[r]
                \/ (SweptCommand[r] = "EXPIRED" /\ command[r] \in OpenCommands)
    BY DEF TypeOK, SweptCommand, Lapsed, OpenCommands, ClosedCommands
  <1>5. QED
    BY <1>1, <1>3, <1>4

\* A row that the sweep lets wait is live.
LEMMA AwaitsIsLive ==
    ASSUME TypeOK, RowsExist, NEW r \in Responses, Awaits(r)
    PROVE  phase[r] = "PENDING" /\ Live(r) /\ r \notin Undecided /\ row[r] \in Rows
  <1>1. phase[r] = "PENDING" /\ r \notin Undecided
    BY SweepLemma DEF Awaits
  <1>2. row[r] \in Rows
    BY <1>1 DEF RowsExist
  <1>3. now \in Nat /\ ActionTTL \in Nat /\ row[r].created \in Nat
    BY <1>2, ConstantsAssumption DEF TypeOK, Rows
  <1>4. QED
    BY <1>1, <1>2, <1>3 DEF Live, Undecided

\* No stacking survives a step after which no row is live that was not, and
\* in which staged rows keep their content.
LEMMA StackingLemma ==
    ASSUME NeverStacked,
           \A r \in Responses : Live(r)' => Live(r),
           \A r \in Responses : phase'[r] # "ABSENT" /\ Live(r)' =>
                                  phase[r] # "ABSENT" /\ row'[r] = row[r]
    PROVE  NeverStacked'
  BY DEF NeverStacked

-----------------------------------------------------------------------------
LEMMA InitIInv == Init => IInv
  <1> SUFFICES ASSUME Init PROVE IInv
    OBVIOUS
  <1>1. TypeOK
    BY DEF Init, TypeOK, Phases
  <1>2. RowsExist /\ AbsentIsUnlinked /\ PendingIsProposable /\ Approved /\ NeverStacked
    BY DEF Init, RowsExist, AbsentIsUnlinked, PendingIsProposable, Approved, NeverStacked,
           DecisionEvents
  <1>3. OneDecision
    BY DEF Init, OneDecision, DecisionEvents
  <1>4. QED
    BY <1>1, <1>2, <1>3 DEF IInv

-----------------------------------------------------------------------------
(* Decisions *)

LEMMA AuthorizeIInv ==
    ASSUME IInv, NEW r \in Responses, NEW actor \in Analysts, Authorize(r, actor)
    PROVE  IInv'
  <1> USE DEF IInv
  <1>1. phase[r] = "PENDING" /\ Live(r) /\ r \notin Undecided /\ row[r] \in Rows
    BY AwaitsIsLive DEF Authorize
  <1>2. UNCHANGED <<now, seen, row, bound, campaigns>>
    BY DEF Authorize
  <1>3. \A s \in Responses : phase'[s] = IF s = r THEN "AUTHORIZED" ELSE SweptPhase[s]
    BY SweepLemma DEF Authorize
  <1>4. \A s \in Responses : command'[s] = IF s = r THEN "AUTHORIZED" ELSE command[s]
    BY DEF Authorize, TypeOK
  <1>5. /\ decisions' \in [Responses -> [DecisionEvents -> Nat]]
        /\ \A s \in Responses, x \in DecisionEvents :
              decisions'[s][x] = IF s = r /\ x = "authorized" THEN SweptDecisions[s][x] + 1
                                 ELSE SweptDecisions[s][x]
    BY SweepLemma, NoteLemma, SMTT(30) DEF Authorize, DecisionEvents
  <1>6. TypeOK'
    <2>1. phase' \in [Responses -> Phases]
      BY SweepLemma DEF Authorize, Phases
    <2>2. command' \in [Responses -> {"ABSENT"} \cup OpenCommands \cup ClosedCommands]
      BY DEF Authorize, TypeOK, OpenCommands
    <2>3. lapses' \in [Responses -> Nat] /\ approver' \in [Responses -> Analysts \cup {System, Null}]
      BY ConstantsAssumption DEF Authorize, TypeOK
    <2>4. QED
      BY <1>2, <1>5, <2>1, <2>2, <2>3 DEF TypeOK
  <1>7. \A s \in Responses : phase'[s] = "ABSENT" <=> phase[s] = "ABSENT"
    BY <1>1, <1>3, SweepLemma
  <1>8. RowsExist' /\ AbsentIsUnlinked'
    BY <1>2, <1>5, <1>7, SweepLemma, SMTT(30) DEF RowsExist, AbsentIsUnlinked, DecisionEvents
  <1>9. PendingIsProposable'
    BY <1>2, <1>3, SweepLemma DEF PendingIsProposable
  <1>10. OneDecision'
    <2> SUFFICES ASSUME NEW s \in Responses PROVE OneDecision!(s)'
      BY DEF OneDecision
    <2>1. OneDecision!(s)
      BY DEF OneDecision
    <2>2. QED
      BY <1>1, <1>3, <1>4, <1>5, <2>1, SweepLemma DEF DecisionEvents, TypeOK
  <1>11. Approved'
    <2> SUFFICES ASSUME NEW s \in Responses, phase'[s] = "AUTHORIZED", row[s].key \notin AutoSafe
                 PROVE  /\ approver'[s] \in Analysts
                        /\ SeparateApprover => approver'[s] # row[s].by
                        /\ row[s].by = System => row[s].alert \notin RecordOnly
      BY <1>2 DEF Approved
    <2>1. CASE s = r
      BY <1>1, <2>1 DEF Authorize, TypeOK, PendingIsProposable
    <2>2. CASE s # r
      <3>1. phase[s] = "AUTHORIZED"
        BY <1>3, <2>2, SweepLemma
      <3>2. approver'[s] = approver[s]
        BY <2>2 DEF Authorize, TypeOK
      <3>3. QED
        BY <3>1, <3>2 DEF Approved
    <2>3. QED
      BY <2>1, <2>2
  <1>12. NeverStacked'
    <2>1. \A s \in Responses : Live(s)' => Live(s)
      BY <1>1, <1>2, <1>3, <1>4, SweepLemma DEF Live
    <2>2. QED
      BY <1>2, <1>7, <2>1, StackingLemma
  <1>13. QED
    BY <1>6, <1>8, <1>9, <1>10, <1>11, <1>12

\* Both ways of rejecting a row that waits.
LEMMA RejectIInv ==
    ASSUME IInv, NEW r \in Responses, Reject(r)
    PROVE  IInv'
  <1> USE DEF IInv
  <1>1. phase[r] = "PENDING" /\ Live(r) /\ r \notin Undecided /\ row[r] \in Rows
    BY AwaitsIsLive DEF Reject
  <1>2. UNCHANGED <<now, seen, row, approver, command, lapses, bound, campaigns>>
    BY DEF Reject
  <1>3. \A s \in Responses : phase'[s] = IF s = r THEN "REJECTED" ELSE SweptPhase[s]
    BY SweepLemma DEF Reject
  <1>4. /\ decisions' \in [Responses -> [DecisionEvents -> Nat]]
        /\ \A s \in Responses, x \in DecisionEvents :
              decisions'[s][x] = IF s = r /\ x = "rejected" THEN SweptDecisions[s][x] + 1
                                 ELSE SweptDecisions[s][x]
    BY SweepLemma, NoteLemma DEF Reject, DecisionEvents
  <1>5. phase' \in [Responses -> Phases]
    BY SweepLemma DEF Reject, Phases
  <1>6. TypeOK'
    BY <1>2, <1>4, <1>5 DEF TypeOK
  <1>7. \A s \in Responses : phase'[s] = "ABSENT" <=> phase[s] = "ABSENT"
    BY <1>1, <1>3, SweepLemma
  <1>8. RowsExist' /\ AbsentIsUnlinked'
    <2>1. \A s \in Responses : decisions'[s]["linked"] = decisions[s]["linked"]
      BY <1>4, SweepLemma DEF DecisionEvents
    <2>2. QED
      BY <1>2, <1>7, <2>1 DEF RowsExist, AbsentIsUnlinked
  <1>9. PendingIsProposable' /\ Approved'
    BY <1>2, <1>3, SweepLemma DEF PendingIsProposable, Approved
  <1>10. OneDecision'
    <2> SUFFICES ASSUME NEW s \in Responses PROVE OneDecision!(s)'
      BY DEF OneDecision
    <2>1. OneDecision!(s)
      BY DEF OneDecision
    <2>2. /\ decisions'[s]["staged"] = decisions[s]["staged"]
          /\ decisions'[s]["authorized"] = decisions[s]["authorized"]
          /\ decisions'[s]["cancelled"] = decisions[s]["cancelled"]
          /\ decisions'[s]["linked"] = decisions[s]["linked"]
          /\ decisions'[s]["expired"] = decisions[s]["expired"] + (IF s \in Undecided THEN 1 ELSE 0)
          /\ decisions'[s]["rejected"] = decisions[s]["rejected"] + (IF s = r THEN 1 ELSE 0)
      BY <1>4, SweepLemma DEF DecisionEvents, TypeOK
    <2>3. phase'[s] = IF s = r THEN "REJECTED" ELSE IF s \in Undecided THEN "EXPIRED" ELSE phase[s]
      BY <1>3, SweepLemma
    <2>4. s \in Undecided => phase[s] = "PENDING"
      BY SweepLemma
    <2>5. decisions[s]["rejected"] \in Nat
      BY DEF TypeOK, DecisionEvents
    <2>6. QED
      BY <1>1, <1>2, <2>1, <2>2, <2>3, <2>4, <2>5
  <1>11. NeverStacked'
    <2>1. \A s \in Responses : Live(s)' => Live(s)
      BY <1>1, <1>2, <1>3, SweepLemma DEF Live
    <2>2. QED
      BY <1>2, <1>7, <2>1, StackingLemma
  <1>12. QED
    BY <1>6, <1>8, <1>9, <1>10, <1>11

LEMMA CancelIInv ==
    ASSUME IInv, NEW r \in Responses, Cancel(r)
    PROVE  IInv'
  <1> USE DEF IInv
  <1>1. phase[r] = "AUTHORIZED" /\ command[r] = "AUTHORIZED"
    BY SweepLemma DEF Cancel, OpenCommands
  <1>2. UNCHANGED <<now, seen, phase, row, approver, lapses, bound, campaigns>>
    BY DEF Cancel
  <1>3. \A s \in Responses : command'[s] = IF s = r THEN "CANCELLED" ELSE SweptCommand[s]
    BY SweepLemma DEF Cancel
  <1>4. /\ decisions' \in [Responses -> [DecisionEvents -> Nat]]
        /\ \A s \in Responses, x \in DecisionEvents :
              decisions'[s][x] = IF s = r /\ x = "cancelled" THEN decisions[s][x] + 1
                                 ELSE decisions[s][x]
    BY NoteLemma DEF Cancel, DecisionEvents, TypeOK
  <1>5. command' \in [Responses -> {"ABSENT"} \cup OpenCommands \cup ClosedCommands]
    BY SweepLemma DEF Cancel, ClosedCommands
  <1>6. TypeOK'
    BY <1>2, <1>4, <1>5 DEF TypeOK
  <1>7. RowsExist' /\ AbsentIsUnlinked' /\ PendingIsProposable' /\ Approved'
    BY <1>2, <1>4
    DEF RowsExist, AbsentIsUnlinked, PendingIsProposable, Approved, DecisionEvents
  <1>8. OneDecision'
    <2> SUFFICES ASSUME NEW s \in Responses PROVE OneDecision!(s)'
      BY DEF OneDecision
    <2>1. OneDecision!(s)
      BY DEF OneDecision
    <2>2. SweptCommand[s] = command[s]
            \/ (SweptCommand[s] = "EXPIRED" /\ command[s] \in {"AUTHORIZED", "DISPATCHED", "ACCEPTED"})
      BY SweepLemma DEF OpenCommands
    <2>3. QED
      BY <1>1, <1>2, <1>3, <1>4, <2>1, <2>2 DEF DecisionEvents, TypeOK
  <1>9. NeverStacked'
    <2>1. \A s \in Responses : Live(s)' => Live(s)
      BY <1>2, <1>3, SweepLemma DEF Live, OpenCommands
    <2>2. QED
      BY <1>2, <2>1, StackingLemma
  <1>10. QED
    BY <1>6, <1>7, <1>8, <1>9

-----------------------------------------------------------------------------
(* Reads, endpoints and time *)

LEMMA ListSweepIInv ==
    ASSUME IInv, ListSweep
    PROVE  IInv'
  <1> USE DEF IInv
  <1>1. /\ UNCHANGED <<now, seen, row, approver, lapses, bound, campaigns>>
        /\ phase' = SweptPhase /\ command' = SweptCommand /\ decisions' = SweptDecisions
    BY DEF ListSweep
  <1>2. TypeOK'
    BY <1>1, SweepLemma DEF TypeOK
  <1>3. \A s \in Responses : phase'[s] = "ABSENT" <=> phase[s] = "ABSENT"
    BY <1>1, SweepLemma
  <1>4. RowsExist' /\ AbsentIsUnlinked'
    BY <1>1, <1>3, SweepLemma DEF RowsExist, AbsentIsUnlinked, DecisionEvents
  <1>5. PendingIsProposable' /\ Approved'
    BY <1>1, SweepLemma DEF PendingIsProposable, Approved
  <1>6. OneDecision'
    <2> SUFFICES ASSUME NEW s \in Responses PROVE OneDecision!(s)'
      BY DEF OneDecision
    <2>1. OneDecision!(s)
      BY DEF OneDecision
    <2>2. SweptCommand[s] = command[s]
            \/ (SweptCommand[s] = "EXPIRED" /\ command[s] \in {"AUTHORIZED", "DISPATCHED", "ACCEPTED"})
      BY SweepLemma DEF OpenCommands
    <2>3. QED
      BY <1>1, <2>1, <2>2, SweepLemma DEF DecisionEvents, TypeOK
  <1>7. NeverStacked'
    <2>1. \A s \in Responses : Live(s)' => Live(s)
      BY <1>1, SweepLemma DEF Live, OpenCommands
    <2>2. QED
      BY <1>1, <1>3, <2>1, StackingLemma
  <1>8. QED
    BY <1>2, <1>4, <1>5, <1>6, <1>7

LEMMA EndpointStepIInv ==
    ASSUME IInv, NEW r \in Responses, EndpointStep(r)
    PROVE  IInv'
  <1> USE DEF IInv
  <1>1. UNCHANGED <<now, seen, phase, row, approver, lapses, decisions, bound, campaigns>>
    BY DEF EndpointStep
  <1>2. PICK c \in {"DISPATCHED", "ACCEPTED", "RESULT"} : command' = [SweptCommand EXCEPT ![r] = c]
    BY DEF EndpointStep
  <1>3. SweptCommand[r] \in OpenCommands
    BY DEF EndpointStep, OpenCommands
  <1>4. command[r] \in OpenCommands
    BY <1>3, SweepLemma
  <1>5. \A s \in Responses : command'[s] = IF s = r THEN c ELSE SweptCommand[s]
    BY <1>2, SweepLemma
  <1>6. command' \in [Responses -> {"ABSENT"} \cup OpenCommands \cup ClosedCommands]
    BY <1>2, SweepLemma DEF OpenCommands, ClosedCommands
  <1>7. TypeOK'
    BY <1>1, <1>6 DEF TypeOK
  <1>8. RowsExist' /\ AbsentIsUnlinked' /\ PendingIsProposable' /\ Approved'
    BY <1>1 DEF RowsExist, AbsentIsUnlinked, PendingIsProposable, Approved
  <1>9. OneDecision'
    <2> SUFFICES ASSUME NEW s \in Responses PROVE OneDecision!(s)'
      BY DEF OneDecision
    <2>1. OneDecision!(s)
      BY DEF OneDecision
    <2>2. SweptCommand[s] = command[s]
            \/ (SweptCommand[s] = "EXPIRED" /\ command[s] \in {"AUTHORIZED", "DISPATCHED", "ACCEPTED"})
      BY SweepLemma DEF OpenCommands
    <2>3. (command'[s] = "ABSENT" <=> command[s] = "ABSENT")
            /\ (command'[s] = "CANCELLED" <=> command[s] = "CANCELLED")
      BY <1>4, <1>5, <2>2 DEF OpenCommands
    <2>4. QED
      BY <1>1, <2>1, <2>3
  <1>10. NeverStacked'
    <2>1. \A s \in Responses : Live(s)' => Live(s)
      BY <1>1, <1>4, <1>5, SweepLemma DEF Live, OpenCommands
    <2>2. QED
      BY <1>1, <2>1, StackingLemma
  <1>11. QED
    BY <1>7, <1>8, <1>9, <1>10

\* A step that changes no response; the clock may move.
LEMMA IdleIInv ==
    ASSUME IInv, now' \in Nat, now <= now', seen' \subseteq Alerts,
           UNCHANGED <<phase, row, approver, command, lapses, decisions>>,
           bound' \subseteq Bindings,
           campaigns' \subseteq [actor : Analysts, campaign : Campaigns, items : CampaignItems,
                                 created : SUBSET Responses]
    PROVE  IInv'
  <1> USE DEF IInv
  <1>1. TypeOK' /\ RowsExist' /\ AbsentIsUnlinked' /\ PendingIsProposable' /\ Approved'
    BY DEF TypeOK, RowsExist, AbsentIsUnlinked, PendingIsProposable, Approved
  <1>2. OneDecision'
    BY DEF OneDecision
  <1>3. \A s \in Responses : Live(s)' => Live(s)
    BY ConstantsAssumption DEF Live, TypeOK, RowsExist, Rows
  <1>4. NeverStacked'
    BY <1>3, StackingLemma
  <1>5. QED
    BY <1>1, <1>2, <1>4

-----------------------------------------------------------------------------
(* Staging *)

\* What the invariant says of the audit and the command of an absent row.
LEMMA AbsentIsBlank ==
    ASSUME IInv, NEW r \in Responses, phase[r] = "ABSENT"
    PROVE  /\ \A e \in DecisionEvents : decisions[r][e] = 0
           /\ command[r] = "ABSENT"
           /\ r \notin Undecided
  <1> USE DEF IInv
  <1>1. OneDecision!(r) /\ decisions[r]["linked"] = 0
    BY DEF OneDecision, AbsentIsUnlinked
  <1>2. decisions[r]["rejected"] \in Nat
    BY DEF TypeOK, DecisionEvents
  <1>3. QED
    BY <1>1, <1>2 DEF DecisionEvents, Undecided

\* The engine writes one row, rejected, waiting or authorized at once.
EngineRow(r, new, p) ==
    /\ row' = [row EXCEPT ![r] = new]
    /\ phase' = [phase EXCEPT ![r] = p]
    /\ seen' \subseteq Alerts
    /\ UNCHANGED <<now, bound, campaigns>>
    /\ command' = [command EXCEPT ![r] = IF p = "AUTHORIZED" THEN "AUTHORIZED" ELSE "ABSENT"]
    /\ lapses' \in [Responses -> Nat]
    /\ approver' \in [Responses -> Analysts \cup {System, Null}]
    /\ \A s \in Responses : s # r => approver'[s] = approver[s]
    /\ decisions' \in [Responses -> [DecisionEvents -> Nat]]
    /\ \A s \in Responses, e \in DecisionEvents : s # r => decisions'[s][e] = decisions[s][e]
    /\ decisions'[r]["staged"] = 1
    /\ decisions'[r]["authorized"] = IF p = "AUTHORIZED" THEN 1 ELSE 0
    /\ decisions'[r]["rejected"] <= 1
    /\ decisions'[r]["rejected"] = 1 => p = "REJECTED"
    /\ decisions'[r]["expired"] = 0
    /\ decisions'[r]["cancelled"] = 0
    /\ decisions'[r]["linked"] = 0
    /\ p = "PENDING" => new.alert \notin RecordOnly
    /\ p = "AUTHORIZED" => new.key \in AutoSafe
    /\ p # "REJECTED" => ~OpenDuplicate(new.key)

LEMMA EngineRowIInv ==
    ASSUME IInv, NEW r \in Responses, phase[r] = "ABSENT",
           NEW new \in Rows, NEW p \in {"PENDING", "REJECTED", "AUTHORIZED"},
           EngineRow(r, new, p)
    PROVE  IInv'
  <1> USE DEF IInv, EngineRow
  <1>1. \A s \in Responses : /\ row'[s] = IF s = r THEN new ELSE row[s]
                             /\ phase'[s] = IF s = r THEN p ELSE phase[s]
    BY DEF TypeOK
  <1>2. \A s \in Responses :
           command'[s] = IF s = r THEN (IF p = "AUTHORIZED" THEN "AUTHORIZED" ELSE "ABSENT")
                         ELSE command[s]
    BY DEF TypeOK
  <1>3. TypeOK'
    <2>1. row' \in [Responses -> Rows \cup {Null}]
      BY DEF TypeOK
    <2>2. phase' \in [Responses -> Phases]
      BY DEF TypeOK, Phases
    <2>3. command' \in [Responses -> {"ABSENT"} \cup OpenCommands \cup ClosedCommands]
      BY DEF TypeOK, OpenCommands
    <2>4. QED
      BY <2>1, <2>2, <2>3 DEF TypeOK
  <1>4. RowsExist' /\ PendingIsProposable'
    BY <1>1 DEF RowsExist, PendingIsProposable
  <1>5. AbsentIsUnlinked'
    BY <1>1 DEF AbsentIsUnlinked, DecisionEvents
  <1>6. OneDecision'
    <2> SUFFICES ASSUME NEW s \in Responses PROVE OneDecision!(s)'
      BY DEF OneDecision
    <2>1. CASE s = r
      <3>1. phase'[s] = p /\ command'[s] = IF p = "AUTHORIZED" THEN "AUTHORIZED" ELSE "ABSENT"
        BY <1>1, <1>2, <2>1
      <3>2. QED
        BY <2>1, <3>1
    <2>2. CASE s # r
      <3>1. OneDecision!(s)
        BY DEF OneDecision
      <3>2. \A e \in DecisionEvents : decisions'[s][e] = decisions[s][e]
        BY <2>2
      <3>3. phase'[s] = phase[s] /\ command'[s] = command[s]
        BY <1>1, <1>2, <2>2
      <3>4. QED
        BY <3>1, <3>2, <3>3 DEF DecisionEvents
    <2>3. QED
      BY <2>1, <2>2
  <1>7. Approved'
    BY <1>1 DEF Approved
  <1>8. NeverStacked'
    <2> SUFFICES ASSUME NEW s \in Responses, NEW t \in Responses, s # t,
                        phase'[s] # "ABSENT", phase'[t] # "ABSENT", row'[s].key = row'[t].key,
                        Live(s)', Live(t)'
                 PROVE  FALSE
      BY DEF NeverStacked
    <2>1. \A x \in Responses : x # r /\ Live(x)' => Live(x)
      BY <1>1, <1>2 DEF Live
    <2>2. Live(r)' => p # "REJECTED"
      BY <1>1 DEF Live
    <2>3. \A x \in Responses : x # r /\ Live(x)' /\ row'[x].key = new.key => OpenDuplicate(new.key)
      BY <1>1, <2>1 DEF Live, OpenDuplicate
    <2>4. CASE s # r /\ t # r
      BY <1>1, <2>1, <2>4 DEF NeverStacked
    <2>5. CASE s = r \/ t = r
      BY <1>1, <2>2, <2>3, <2>5
    <2>6. QED
      BY <2>4, <2>5
  <1>9. QED
    BY <1>3, <1>4, <1>5, <1>6, <1>7, <1>8

LEMMA AlertCreatedIInv ==
    ASSUME IInv, NEW a \in Alerts, NEW r \in Responses, NEW granted \in BOOLEAN,
           AlertCreated(a, r, granted)
    PROVE  IInv'
  <1> DEFINE key == Recommends[a]
  <1> DEFINE new == NewRow(a, key, System)
  <1>1. seen' \subseteq Alerts /\ UNCHANGED <<now, bound, campaigns>> /\ now \in Nat
    BY DEF AlertCreated, IInv, TypeOK
  <1>2. CASE UNCHANGED <<phase, row, approver, command, lapses, decisions>>
    BY <1>1, <1>2, IdleIInv DEF IInv, TypeOK
  <1>3. CASE key # Null /\ phase[r] = "ABSENT" /\ Decide(a, r, granted)
    <2>1. phase[r] = "ABSENT" /\ key \in Keys \cup {Bad}
      BY <1>3, ConstantsAssumption
    <2>2. new \in Rows /\ new.key = key /\ new.alert = a
      BY <1>1, <2>1 DEF NewRow, Rows
    <2>3. /\ decisions \in [Responses -> [DecisionEvents -> Nat]]
          /\ lapses \in [Responses -> Nat]
          /\ approver \in [Responses -> Analysts \cup {System, Null}]
          /\ command \in [Responses -> {"ABSENT"} \cup OpenCommands \cup ClosedCommands]
      BY DEF IInv, TypeOK
    <2>4. (\A e \in DecisionEvents : decisions[r][e] = 0) /\ command[r] = "ABSENT"
      BY <2>1, AbsentIsBlank
    <2>5. command = [command EXCEPT ![r] = "ABSENT"]
      BY <2>3, <2>4
    <2> DEFINE log == Note(decisions, {r}, "staged")
    <2>6. /\ log \in [Responses -> [DecisionEvents -> Nat]]
          /\ \A s \in Responses, x \in DecisionEvents : s # r => log[s][x] = decisions[s][x]
          /\ \A x \in DecisionEvents : log[r][x] = IF x = "staged" THEN 1 ELSE 0
      <3>1. "staged" \in DecisionEvents
        BY DEF DecisionEvents
      <3>2. /\ log \in [Responses -> [DecisionEvents -> Nat]]
            /\ \A s \in Responses, x \in DecisionEvents :
                  log[s][x] = IF s \in {r} /\ x = "staged" THEN decisions[s][x] + 1
                              ELSE decisions[s][x]
        BY <2>3, <3>1, NoteLemma
      <3> HIDE DEF log
      <3>3. QED
        BY <2>4, <3>2
    <2>7. CASE RecordRejected(a, r, key)
      <3>1. /\ decisions' = log
            /\ row' = [row EXCEPT ![r] = new]
            /\ phase' = [phase EXCEPT ![r] = "REJECTED"]
            /\ UNCHANGED <<approver, command, lapses>>
        BY <2>7 DEF RecordRejected
      <3> HIDE DEF log, new, key
      <3>2. EngineRow(r, new, "REJECTED")
        BY <1>1, <2>3, <2>5, <2>6, <3>1 DEF EngineRow, DecisionEvents
      <3>3. QED
        BY <2>1, <2>2, <3>2, EngineRowIInv
    <2>8. CASE ~OpenDuplicate(key) /\ a \notin RecordOnly /\ StageForApproval(a, r, key)
      <3>1. /\ decisions' = log
            /\ row' = [row EXCEPT ![r] = new]
            /\ phase' = [phase EXCEPT ![r] = "PENDING"]
            /\ UNCHANGED <<approver, command, lapses>>
        BY <2>8 DEF StageForApproval
      <3> HIDE DEF log, new, key
      <3>2. EngineRow(r, new, "PENDING")
        BY <1>1, <2>2, <2>3, <2>5, <2>6, <2>8, <3>1 DEF EngineRow, DecisionEvents
      <3>3. QED
        BY <2>1, <2>2, <3>2, EngineRowIInv
    <2>9. CASE ~OpenDuplicate(key) /\ key \in AutoSafe /\ StageAndAuthorize(a, r, key, granted)
      <3>1. CASE granted
        <4>0. decisions' = Note(log, {r}, "authorized")
          BY <2>9, <3>1 DEF StageAndAuthorize
        <4>1. /\ row' = [row EXCEPT ![r] = new]
              /\ phase' = [phase EXCEPT ![r] = "AUTHORIZED"]
              /\ command' = [command EXCEPT ![r] = "AUTHORIZED"]
              /\ lapses' = [lapses EXCEPT ![r] = now + CommandTTL]
              /\ approver' = [approver EXCEPT ![r] = System]
          BY <2>9, <3>1 DEF StageAndAuthorize
        <4>2. /\ lapses' \in [Responses -> Nat]
              /\ approver' \in [Responses -> Analysts \cup {System, Null}]
              /\ \A s \in Responses : s # r => approver'[s] = approver[s]
          BY <1>1, <2>3, <4>1, ConstantsAssumption
        <4> HIDE DEF log, new, key
        <4>3. "authorized" \in DecisionEvents
          BY DEF DecisionEvents
        <4>4. /\ decisions' \in [Responses -> [DecisionEvents -> Nat]]
              /\ \A s \in Responses, x \in DecisionEvents :
                    decisions'[s][x] = IF s \in {r} /\ x = "authorized" THEN log[s][x] + 1
                                       ELSE log[s][x]
          BY <2>6, <4>0, <4>3, NoteLemma
        <4>5. /\ \A s \in Responses, x \in DecisionEvents : s # r => decisions'[s][x] = decisions[s][x]
              /\ \A x \in DecisionEvents :
                    decisions'[r][x] = IF x \in {"staged", "authorized"} THEN 1 ELSE 0
          BY <2>6, <4>4
        <4>6. /\ decisions'[r]["staged"] = 1
              /\ decisions'[r]["authorized"] = 1
              /\ decisions'[r]["rejected"] = 0
              /\ decisions'[r]["expired"] = 0
              /\ decisions'[r]["cancelled"] = 0
              /\ decisions'[r]["linked"] = 0
          BY <4>5 DEF DecisionEvents
        <4>7. EngineRow(r, new, "AUTHORIZED")
          BY <1>1, <2>2, <2>9, <4>1, <4>2, <4>4, <4>5, <4>6 DEF EngineRow
        <4>8. QED
          BY <2>1, <2>2, <4>7, EngineRowIInv
      <3>2. CASE ~granted
        <4>0. decisions' = Note(log, {r}, "rejected")
          BY <2>9, <3>2 DEF StageAndAuthorize
        <4>1. /\ row' = [row EXCEPT ![r] = new]
              /\ phase' = [phase EXCEPT ![r] = "REJECTED"]
              /\ UNCHANGED <<approver, command, lapses>>
          BY <2>9, <3>2 DEF StageAndAuthorize
        <4> HIDE DEF log, new, key
        <4>2. "rejected" \in DecisionEvents
          BY DEF DecisionEvents
        <4>3. /\ decisions' \in [Responses -> [DecisionEvents -> Nat]]
              /\ \A s \in Responses, x \in DecisionEvents :
                    decisions'[s][x] = IF s \in {r} /\ x = "rejected" THEN log[s][x] + 1
                                       ELSE log[s][x]
          BY <2>6, <4>0, <4>2, NoteLemma
        <4>4. /\ \A s \in Responses, x \in DecisionEvents : s # r => decisions'[s][x] = decisions[s][x]
              /\ \A x \in DecisionEvents :
                    decisions'[r][x] = IF x \in {"staged", "rejected"} THEN 1 ELSE 0
          BY <2>6, <4>3
        <4>5. /\ decisions'[r]["staged"] = 1
              /\ decisions'[r]["authorized"] = 0
              /\ decisions'[r]["rejected"] = 1
              /\ decisions'[r]["expired"] = 0
              /\ decisions'[r]["cancelled"] = 0
              /\ decisions'[r]["linked"] = 0
          BY <4>4 DEF DecisionEvents
        <4>6. EngineRow(r, new, "REJECTED")
          BY <1>1, <2>3, <2>5, <4>1, <4>3, <4>4, <4>5 DEF EngineRow
        <4>7. QED
          BY <2>1, <2>2, <4>6, EngineRowIInv
      <3>3. QED
        BY <3>1, <3>2
    <2>10. QED
      BY <1>3, <2>7, <2>8, <2>9 DEF Decide
  <1>4. QED
    BY <1>2, <1>3 DEF AlertCreated

\* Requests and campaigns stage any number of rows after the sweep, each for
\* a key that is open neither in the table nor among the others.
LEMMA StageManualIInv ==
    ASSUME IInv, NEW actor \in Analysts, NEW R \in SUBSET Responses, NEW item,
           NEW linked \in BOOLEAN,
           \A r \in R : item[r] \in Items /\ phase[r] = "ABSENT",
           \A r \in R : ~OpenDuplicateSwept(item[r].key),
           \A r, s \in R : item[r].key = item[s].key => r = s,
           StageManual(actor, R, item, linked),
           bound' \subseteq Bindings,
           campaigns' \subseteq [actor : Analysts, campaign : Campaigns, items : CampaignItems,
                                 created : SUBSET Responses]
    PROVE  IInv'
  <1> USE DEF IInv
  <1> DEFINE new(r) == NewRow(item[r].alert, item[r].key, actor)
  <1>1. UNCHANGED <<now, seen, approver, lapses>> /\ command' = SweptCommand
    BY DEF StageManual
  <1>2. \A r \in R : new(r) \in Rows /\ new(r).key = item[r].key /\ new(r).by = actor
    BY DEF NewRow, Rows, Items, TypeOK
  <1>3. \A s \in Responses : /\ row'[s] = IF s \in R THEN new(s) ELSE row[s]
                             /\ phase'[s] = IF s \in R THEN "PENDING" ELSE SweptPhase[s]
    BY DEF StageManual
  <1>4. row' \in [Responses -> Rows \cup {Null}]
    <2>1. row' = [s \in Responses |-> IF s \in R THEN new(s) ELSE row[s]]
      BY DEF StageManual
    <2> HIDE DEF new
    <2>2. QED
      BY <1>2, <2>1 DEF TypeOK
  <1> HIDE DEF new
  <1>5. phase' \in [Responses -> Phases]
    BY SweepLemma DEF StageManual, Phases
  <1>6. /\ decisions' \in [Responses -> [DecisionEvents -> Nat]]
        /\ \A s \in Responses, x \in DecisionEvents :
              decisions'[s][x] = IF s \in R /\ (x = "staged" \/ (linked /\ x = "linked"))
                                 THEN SweptDecisions[s][x] + 1 ELSE SweptDecisions[s][x]
    <2> DEFINE log == Note(SweptDecisions, R, "staged")
    <2>1. "staged" \in DecisionEvents /\ "linked" \in DecisionEvents /\ "staged" # "linked"
      BY DEF DecisionEvents
    <2>2. /\ log \in [Responses -> [DecisionEvents -> Nat]]
          /\ \A s \in Responses, x \in DecisionEvents :
                log[s][x] = IF s \in R /\ x = "staged" THEN SweptDecisions[s][x] + 1
                            ELSE SweptDecisions[s][x]
      BY <2>1, SweepLemma, NoteLemma
    <2>3. decisions' = IF linked THEN Note(log, R, "linked") ELSE log
      BY DEF StageManual
    <2> HIDE DEF log
    <2>4. CASE linked
      <3>1. /\ decisions' \in [Responses -> [DecisionEvents -> Nat]]
            /\ \A s \in Responses, x \in DecisionEvents :
                  decisions'[s][x] = IF s \in R /\ x = "linked" THEN log[s][x] + 1 ELSE log[s][x]
        BY <2>1, <2>2, <2>3, <2>4, NoteLemma
      <3>2. QED
        BY <2>1, <2>2, <2>4, <3>1
    <2>5. CASE ~linked
      BY <2>2, <2>3, <2>5
    <2>6. QED
      BY <2>4, <2>5
  <1>7. TypeOK'
    BY <1>1, <1>4, <1>5, <1>6, SweepLemma DEF TypeOK
  <1>8. \A s \in Responses : phase'[s] # "ABSENT" => s \in R \/ phase[s] # "ABSENT"
    BY <1>3, SweepLemma
  <1>9. RowsExist'
    BY <1>2, <1>3, <1>8 DEF RowsExist
  <1>10. AbsentIsUnlinked'
    <2> SUFFICES ASSUME NEW s \in Responses, phase'[s] = "ABSENT"
                 PROVE  decisions'[s]["linked"] = 0
      BY DEF AbsentIsUnlinked
    <2>1. s \notin R /\ phase[s] = "ABSENT"
      BY <1>3, SweepLemma
    <2>2. decisions'[s]["linked"] = decisions[s]["linked"]
      BY <1>6, <2>1, SweepLemma DEF DecisionEvents
    <2>3. QED
      BY <2>1, <2>2 DEF AbsentIsUnlinked
  <1>11. PendingIsProposable'
    <2> SUFFICES ASSUME NEW s \in Responses, phase'[s] = "PENDING", row'[s].key \notin AutoSafe,
                        row'[s].by = System
                 PROVE  row'[s].alert \notin RecordOnly
      BY DEF PendingIsProposable
    <2>1. s \notin R
      BY <1>2, <1>3, ConstantsAssumption
    <2>2. phase[s] = "PENDING" /\ row'[s] = row[s]
      BY <1>3, <2>1, SweepLemma
    <2>3. QED
      BY <2>2 DEF PendingIsProposable
  <1>12. Approved'
    <2> SUFFICES ASSUME NEW s \in Responses, phase'[s] = "AUTHORIZED"
                 PROVE  phase[s] = "AUTHORIZED" /\ row'[s] = row[s]
      BY <1>1 DEF Approved
    <2>1. QED
      BY <1>3, SweepLemma
  <1>13. OneDecision'
    <2> SUFFICES ASSUME NEW s \in Responses PROVE OneDecision!(s)'
      BY DEF OneDecision
    <2>1. SweptCommand[s] = command[s]
            \/ (SweptCommand[s] = "EXPIRED" /\ command[s] \in {"AUTHORIZED", "DISPATCHED", "ACCEPTED"})
      BY SweepLemma DEF OpenCommands
    <2>2. command'[s] = SweptCommand[s]
      BY <1>1
    <2>3. CASE s \in R
      <3>1. /\ \A e \in DecisionEvents : decisions[s][e] = 0
            /\ command[s] = "ABSENT" /\ s \notin Undecided
        BY <2>3, AbsentIsBlank
      <3>2. \A e \in DecisionEvents : SweptDecisions[s][e] = 0
        BY <3>1, SweepLemma
      <3>3. /\ decisions'[s]["staged"] = 1
            /\ decisions'[s]["authorized"] = 0
            /\ decisions'[s]["rejected"] = 0
            /\ decisions'[s]["expired"] = 0
            /\ decisions'[s]["cancelled"] = 0
            /\ decisions'[s]["linked"] <= 1
        BY <1>6, <2>3, <3>2 DEF DecisionEvents
      <3>4. phase'[s] = "PENDING" /\ command'[s] = "ABSENT"
        BY <1>3, <2>1, <2>2, <2>3, <3>1
      <3>5. QED
        BY <3>3, <3>4
    <2>4. CASE s \notin R
      <3>1. OneDecision!(s)
        BY DEF OneDecision
      <3>2. /\ decisions'[s]["staged"] = decisions[s]["staged"]
            /\ decisions'[s]["authorized"] = decisions[s]["authorized"]
            /\ decisions'[s]["rejected"] = decisions[s]["rejected"]
            /\ decisions'[s]["cancelled"] = decisions[s]["cancelled"]
            /\ decisions'[s]["linked"] = decisions[s]["linked"]
            /\ decisions'[s]["expired"] = decisions[s]["expired"] + (IF s \in Undecided THEN 1 ELSE 0)
        BY <1>6, <2>4, SweepLemma DEF DecisionEvents, TypeOK
      <3>3. /\ phase'[s] = IF s \in Undecided THEN "EXPIRED" ELSE phase[s]
            /\ s \in Undecided => phase[s] = "PENDING"
        BY <1>3, <2>4, SweepLemma
      <3>4. QED
        BY <2>1, <2>2, <3>1, <3>2, <3>3
    <2>5. QED
      BY <2>3, <2>4
  <1>14. NeverStacked'
    <2> SUFFICES ASSUME NEW s \in Responses, NEW t \in Responses, s # t,
                        phase'[s] # "ABSENT", phase'[t] # "ABSENT", row'[s].key = row'[t].key,
                        Live(s)', Live(t)'
                 PROVE  FALSE
      BY DEF NeverStacked
    <2>1. \A x \in Responses \ R :
             Live(x)' => /\ Live(x) /\ phase[x] # "ABSENT" /\ row'[x] = row[x]
                         /\ \/ SweptPhase[x] = "PENDING"
                            \/ phase[x] = "AUTHORIZED" /\ SweptCommand[x] \in OpenCommands
      BY <1>1, <1>3, SweepLemma DEF Live, OpenCommands
    <2>2. \A x \in Responses \ R, r \in R : Live(x)' /\ row'[x].key = item[r].key => FALSE
      BY <2>1 DEF OpenDuplicateSwept
    <2>3. \A r \in R : row'[r].key = item[r].key
      BY <1>2, <1>3
    <2>4. CASE s \notin R /\ t \notin R
      BY <2>1, <2>4 DEF NeverStacked
    <2>5. CASE s \in R /\ t \in R
      BY <2>3, <2>5
    <2>6. CASE (s \in R) # (t \in R)
      BY <2>2, <2>3, <2>6
    <2>7. QED
      BY <2>4, <2>5, <2>6
  <1>15. QED
    BY <1>7, <1>9, <1>10, <1>11, <1>12, <1>13, <1>14

LEMMA CreateManualIInv ==
    ASSUME IInv, NEW actor \in Analysts, NEW a \in Alerts, NEW key \in Keys,
           NEW request \in Requests \cup {Null}, NEW r \in Responses,
           CreateManual(actor, a, key, request, r)
    PROVE  IInv'
  <1> DEFINE item == [x \in {r} |-> [alert |-> a, key |-> key]]
  <1>1. /\ phase[r] = "ABSENT" /\ ~OpenDuplicateSwept(key)
        /\ StageManual(actor, {r}, item, FALSE) /\ UNCHANGED campaigns
    BY DEF CreateManual
  <1>2. item[r] \in Items /\ item[r].key = key
    BY DEF Items
  <1>3. bound' \subseteq Bindings
    <2>1. CASE request = Null
      BY <2>1 DEF CreateManual, IInv, TypeOK
    <2>2. CASE request # Null
      BY <2>2 DEF CreateManual, IInv, TypeOK, Bindings
    <2>3. QED
      BY <2>1, <2>2
  <1> HIDE DEF item
  <1>4. campaigns' \subseteq [actor : Analysts, campaign : Campaigns, items : CampaignItems,
                              created : SUBSET Responses]
    BY <1>1 DEF IInv, TypeOK
  <1>5. /\ {r} \in SUBSET Responses /\ FALSE \in BOOLEAN
        /\ \A x \in {r} : item[x] \in Items /\ phase[x] = "ABSENT"
        /\ \A x \in {r} : ~OpenDuplicateSwept(item[x].key)
        /\ \A x, y \in {r} : item[x].key = item[y].key => x = y
    BY <1>1, <1>2
  <1>6. QED
    BY <1>1, <1>3, <1>4, <1>5, StageManualIInv, Zenon

\* The rows of one campaign have different keys: of two items for one key
\* only the first gets a row.
LEMMA CreateCampaignIInv ==
    ASSUME IInv, NEW actor \in Analysts, NEW campaign \in Campaigns,
           NEW items \in CampaignItems, NEW refused \in SUBSET DOMAIN items,
           NEW to \in [DOMAIN items -> Responses],
           CreateCampaign(actor, campaign, items, refused, to)
    PROVE  IInv'
  <1> DEFINE created == Staged(actor, campaign, items, refused)
  <1> DEFINE R == {to[i] : i \in created}
  <1> DEFINE at(r) == CHOOSE i \in created : to[i] = r
  <1> DEFINE item == [r \in R |-> items[at(r)]]
  <1>1. /\ \A i \in DOMAIN items : i \in Nat /\ items[i] \in Items
        /\ created \subseteq DOMAIN items
    BY ConstantsAssumption DEF Staged
  <1>2. R \in SUBSET Responses
    BY <1>1
  <1>3. \A i \in created : to[i] \in Responses /\ phase[to[i]] = "ABSENT"
    BY <1>1 DEF CreateCampaign
  <1>4. \A i, j \in created : items[i].key = items[j].key => i = j
    <2>1. \A i, j \in created : items[i].key = items[j].key => ~(i < j)
      BY DEF Staged
    <2>2. \A i \in created : i \in Nat
      BY <1>1
    <2> HIDE DEF created
    <2>3. QED
      BY <2>1, <2>2
  <1>5. \A i \in created : ~OpenDuplicateSwept(items[i].key)
    BY DEF Staged
  <1>6. \A r \in R : at(r) \in created /\ to[at(r)] = r
    OBVIOUS
  <1>7. bound' \subseteq Bindings
    <2>1. \A i \in created : [actor |-> actor, request |-> <<campaign, i>>,
                              alert |-> items[i].alert, key |-> items[i].key,
                              response |-> to[i]] \in Bindings
      BY <1>1, <1>3 DEF Bindings, Items
    <2>2. bound' = bound \cup {[actor |-> actor, request |-> <<campaign, i>>,
                                alert |-> items[i].alert, key |-> items[i].key,
                                response |-> to[i]] : i \in created}
      BY DEF CreateCampaign
    <2>3. bound \subseteq Bindings
      BY DEF IInv, TypeOK
    <2> HIDE DEF created
    <2>4. QED
      BY <2>1, <2>2, <2>3
  <1>8. campaigns' \subseteq [actor : Analysts, campaign : Campaigns, items : CampaignItems,
                              created : SUBSET Responses]
    <2> DEFINE all == R \cup Replayed(actor, campaign, items, refused)
    <2>1. Replayed(actor, campaign, items, refused) \subseteq Responses
      BY DEF Replayed, IInv, TypeOK, Bindings
    <2>2. all \in SUBSET Responses
      BY <1>2, <2>1
    <2>3. campaigns' = campaigns \cup {[actor |-> actor, campaign |-> campaign, items |-> items,
                                        created |-> all]}
      BY DEF CreateCampaign
    <2> HIDE DEF all
    <2>4. QED
      BY <2>2, <2>3 DEF IInv, TypeOK
  <1>9. CASE created = {}
    <2>1. UNCHANGED <<now, seen, phase, row, approver, command, lapses, decisions>>
      BY <1>9 DEF CreateCampaign
    <2>2. now \in Nat /\ seen \subseteq Alerts
      BY DEF IInv, TypeOK
    <2>3. QED
      BY <1>7, <1>8, <2>1, <2>2, IdleIInv
  <1>10. CASE created # {}
    <2>1. StageManual(actor, R, item, TRUE)
      BY <1>10 DEF CreateCampaign
    <2>2. \A r \in R : item[r] = items[at(r)]
      OBVIOUS
    <2> HIDE DEF item, at, R, created
    <2>3. \A r \in R : item[r] \in Items /\ phase[r] = "ABSENT"
      BY <1>1, <1>3, <1>6, <2>2
    <2>4. \A r \in R : ~OpenDuplicateSwept(item[r].key)
      BY <1>5, <1>6, <2>2
    <2>5. \A r, s \in R : item[r].key = item[s].key => r = s
      BY <1>4, <1>6, <2>2
    <2>6. TRUE \in BOOLEAN
      OBVIOUS
    <2>7. QED
      BY <1>2, <1>7, <1>8, <2>1, <2>3, <2>4, <2>5, <2>6, StageManualIInv, Zenon
  <1>11. QED
    BY <1>9, <1>10

-----------------------------------------------------------------------------
(* The theorems *)

LEMMA NextIInv ==
    ASSUME IInv, [Next]_vars
    PROVE  IInv'
  <1>1. /\ now \in Nat /\ seen \subseteq Alerts /\ bound \subseteq Bindings
        /\ campaigns \subseteq [actor : Analysts, campaign : Campaigns, items : CampaignItems,
                                created : SUBSET Responses]
    BY DEF IInv, TypeOK
  <1>2. CASE \E r \in Responses : AuthorizeRejects(r)
    BY <1>2, RejectIInv DEF AuthorizeRejects, Reject
  <1>3. CASE Tick
    BY <1>1, <1>3, IdleIInv DEF Tick
  <1>4. CASE UNCHANGED vars
    BY <1>1, <1>4, IdleIInv DEF vars
  <1>5. QED
    BY <1>2, <1>3, <1>4, AlertCreatedIInv, CreateManualIInv, CreateCampaignIInv, AuthorizeIInv,
       RejectIInv, CancelIInv, ListSweepIInv, EndpointStepIInv DEF Next

\* The invariant the theorems below rest on.
THEOREM InductiveInvariant == Spec => []IInv
  <1>1. Init => IInv
    BY InitIInv
  <1>2. IInv /\ [Next]_vars => IInv'
    BY NextIInv
  <1>3. QED
    BY <1>1, <1>2, PTL DEF Spec

\* Every variable keeps its type.
THEOREM TypeCorrect == Spec => []TypeOK
  <1>1. IInv => TypeOK
    BY DEF IInv
  <1>2. QED
    BY <1>1, InductiveInvariant, PTL

\* However detections, requests, retries and campaigns interleave with late
\* sweeps, no endpoint, action and target has two live responses.
THEOREM NeverStackedHolds == Spec => []NeverStacked
  <1>1. IInv => NeverStacked
    BY DEF IInv
  <1>2. QED
    BY <1>1, InductiveInvariant, PTL

\* The decision audit of every response tells one story, the one its row and
\* its command tell.
THEOREM OneDecisionHolds == Spec => []OneDecision
  <1>1. IInv => OneDecision
    BY DEF IInv
  <1>2. QED
    BY <1>1, InductiveInvariant, PTL

\* No disruptive response is authorized without an analyst, without a second
\* one where the policy asks for it, or on a behavioral detector's word.
THEOREM ApprovedHolds == Spec => []Approved
  <1>1. IInv => Approved
    BY DEF IInv
  <1>2. QED
    BY <1>1, InductiveInvariant, PTL

\* What a step leaves of a response that is staged, decided or closed.
Final(r) ==
    /\ phase[r] # "ABSENT" => phase'[r] # "ABSENT" /\ row'[r] = row[r]
    /\ phase[r] \in {"AUTHORIZED", "REJECTED", "EXPIRED"} => phase'[r] = phase[r]
    /\ command[r] \in ClosedCommands => command'[r] = command[r]

LEMMA StepsAreFinal ==
    ASSUME IInv, Next
    PROVE  \A r \in Responses : Final(r)
  <1> USE DEF Final
  <1>0. TypeOK /\ RowsExist
    BY DEF IInv
  <1>1. \A r \in Responses :
           /\ phase[r] # "PENDING" => SweptPhase[r] = phase[r]
           /\ phase[r] # "ABSENT" => SweptPhase[r] # "ABSENT"
           /\ command[r] \in ClosedCommands => SweptCommand[r] = command[r]
    BY <1>0, SweepLemma DEF OpenCommands, ClosedCommands
  <1>2. /\ SweptPhase \in [Responses -> Phases] /\ phase \in [Responses -> Phases]
        /\ SweptCommand \in [Responses -> {"ABSENT"} \cup OpenCommands \cup ClosedCommands]
        /\ command \in [Responses -> {"ABSENT"} \cup OpenCommands \cup ClosedCommands]
        /\ row \in [Responses -> Rows \cup {Null}]
    BY <1>0, SweepLemma DEF TypeOK
  <1>3. \A r \in Responses : phase[r] # "AUTHORIZED" => command[r] = "ABSENT"
    BY DEF IInv, OneDecision
  <1>4. \A r \in Responses : Awaits(r) => phase[r] = "PENDING"
    BY <1>0, AwaitsIsLive
  <1>5. ASSUME NEW a \in Alerts, NEW r \in Responses, NEW granted \in BOOLEAN,
               AlertCreated(a, r, granted)
        PROVE  \A s \in Responses : Final(s)
    <2>1. CASE UNCHANGED <<phase, row, approver, command, lapses, decisions>>
      BY <2>1
    <2>2. CASE phase[r] = "ABSENT" /\ Decide(a, r, granted)
      <3> DEFINE Others == \A s \in Responses : s # r => /\ row'[s] = row[s]
                                                         /\ phase'[s] = phase[s]
                                                         /\ command'[s] = command[s]
      <3> DEFINE key == Recommends[a]
      <3>1. CASE RecordRejected(a, r, key)
        <4>1. Others
          BY <1>2, <3>1 DEF RecordRejected
        <4>2. QED
          BY <1>3, <2>2, <4>1 DEF ClosedCommands
      <3>2. CASE StageForApproval(a, r, key)
        <4>1. Others
          BY <1>2, <3>2 DEF StageForApproval
        <4>2. QED
          BY <1>3, <2>2, <4>1 DEF ClosedCommands
      <3>3. CASE StageAndAuthorize(a, r, key, granted)
        <4>1. Others
          <5>1. CASE granted
            BY <1>2, <3>3, <5>1 DEF StageAndAuthorize
          <5>2. CASE ~granted
            BY <1>2, <3>3, <5>2 DEF StageAndAuthorize
          <5>3. QED
            BY <5>1, <5>2
        <4>2. QED
          BY <1>3, <2>2, <4>1 DEF ClosedCommands
      <3>4. QED
        BY <2>2, <3>1, <3>2, <3>3 DEF Decide
    <2>3. QED
      BY <1>5, <2>1, <2>2 DEF AlertCreated
  <1>6. ASSUME NEW actor, NEW R, NEW item, NEW linked,
               \A r \in R : phase[r] = "ABSENT", StageManual(actor, R, item, linked)
        PROVE  \A s \in Responses : Final(s)
    BY <1>1, <1>2, <1>6 DEF StageManual
  <1>7. ASSUME NEW actor \in Analysts, NEW campaign \in Campaigns, NEW items \in CampaignItems,
               NEW refused \in SUBSET DOMAIN items, NEW to \in [DOMAIN items -> Responses],
               CreateCampaign(actor, campaign, items, refused, to)
        PROVE  \A s \in Responses : Final(s)
    <2> DEFINE created == Staged(actor, campaign, items, refused)
    <2> DEFINE R == {to[i] : i \in created}
    <2>1. \A r \in R : phase[r] = "ABSENT"
      BY <1>7 DEF CreateCampaign
    <2>2. CASE created = {}
      BY <1>7, <2>2 DEF CreateCampaign
    <2>3. CASE created # {}
      <3>1. PICK item : StageManual(actor, R, item, TRUE)
        BY <1>7, <2>3 DEF CreateCampaign
      <3>2. QED
        BY <1>6, <2>1, <3>1
    <2>4. QED
      BY <2>2, <2>3
  <1>8. ASSUME NEW actor \in Analysts, NEW a \in Alerts, NEW key \in Keys,
               NEW request \in Requests \cup {Null}, NEW r \in Responses,
               CreateManual(actor, a, key, request, r)
        PROVE  \A s \in Responses : Final(s)
    <2> DEFINE R == {r}
    <2>1. \A x \in R : phase[x] = "ABSENT"
      BY <1>8 DEF CreateManual
    <2>2. PICK item : StageManual(actor, R, item, FALSE)
      BY <1>8 DEF CreateManual
    <2> HIDE DEF R
    <2>3. QED
      BY <1>6, <2>1, <2>2
  <1>9. ASSUME NEW r \in Responses, NEW actor \in Analysts, Authorize(r, actor)
        PROVE  \A s \in Responses : Final(s)
    BY <1>1, <1>2, <1>3, <1>4, <1>9 DEF Authorize, ClosedCommands
  <1>10. ASSUME NEW r \in Responses, Reject(r)
         PROVE  \A s \in Responses : Final(s)
    BY <1>1, <1>2, <1>4, <1>10 DEF Reject
  <1>11. ASSUME NEW r \in Responses, AuthorizeRejects(r)
         PROVE  \A s \in Responses : Final(s)
    BY <1>10, <1>11 DEF Reject, AuthorizeRejects
  <1>12. ASSUME NEW r \in Responses, Cancel(r)
         PROVE  \A s \in Responses : Final(s)
    BY <1>1, <1>2, <1>12 DEF Cancel, ClosedCommands
  <1>13. CASE ListSweep
    BY <1>1, <1>2, <1>13 DEF ListSweep
  <1>14. ASSUME NEW r \in Responses, EndpointStep(r)
         PROVE  \A s \in Responses : Final(s)
    BY <1>1, <1>2, <1>14 DEF EndpointStep, ClosedCommands
  <1>15. CASE Tick
    BY <1>15 DEF Tick
  <1>16. QED
    BY <1>5, <1>7, <1>8, <1>9, <1>10, <1>11, <1>12, <1>13, <1>14, <1>15 DEF Next

\* A decision is final, a closed command stays closed and a staged row keeps
\* what it asks for, whatever is swept, staged, decided or reported later.
THEOREM DecisionsAreFinalHolds == Spec => DecisionsAreFinal
  <1> DEFINE Kept(r) ==
        /\ phase[r] # "ABSENT" => row'[r] = row[r]
        /\ phase[r] \in {"AUTHORIZED", "REJECTED", "EXPIRED"} => phase'[r] = phase[r]
        /\ command[r] \in ClosedCommands => command'[r] = command[r]
  <1>1. IInv /\ [Next]_vars => [\A r \in Responses : Kept(r)]_vars
    BY StepsAreFinal DEF Final
  <1>2. QED
    BY <1>1, InductiveInvariant, PTL DEF Spec, DecisionsAreFinal

-----------------------------------------------------------------------------
(* Request keys *)

\* The bindings survive a step that keeps what is staged and adds bindings of
\* fresh requests to rows it stages.
LEMMA BindingsGrow ==
    ASSUME IInv, RetriesFindTheirRow, \A r \in Responses : Final(r),
           NEW B, bound' = bound \cup B, bound' \subseteq Bindings,
           \A b \in B : /\ ~Bound(b.actor, b.request)
                        /\ phase[b.response] = "ABSENT" /\ phase'[b.response] # "ABSENT"
                        /\ row'[b.response].by = b.actor /\ row'[b.response].key = b.key,
           \A b, c \in B : b.request = c.request => b = c,
           \A b, c \in B : b.response = c.response => b = c,
           \A c \in campaigns' : c \in campaigns \/
              \A r \in c.created : \E b \in bound' : b.response = r /\ b.actor = c.actor
    PROVE  RetriesFindTheirRow'
  <1>1. \A b \in bound : /\ b.response \in Responses /\ phase[b.response] # "ABSENT"
                         /\ row[b.response].by = b.actor /\ row[b.response].key = b.key
    BY DEF IInv, TypeOK, Bindings, RetriesFindTheirRow
  <1>2. \A b \in bound : /\ phase'[b.response] # "ABSENT"
                         /\ row'[b.response].by = b.actor /\ row'[b.response].key = b.key
    BY <1>1 DEF Final
  <1>3. \A b, c \in bound' : b.actor = c.actor /\ b.request = c.request => b = c
    BY DEF RetriesFindTheirRow, Bound
  <1>4. \A b, c \in bound' : b.response = c.response => b = c
    BY <1>1 DEF RetriesFindTheirRow
  <1>5. \A c \in campaigns' : \A r \in c.created :
           \E b \in bound' : b.response = r /\ b.actor = c.actor
    BY DEF RetriesFindTheirRow
  <1>6. QED
    BY <1>2, <1>3, <1>4, <1>5 DEF RetriesFindTheirRow

LEMMA CreateManualBinds ==
    ASSUME IInv, IInv', RetriesFindTheirRow, \A s \in Responses : Final(s),
           NEW actor \in Analysts, NEW a \in Alerts, NEW key \in Keys,
           NEW request \in Requests \cup {Null}, NEW r \in Responses,
           CreateManual(actor, a, key, request, r)
    PROVE  RetriesFindTheirRow'
  <1> DEFINE b == [actor |-> actor, request |-> request, alert |-> a, key |-> key, response |-> r]
  <1> DEFINE B == IF request = Null THEN {} ELSE {b}
  <1>1. bound' = bound \cup B /\ bound' \subseteq Bindings /\ campaigns' = campaigns
    BY DEF CreateManual, IInv, TypeOK
  <1>2. request # Null => ~Bound(actor, request)
    BY DEF CreateManual
  <1>3. phase[r] = "ABSENT" /\ phase'[r] = "PENDING" /\ row'[r] = NewRow(a, key, actor)
    BY DEF CreateManual, StageManual
  <1>4. row'[r].by = actor /\ row'[r].key = key
    BY <1>3 DEF NewRow
  <1>5. \A c \in B : request # Null /\ c = b
    OBVIOUS
  <1>6. b.actor = actor /\ b.request = request /\ b.response = r /\ b.key = key
    OBVIOUS
  <1> HIDE DEF b, B
  <1>7. \A c \in B : /\ ~Bound(c.actor, c.request)
                     /\ phase[c.response] = "ABSENT" /\ phase'[c.response] # "ABSENT"
                     /\ row'[c.response].by = c.actor /\ row'[c.response].key = c.key
    BY <1>2, <1>3, <1>4, <1>5, <1>6
  <1>8. QED
    BY <1>1, <1>5, <1>7, BindingsGrow

LEMMA CreateCampaignBinds ==
    ASSUME IInv, IInv', RetriesFindTheirRow, \A s \in Responses : Final(s),
           NEW actor \in Analysts, NEW campaign \in Campaigns,
           NEW items \in CampaignItems, NEW refused \in SUBSET DOMAIN items,
           NEW to \in [DOMAIN items -> Responses],
           CreateCampaign(actor, campaign, items, refused, to)
    PROVE  RetriesFindTheirRow'
  <1> DEFINE created == Staged(actor, campaign, items, refused)
  <1> DEFINE R == {to[i] : i \in created}
  <1> DEFINE at(r) == CHOOSE i \in created : to[i] = r
  <1> DEFINE item == [r \in R |-> items[at(r)]]
  <1> DEFINE b(i) == [actor |-> actor, request |-> <<campaign, i>>, alert |-> items[i].alert,
                      key |-> items[i].key, response |-> to[i]]
  <1> DEFINE B == {b(i) : i \in created}
  <1> DEFINE old == Replayed(actor, campaign, items, refused)
  <1>1. bound' = bound \cup B /\ bound' \subseteq Bindings
    BY DEF CreateCampaign, IInv, TypeOK
  <1>2. created \subseteq DOMAIN items /\ \A i \in created : ~Bound(actor, <<campaign, i>>)
    BY DEF Staged
  <1>3. /\ \A i \in created : phase[to[i]] = "ABSENT"
        /\ \A i, j \in created : to[i] = to[j] => i = j
    BY DEF CreateCampaign
  <1>4. \A i \in created : at(to[i]) = i
    BY <1>3
  <1>5. \A i \in created : phase'[to[i]] = "PENDING" /\ row'[to[i]].by = actor
                             /\ row'[to[i]].key = items[i].key
    <2> SUFFICES ASSUME NEW i \in created
                 PROVE  phase'[to[i]] = "PENDING" /\ row'[to[i]].by = actor
                          /\ row'[to[i]].key = items[i].key
      OBVIOUS
    <2>1. StageManual(actor, R, item, TRUE)
      BY DEF CreateCampaign
    <2>2. to[i] \in R /\ to[i] \in Responses /\ item[to[i]] = items[i]
      BY <1>2, <1>4
    <2> HIDE DEF item, R, at, created
    <2>3. phase'[to[i]] = "PENDING" /\ row'[to[i]] = NewRow(items[i].alert, items[i].key, actor)
      BY <2>1, <2>2 DEF StageManual
    <2>4. QED
      BY <2>3 DEF NewRow
  <1>6. \A i \in created : /\ b(i).actor = actor /\ b(i).request = <<campaign, i>>
                           /\ b(i).response = to[i] /\ b(i).key = items[i].key
    OBVIOUS
  <1>7. \A c \in campaigns' : c \in campaigns \/ (c.actor = actor /\ c.created = R \cup old)
    BY DEF CreateCampaign
  <1>8. \A r \in old : \E c \in bound : c.response = r /\ c.actor = actor
    BY DEF Replayed
  <1>9. \A r \in R : \E i \in created : r = to[i]
    OBVIOUS
  <1>10. \A c \in B : \E i \in created : c = b(i)
    OBVIOUS
  <1>11. \A i \in created : b(i) \in bound'
    BY <1>1
  <1> HIDE DEF created, R, at, item, b, B, old
  <1>12. \A c \in B : /\ ~Bound(c.actor, c.request)
                      /\ phase[c.response] = "ABSENT" /\ phase'[c.response] # "ABSENT"
                      /\ row'[c.response].by = c.actor /\ row'[c.response].key = c.key
    <2> SUFFICES ASSUME NEW i \in created
                 PROVE  /\ ~Bound(b(i).actor, b(i).request)
                        /\ phase[b(i).response] = "ABSENT" /\ phase'[b(i).response] # "ABSENT"
                        /\ row'[b(i).response].by = b(i).actor
                        /\ row'[b(i).response].key = b(i).key
      BY <1>10
    <2>1. ~Bound(b(i).actor, b(i).request)
      BY <1>2, <1>6, Zenon
    <2>2. QED
      BY <1>3, <1>5, <1>6, <2>1
  <1>13. \A c, d \in B : c.request = d.request => c = d
    BY <1>6, <1>10
  <1>14. \A c, d \in B : c.response = d.response => c = d
    BY <1>3, <1>6, <1>10
  <1>15. \A c \in campaigns' : c \in campaigns \/
            \A r \in c.created : \E d \in bound' : d.response = r /\ d.actor = c.actor
    BY <1>1, <1>6, <1>7, <1>8, <1>9, <1>11
  <1>16. QED
    BY <1>1, <1>12, <1>13, <1>14, <1>15, BindingsGrow

\* However requests, retries and campaigns of several analysts interleave, a
\* request_id leads to the one row it made, and no row answers two of them:
\* response_request_keys is looked up and written in the staging transaction.
THEOREM RetriesFindTheirRowHolds == Spec => []RetriesFindTheirRow
  <1>1. Init => RetriesFindTheirRow
    BY DEF Init, RetriesFindTheirRow
  <1>2. ASSUME IInv, IInv', RetriesFindTheirRow, [Next]_vars
        PROVE  RetriesFindTheirRow'
    <2>1. CASE UNCHANGED vars
      BY <1>2, <2>1 DEF vars, RetriesFindTheirRow
    <2>2. CASE Next
      <3>1. \A r \in Responses : Final(r)
        BY <1>2, <2>2, StepsAreFinal
      <3>2. CASE UNCHANGED <<bound, campaigns>>
        <4> DEFINE B == {}
        <4>1. bound' = bound \cup B /\ bound' \subseteq Bindings /\ \A b \in B : FALSE
          BY <1>2, <3>2 DEF IInv, TypeOK
        <4> HIDE DEF B
        <4>2. QED
          BY <1>2, <3>1, <3>2, <4>1, BindingsGrow
      <3>3. ASSUME NEW actor \in Analysts, NEW a \in Alerts, NEW key \in Keys,
                   NEW request \in Requests \cup {Null}, NEW r \in Responses,
                   CreateManual(actor, a, key, request, r)
            PROVE  RetriesFindTheirRow'
        BY <1>2, <3>1, <3>3, CreateManualBinds
      <3>4. ASSUME NEW actor \in Analysts, NEW campaign \in Campaigns, NEW items \in CampaignItems,
                   NEW refused \in SUBSET DOMAIN items, NEW to \in [DOMAIN items -> Responses],
                   CreateCampaign(actor, campaign, items, refused, to)
            PROVE  RetriesFindTheirRow'
        BY <1>2, <3>1, <3>4, CreateCampaignBinds
      <3>5. QED
        BY <2>2, <3>2, <3>3, <3>4
        DEF Next, AlertCreated, Authorize, AuthorizeRejects, Reject, Cancel, ListSweep,
            EndpointStep, Tick
    <2>3. QED
      BY <1>2, <2>1, <2>2
  <1>3. QED
    BY <1>1, <1>2, InductiveInvariant, PTL DEF Spec
=============================================================================
