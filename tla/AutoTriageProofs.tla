-------------------------- MODULE AutoTriageProofs --------------------------
(***************************************************************************)
(* Automatic runs, for any number of alerts, endpoints, policies and       *)
(* collection actions and for every budget of every revision: one          *)
(* collection of an alert is out, a cancelled run is quiet, permission is  *)
(* fresh, and plans hold.                                                  *)
(***************************************************************************)
EXTENDS AutoTriage, FiniteSetTheorems, TLAPS

----------------------------------------------------------------------------
(* The inductive invariant.                                                *)

Table == [Alerts -> [Acts -> ItemRow \cup {Null}]]

TriageTyped ==
  /\ now \in Time
  /\ run \in [Alerts -> RunRow \cup {Null}]
  /\ item \in Table
  /\ asset \in [Hosts -> [class: Classes, version: Nat]]
  /\ policy \in [Rules -> [version: Nat, terms: Policies \cup {Null}]]

\* A run has all its items, and only alerts that are on file have runs.
Whole ==
  \A a \in Alerts :
    /\ run[a] # Null => a \in seen
    /\ \A c \in Acts : item[a][c] = Null <=> run[a] = Null

\* What was not reserved does not move.
SkipsRest ==
  \A a \in Alerts, c \in Acts :
    item[a][c] # Null /\ item[a][c].decision = "skip" => item[a][c].state = "SKIPPED"

\* A cancelled run waits for nothing.
CancelledIsIdle ==
  \A a \in Alerts, c \in Acts :
    run[a] # Null /\ run[a].cancelled => item[a][c].state \notin {"PENDING", "AUTHORIZED"}

\* Finitely many runs are on file, so their number ranks the next one.
FewRuns == IsFiniteSet(OnFile)

Inv == TriageTyped /\ Whole /\ SkipsRest /\ CancelledIsIdle /\ OneInFlight /\ FewRuns

----------------------------------------------------------------------------
(* The sweeps only close work.                                             *)

Closed == {"REJECTED", "EXPIRED", "CANCELLED", "DONE"}

\* In table J an item stands as in I, or it was reserved and is closed, and
\* only what waited for approval is rejected.
Fell(I, J, a, c) ==
  /\ I[a][c] # Null /\ I[a][c].decision # "skip"
  /\ J[a][c] \in ItemRow
  /\ J[a][c].decision = I[a][c].decision /\ J[a][c].state \in Closed
  /\ J[a][c].state = "REJECTED" => I[a][c].state = "PENDING"

Lowered(I, J) ==
  J \in Table /\ \A a \in Alerts, c \in Acts : J[a][c] = I[a][c] \/ Fell(I, J, a, c)

\* What Move does to one item.
LEMMA MoveMeans ==
  ASSUME NEW I, NEW X, NEW to
  PROVE  \A a \in Alerts, c \in Acts :
           Move(I, X, to)[a][c] =
             IF <<a, c>> \in X THEN [I[a][c] EXCEPT !.state = to] ELSE I[a][c]
BY DEF Move

\* Closing reserved items lowers the table further.
LEMMA MoveLowers ==
  ASSUME NEW I, Lowered(item, I), item \in Table, NEW X \in SUBSET Reserved, NEW to \in Closed,
         to = "REJECTED" => \A a \in Alerts, c \in Acts : <<a, c>> \in X => I[a][c].state = "PENDING"
  PROVE  Lowered(item, Move(I, X, to))
<1> DEFINE J == Move(I, X, to)
<1>1. ASSUME NEW a \in Alerts, NEW c \in Acts
      PROVE  J[a][c] \in ItemRow \cup {Null} /\ (J[a][c] = item[a][c] \/ Fell(item, J, a, c))
  <2>0. J[a][c] = IF <<a, c>> \in X THEN [I[a][c] EXCEPT !.state = to] ELSE I[a][c]
    BY DEF Move
  <2>1. I[a][c] \in ItemRow \cup {Null}
    BY DEF Lowered, Table
  <2>2. CASE <<a, c>> \in X
    <3>1. item[a][c] # Null /\ item[a][c].decision # "skip"
      BY <2>2 DEF Reserved
    <3>2. I[a][c] \in ItemRow /\ I[a][c].decision = item[a][c].decision
      <4>1. item[a][c] \in ItemRow
        BY <3>1 DEF Table
      <4> QED BY <2>1, <3>1, <4>1 DEF Lowered, Fell
    <3>3. J[a][c] = [I[a][c] EXCEPT !.state = to]
      BY <2>0, <2>2
    <3>4. J[a][c] \in ItemRow /\ J[a][c].decision = I[a][c].decision /\ J[a][c].state = to
      BY <3>2, <3>3 DEF ItemRow, States, Closed
    <3>5. to = "REJECTED" => item[a][c].state = "PENDING"
      BY <2>2 DEF Lowered, Fell, Closed
    <3> QED BY <3>1, <3>2, <3>4, <3>5 DEF Fell
  <2>3. CASE <<a, c>> \notin X
    <3>1. J[a][c] = I[a][c]
      BY <2>0, <2>3, Zenon
    <3> QED BY <2>1, <3>1 DEF Lowered, Fell
  <2> QED BY <2>2, <2>3
<1>2. J = [a \in Alerts |-> [c \in Acts |-> J[a][c]]]
  BY DEF Move
<1> HIDE DEF J
<1>3. J \in Table
  BY <1>1, <1>2 DEF Table
<1> QED BY <1>1, <1>3 DEF Lowered, J

\* So do the sweeps and the reconciliation.
LEMMA SweepsLower ==
  ASSUME item \in Table
  PROVE  /\ Lowered(item, item)
         /\ Lowered(item, CommandsSwept)
         /\ Lowered(item, ResponsesSwept)
         /\ \A I, H : Lowered(item, I) => Lowered(item, Reconciled(I, H))
<1>1. Lowered(item, item)
  BY DEF Lowered
<1>2. \A S : Items(S) \subseteq Reserved
  BY DEF Items
<1>3. Lowered(item, CommandsSwept)
  <2>1. {x \in Items(Live \ {"PENDING"}) : run[x[1]].deadline <= now} \in SUBSET Reserved
    BY <1>2
  <2> QED BY <1>1, <2>1, MoveLowers DEF CommandsSwept, Closed
<1>4. Lowered(item, ResponsesSwept)
  <2>1. {x \in Items({"PENDING"}) : run[x[1]].created + ActionTTL <= now} \in SUBSET Reserved
    BY <1>2
  <2> QED BY <1>1, <2>1, MoveLowers DEF ResponsesSwept, Closed
<1>5. ASSUME NEW I, NEW H, Lowered(item, I) PROVE Lowered(item, Reconciled(I, H))
  <2> DEFINE void(x) == HostOf[x[1]] \in H /\ Void(x[1])
             was(s) == {x \in Reserved : I[x[1]][x[2]].state = s /\ void(x)}
             K == Move(I, was("PENDING"), "REJECTED")
  <2>1. was("PENDING") \in SUBSET Reserved /\ was("AUTHORIZED") \in SUBSET Reserved
    OBVIOUS
  <2>2. Reconciled(I, H) = Move(K, was("AUTHORIZED"), "CANCELLED")
    BY DEF Reconciled
  <2>5. \A a \in Alerts, c \in Acts : <<a, c>> \in was("PENDING") => I[a][c].state = "PENDING"
    OBVIOUS
  <2> HIDE DEF was
  <2>3. Lowered(item, K)
    BY <1>5, <2>1, <2>5, MoveLowers DEF Closed
  <2> HIDE DEF K
  <2>4. Lowered(item, Move(K, was("AUTHORIZED"), "CANCELLED"))
    BY <2>1, <2>3, MoveLowers DEF Closed
  <2> QED BY <2>2, <2>4
<1> QED BY <1>1, <1>3, <1>4, <1>5

----------------------------------------------------------------------------
(* The three kinds of steps.                                               *)

\* A live item goes on, which the guard allows.
Advanced(a, c) ==
  /\ item[a][c] # Null /\ item[a][c].decision # "skip" /\ State(a, c) \in Live
  /\ item'[a][c] \in ItemRow
  /\ item'[a][c].decision = item[a][c].decision
  /\ item'[a][c].state \in {"AUTHORIZED", "DISPATCHED", "ACCEPTED"}
  /\ \E able : Allowed(a, c, able)

\* Items rest, close or go on, and no second one of an alert goes out.
Worked ==
  /\ run' = run /\ seen \subseteq seen' /\ item' \in Table
  /\ \A a \in Alerts, c \in Acts :
       item'[a][c] = item[a][c] \/ Fell(item, item', a, c) \/ Advanced(a, c)
  /\ OneInFlight => OneInFlight'

\* A run begins with its items staged, queued or skipped.
Started ==
  \E a \in Alerts : \E r \in RunRow : \E plan \in [Acts -> Verdicts] :
    /\ run[a] = Null /\ ~r.cancelled
    /\ seen' = seen \cup {a}
    /\ run' = [run EXCEPT ![a] = r]
    /\ item' = [item EXCEPT ![a] = [c \in Acts |-> Planned(plan[c])]]

\* A run is cancelled and nothing of it stays queued.
Cancelled ==
  \E a \in Alerts :
    /\ run[a] # Null
    /\ run' = [run EXCEPT ![a].cancelled = TRUE] /\ seen' = seen
    /\ Lowered(item, item')
    /\ \A c \in Acts : item'[a][c].state \notin {"PENDING", "AUTHORIZED"}

\* A step that puts nothing new in flight keeps at most one there.
LEMMA FlightKept ==
  ASSUME \A a \in Alerts, c \in Acts :
           item'[a][c] # Null /\ item'[a][c].state \in {"DISPATCHED", "ACCEPTED"} =>
             InFlight(a, c)
  PROVE  OneInFlight => OneInFlight'
BY DEF OneInFlight, InFlight, State

\* Closed work is not in flight.
LEMMA LoweredIsWork ==
  ASSUME Lowered(item, item'), run' = run, seen' = seen
  PROVE  Worked
<1>1. \A a \in Alerts, c \in Acts :
        item'[a][c] # Null /\ item'[a][c].state \in {"DISPATCHED", "ACCEPTED"} => InFlight(a, c)
  BY DEF Lowered, Fell, Closed, InFlight, State
<1> QED BY <1>1, FlightKept DEF Worked, Lowered

\* Table K is J with the state of one item written to s.
Written(J, K, a, c, s) ==
  /\ K \in Table
  /\ K[a][c] \in ItemRow
  /\ K[a][c].decision = item[a][c].decision /\ K[a][c].state = s
  /\ \A b \in Alerts, d \in Acts : b # a \/ d # c =>
       K[b][d] = J[b][d] /\ (K[b][d] = item[b][d] \/ Fell(item, K, b, d))

\* The state of one item is written after a sweep.
LEMMA PutState ==
  ASSUME item \in Table, NEW J, Lowered(item, J), NEW a \in Alerts, NEW c \in Acts,
         item[a][c] # Null, item[a][c].decision # "skip", NEW s \in States
  PROVE  Written(J, [J EXCEPT ![a][c].state = s], a, c, s)
<1> DEFINE K == [J EXCEPT ![a][c].state = s]
<1>1. J \in Table /\ item[a][c] \in ItemRow
  BY DEF Lowered, Table
<1>2. J[a][c] \in ItemRow /\ J[a][c].decision = item[a][c].decision
  BY <1>1 DEF Lowered, Fell
<1>3. K[a][c] = [J[a][c] EXCEPT !.state = s]
  BY <1>1 DEF Table
<1>4. K[a][c] \in ItemRow /\ K[a][c].decision = J[a][c].decision /\ K[a][c].state = s
  BY <1>2, <1>3 DEF ItemRow
<1>5. \A b \in Alerts, d \in Acts : b # a \/ d # c => K[b][d] = J[b][d]
  BY <1>1 DEF Table
<1>6. K = [b \in Alerts |-> [d \in Acts |-> K[b][d]]]
  BY <1>1 DEF Table
<1> HIDE DEF K
<1>7. \A b \in Alerts, d \in Acts : K[b][d] \in ItemRow \cup {Null}
  BY <1>1, <1>4, <1>5 DEF Table
<1>8. K \in Table
  BY <1>6, <1>7 DEF Table
<1>9. ASSUME NEW b \in Alerts, NEW d \in Acts, b # a \/ d # c
      PROVE  K[b][d] = J[b][d] /\ (K[b][d] = item[b][d] \/ Fell(item, K, b, d))
  <2>1. K[b][d] = J[b][d]
    BY <1>5, <1>9
  <2>2. J[b][d] = item[b][d] \/ Fell(item, J, b, d)
    BY DEF Lowered
  <2> QED BY <2>1, <2>2 DEF Fell
<1>10. Written(J, K, a, c, s)
  BY <1>2, <1>4, <1>8, <1>9 DEF Written
<1> QED BY <1>10 DEF K

\* Written as closed, the item is closed.
LEMMA PutClosed ==
  ASSUME item \in Table, NEW J, Lowered(item, J), NEW a \in Alerts, NEW c \in Acts,
         <<a, c>> \in Reserved, NEW s \in Closed, s = "REJECTED" => State(a, c) = "PENDING",
         item' = [J EXCEPT ![a][c].state = s], run' = run, seen' = seen
  PROVE  Worked
<1>1. item[a][c] # Null /\ item[a][c].decision # "skip" /\ s \in States
  BY DEF Reserved, Closed, States
<1>2. Written(J, item', a, c, s)
  BY <1>1, PutState
<1>3. Lowered(item, item')
  BY <1>1, <1>2 DEF Lowered, Fell, Written, State
<1> QED BY <1>3, LoweredIsWork

\* Written as going on, it was not closed by the sweep and the guard allowed it;
\* nothing that was not in flight is.
LEMMA PutAdvanced ==
  ASSUME item \in Table, NEW J, Lowered(item, J), NEW a \in Alerts, NEW c \in Acts,
         <<a, c>> \in Reserved, NEW able, Allowed(a, c, able),
         NEW s \in {"AUTHORIZED", "ACCEPTED"}, State(a, c) \in Live,
         s = "ACCEPTED" => State(a, c) = "DISPATCHED",
         item' = [J EXCEPT ![a][c].state = s], run' = run, seen' = seen
  PROVE  Worked
<1>1. item[a][c] # Null /\ item[a][c].decision # "skip" /\ s \in States
  BY DEF Reserved, States, Live
<1>2. Written(J, item', a, c, s)
  BY <1>1, PutState
<1>3. \A b \in Alerts, d \in Acts :
        item'[b][d] # Null /\ item'[b][d].state \in {"DISPATCHED", "ACCEPTED"} => InFlight(b, d)
  BY <1>1, <1>2 DEF Fell, Closed, InFlight, State, Written
<1>4. \A b \in Alerts, d \in Acts :
        item'[b][d] = item[b][d] \/ Fell(item, item', b, d) \/ Advanced(b, d)
  BY <1>1, <1>2 DEF Advanced, Written
<1> QED BY <1>2, <1>3, <1>4, FlightKept DEF Worked, Written
----------------------------------------------------------------------------
(* Every step is of one of the kinds.                                      *)

\* A poll hands out one item of a run, and only while none is out.
LEMMA PollWorks ==
  ASSUME TriageTyped, NEW h \in Hosts, NEW able \in BOOLEAN, NEW durable \in BOOLEAN,
         Poll(h, able, durable)
  PROVE  Worked
<1> DEFINE I == Reconciled(CommandsSwept, {h})
           queued == {x \in Reserved :
                        /\ HostOf[x[1]] = h
                        /\ able
                        /\ I[x[1]][x[2]].state \in
                             {"AUTHORIZED"} \cup (IF durable THEN {"DISPATCHED"} ELSE {})
                        /\ Dispatchable(I, x, able)}
<1>1. PICK sent \in SUBSET queued :
        /\ \A x, y \in sent : x[1] = y[1] => x = y
        /\ item' = Move(I, sent, "DISPATCHED")
  BY DEF Poll
<1>2. run' = run /\ seen' = seen /\ item \in Table
  BY DEF Poll, TriageTyped
<1>3. \A x \in sent : /\ x \in Reserved /\ Dispatchable(I, x, able)
                      /\ I[x[1]][x[2]].state \in {"AUTHORIZED", "DISPATCHED"}
  <2>1. ({"AUTHORIZED"} \cup (IF durable THEN {"DISPATCHED"} ELSE {}))
          \subseteq {"AUTHORIZED", "DISPATCHED"}
    OBVIOUS
  <2> QED BY <1>1, <2>1
<1>4. Lowered(item, I)
  BY <1>2, SweepsLower
<1> HIDE DEF I, queued
<1>5. \A a \in Alerts, c \in Acts :
        item'[a][c] = IF <<a, c>> \in sent THEN [I[a][c] EXCEPT !.state = "DISPATCHED"]
                      ELSE I[a][c]
  BY <1>1 DEF Move
<1>6. \A a \in Alerts, c \in Acts : I[a][c] = item[a][c] \/ Fell(item, I, a, c)
  BY <1>4 DEF Lowered
<1>7. ASSUME NEW a \in Alerts, NEW c \in Acts, <<a, c>> \in sent
      PROVE  /\ Advanced(a, c)
             /\ \A d \in Acts \ {c} :
                  I[a][d] # Null => I[a][d].state \notin {"DISPATCHED", "ACCEPTED"}
  <2>1. Allowed(a, c, able) /\ <<a, c>> \in Reserved
        /\ I[a][c].state \in {"AUTHORIZED", "DISPATCHED"}
        /\ \A d \in Acts \ {c} :
             I[a][d] # Null => I[a][d].state \notin {"DISPATCHED", "ACCEPTED"}
    BY <1>3, <1>7 DEF Dispatchable
  <2>2. item[a][c] # Null /\ item[a][c].decision # "skip" /\ item[a][c] \in ItemRow
    BY <1>2, <2>1 DEF Reserved, Table
  <2>3. I[a][c] \in ItemRow /\ I[a][c].decision = item[a][c].decision
    BY <1>6, <2>2 DEF Fell
  <2>4. item'[a][c] = [I[a][c] EXCEPT !.state = "DISPATCHED"]
    BY <1>5, <1>7
  <2>5. item'[a][c] \in ItemRow /\ item'[a][c].decision = item[a][c].decision
        /\ item'[a][c].state = "DISPATCHED"
    BY <2>3, <2>4 DEF ItemRow, States, Live
  <2>6. State(a, c) \in Live
    BY <1>6, <2>1 DEF Fell, Closed, State, Live
  <2> QED BY <2>1, <2>2, <2>5, <2>6 DEF Advanced
<1>8. ASSUME NEW a \in Alerts, NEW c \in Acts, <<a, c>> \notin sent
      PROVE  item'[a][c] = I[a][c] /\ (item'[a][c] = item[a][c] \/ Fell(item, item', a, c))
  <2>1. item'[a][c] = I[a][c]
    BY <1>5, <1>8, Zenon
  <2> QED BY <2>1, <1>6 DEF Fell
<1>9. item' \in Table
  <2>1. item' = [a \in Alerts |-> [c \in Acts |-> item'[a][c]]]
    BY <1>1 DEF Move
  <2>2. \A a \in Alerts, c \in Acts : item'[a][c] \in ItemRow \cup {Null}
    <3> SUFFICES ASSUME NEW a \in Alerts, NEW c \in Acts
                 PROVE  item'[a][c] \in ItemRow \cup {Null}
      OBVIOUS
    <3>1. item[a][c] \in ItemRow \cup {Null}
      BY <1>2 DEF Table
    <3>2. CASE <<a, c>> \in sent
      BY <1>7, <3>2 DEF Advanced
    <3>3. CASE <<a, c>> \notin sent
      BY <1>8, <3>1, <3>3 DEF Fell
    <3> QED BY <3>2, <3>3
  <2> QED BY <2>1, <2>2 DEF Table
<1>10. OneInFlight => OneInFlight'
  <2>1. SUFFICES ASSUME OneInFlight, NEW a \in Alerts, NEW c \in Acts, NEW d \in Acts,
                        InFlight(a, c)', InFlight(a, d)', c # d
                 PROVE  FALSE
    BY DEF OneInFlight
  <2>2. CASE <<a, c>> \in sent /\ <<a, d>> \in sent
    BY <1>1, <2>1, <2>2
  <2>3. CASE <<a, c>> \in sent /\ <<a, d>> \notin sent
    BY <1>7, <1>8, <2>1, <2>3 DEF InFlight, State
  <2>4. CASE <<a, c>> \notin sent /\ <<a, d>> \in sent
    BY <1>7, <1>8, <2>1, <2>4 DEF InFlight, State
  <2>5. CASE <<a, c>> \notin sent /\ <<a, d>> \notin sent
    <3>1. InFlight(a, c) /\ InFlight(a, d)
      BY <1>8, <2>1, <2>5 DEF InFlight, State, Fell, Closed
    <3> QED BY <2>1, <3>1 DEF OneInFlight
  <2> QED BY <2>2, <2>3, <2>4, <2>5
<1> QED BY <1>2, <1>7, <1>8, <1>9, <1>10 DEF Worked

\* A cancelled run loses what was staged or queued.
LEMMA CancelRunCancels ==
  ASSUME TriageTyped, Whole, SkipsRest, NEW a \in Alerts, CancelRun(a)
  PROVE  Cancelled
<1> DEFINE X == {x \in Items({"PENDING"}) : x[1] = a}
           Y == {x \in Items({"AUTHORIZED"}) : x[1] = a}
           J == Move(item, X, "REJECTED")
<1>1. item' = Move(J, Y, "CANCELLED") /\ run[a] # Null /\ seen' = seen
      /\ run' = [run EXCEPT ![a].cancelled = TRUE] /\ item \in Table
  BY DEF CancelRun, TriageTyped
<1>2. X \in SUBSET Reserved /\ Y \in SUBSET Reserved
  BY DEF Items
<1>3. \A c \in Acts :
        /\ <<a, c>> \in X <=> <<a, c>> \in Reserved /\ item[a][c].state = "PENDING"
        /\ <<a, c>> \in Y <=> <<a, c>> \in Reserved /\ item[a][c].state = "AUTHORIZED"
  BY DEF Items, State, Reserved
<1> HIDE DEF X, Y
<1>4. Lowered(item, J)
  <2>1. Lowered(item, item)
    BY <1>1, SweepsLower
  <2>2. \A b \in Alerts, c \in Acts : <<b, c>> \in X => item[b][c].state = "PENDING"
    BY DEF X, Items, State
  <2> QED BY <1>1, <1>2, <2>1, <2>2, MoveLowers DEF Closed
<1>5. Lowered(item, Move(J, Y, "CANCELLED"))
  BY <1>1, <1>2, <1>4, MoveLowers DEF Closed
<1>6. ASSUME NEW c \in Acts PROVE item'[a][c].state \notin {"PENDING", "AUTHORIZED"}
  <2>1. item[a][c] \in ItemRow
    BY <1>1 DEF Whole, Table
  <2>2. CASE <<a, c>> \in Reserved
    <3>1. J[a][c] = IF <<a, c>> \in X THEN [item[a][c] EXCEPT !.state = "REJECTED"] ELSE item[a][c]
      BY MoveMeans
    <3>2. item'[a][c] = IF <<a, c>> \in Y THEN [J[a][c] EXCEPT !.state = "CANCELLED"] ELSE J[a][c]
      BY <1>1, MoveMeans
    <3> HIDE DEF J
    <3>3. CASE item[a][c].state = "PENDING"
      BY <1>3, <2>1, <2>2, <3>1, <3>2, <3>3 DEF ItemRow
    <3>4. CASE item[a][c].state = "AUTHORIZED"
      BY <1>3, <2>1, <2>2, <3>1, <3>2, <3>4 DEF ItemRow
    <3>5. CASE item[a][c].state \notin {"PENDING", "AUTHORIZED"}
      BY <1>3, <2>1, <2>2, <3>1, <3>2, <3>5
    <3> QED BY <3>3, <3>4, <3>5
  <2>3. CASE <<a, c>> \notin Reserved
    <3>1. item[a][c].state = "SKIPPED"
      BY <2>1, <2>3, TriageRowsAssumption DEF Reserved, SkipsRest
    <3>2. item'[a][c] = item[a][c]
      BY <1>1, <1>5, <2>3 DEF Lowered, Fell, Reserved
    <3> QED BY <3>1, <3>2
  <2> QED BY <2>2, <2>3
<1> QED BY <1>1, <1>5, <1>6 DEF Cancelled

\* The row of a new run under the policy in force.
NewRun(a) ==
  [version |-> policy[RuleOf[a]].version, terms |-> policy[RuleOf[a]].terms,
   asset |-> asset[HostOf[a]], created |-> now, deadline |-> now + policy[RuleOf[a]].terms.ttl,
   cancelled |-> FALSE, rank |-> Cardinality(OnFile) + 1]

LEMMA NewRunTyped ==
  ASSUME TriageTyped, FewRuns, NEW a \in Alerts, policy[RuleOf[a]].terms # Null
  PROVE  NewRun(a) \in RunRow /\ ~NewRun(a).cancelled
<1> DEFINE p == policy[RuleOf[a]].terms
<1>1. RuleOf[a] \in Rules /\ HostOf[a] \in Hosts
  BY TriageAssumption
<1>2. policy[RuleOf[a]].version \in Nat /\ asset[HostOf[a]] \in [class: Classes, version: Nat]
  BY <1>1 DEF TriageTyped
<1>3. p \in Policies
  BY <1>1 DEF TriageTyped
<1>4. p.ttl \in Nat
  <2> HIDE DEF p
  <2> QED BY <1>3, TriageAssumption DEF PolicyTerms
<1>5. now \in Nat /\ now \in Time
  BY TriageAssumption DEF TriageTyped, Time
<1>6. Cardinality(OnFile) + 1 \in Nat
  BY FS_CardinalityType DEF FewRuns
<1>7. NewRun(a) = [version |-> policy[RuleOf[a]].version, terms |-> p,
                   asset |-> asset[HostOf[a]], created |-> now, deadline |-> now + p.ttl,
                   cancelled |-> FALSE, rank |-> Cardinality(OnFile) + 1]
  BY DEF NewRun
<1> HIDE DEF p
<1>8. now + p.ttl \in Nat
  BY <1>4, <1>5
<1> QED BY <1>2, <1>3, <1>5, <1>6, <1>7, <1>8 DEF RunRow

\* A new alert opens a whole run or none.
LEMMA StartStarts ==
  ASSUME TriageTyped, Whole, FewRuns, NEW a \in Alerts, NEW ok \in BOOLEAN, Start(a, ok)
  PROVE  Worked \/ Started
<1>1. CASE UNCHANGED <<run, item>>
  <2>1. seen \subseteq seen'
    BY DEF Start
  <2> QED BY <1>1, <2>1 DEF Worked, TriageTyped, OneInFlight, InFlight, State
<1>2. CASE ~UNCHANGED <<run, item>>
  <2>1. a \notin seen /\ seen' = seen \cup {a}
    BY DEF Start
  <2>2. PICK plan \in [Acts -> Verdicts] :
          /\ run' = [run EXCEPT ![a] = NewRun(a)]
          /\ item' = [item EXCEPT ![a] = [c \in Acts |-> Planned(plan[c])]]
    BY <1>2 DEF Start, NewRun
  <2>3. policy[RuleOf[a]].terms # Null
    BY <1>2 DEF Start
  <2>4. run[a] = Null
    BY <2>1 DEF Whole
  <2>5. NewRun(a) \in RunRow /\ ~NewRun(a).cancelled
    BY <2>3, NewRunTyped
  <2> QED BY <2>1, <2>2, <2>4, <2>5 DEF Started
<1> QED BY <1>1, <1>2

\* One decision or answer about an item works on it.
LEMMA ItemStepWorks ==
  ASSUME TriageTyped, NEW a \in Alerts, NEW c \in Acts,
         Authorize(a, c) \/ Reject(a, c) \/ Cancel(a, c) \/ Accept(a, c) \/ Finish(a, c)
  PROVE  Worked
<1>1. item \in Table /\ run' = run /\ seen' = seen
  BY DEF TriageTyped, Authorize, Reject, Cancel, Accept, Finish
<1>2. Lowered(item, CommandsSwept) /\ Lowered(item, ResponsesSwept)
  BY <1>1, SweepsLower
<1>3. <<a, c>> \in Reserved
  BY DEF Authorize, Reject, Cancel, Accept, Finish, Items
<1>4. CASE Authorize(a, c)
  <2>1. /\ Allowed(a, c, capable[HostOf[a]])
        /\ item' = [ResponsesSwept EXCEPT ![a][c].state = "AUTHORIZED"]
        /\ State(a, c) \in Live
    BY <1>4 DEF Authorize, Items, Live
  <2> QED BY <1>1, <1>2, <1>3, <2>1, PutAdvanced
<1>5. CASE Reject(a, c)
  <2>1. item' = [ResponsesSwept EXCEPT ![a][c].state = "REJECTED"] /\ State(a, c) = "PENDING"
    BY <1>5 DEF Reject, Items
  <2> QED BY <1>1, <1>2, <1>3, <2>1, PutClosed DEF Closed
<1>6. CASE Cancel(a, c)
  <2>1. item' = [CommandsSwept EXCEPT ![a][c].state = "CANCELLED"]
    BY <1>6 DEF Cancel
  <2> QED BY <1>1, <1>2, <1>3, <2>1, PutClosed DEF Closed
<1>7. CASE Accept(a, c)
  <2>1. State(a, c) = "DISPATCHED" /\ State(a, c) \in Live
    BY <1>7 DEF Accept, Items, Live
  <2>2. CASE item' = CommandsSwept
    BY <1>1, <1>2, <2>2, LoweredIsWork
  <2>3. CASE item' # CommandsSwept
    <3>1. /\ Allowed(a, c, capable[HostOf[a]])
          /\ item' = [CommandsSwept EXCEPT ![a][c].state = "ACCEPTED"]
      BY <1>7, <2>3 DEF Accept
    <3> QED BY <1>1, <1>2, <1>3, <2>1, <3>1, PutAdvanced
  <2> QED BY <2>2, <2>3
<1>8. CASE Finish(a, c)
  <2>1. CASE item' = CommandsSwept
    BY <1>1, <1>2, <2>1, LoweredIsWork
  <2>2. CASE item' # CommandsSwept
    <3>1. item' = [CommandsSwept EXCEPT ![a][c].state = "DONE"]
      BY <1>8, <2>2 DEF Finish
    <3> QED BY <1>1, <1>2, <1>3, <3>1, PutClosed DEF Closed
  <2> QED BY <2>1, <2>2
<1> QED BY <1>4, <1>5, <1>6, <1>7, <1>8

\* Every step works on items, begins a run or cancels one.
LEMMA StepSplit ==
  ASSUME TriageTyped, Whole, SkipsRest, FewRuns, [Next]_vars
  PROVE  Worked \/ Started \/ Cancelled
<1>1. item \in Table
  BY DEF TriageTyped
<1>2. ASSUME UNCHANGED <<run, item, seen>> PROVE Worked
  BY <1>1, <1>2, SweepsLower, LoweredIsWork
<1>3. CASE ReadRuns \/ ReadQueue
  <2>1. Lowered(item, item') /\ run' = run /\ seen' = seen
    BY <1>1, <1>3, SweepsLower DEF ReadRuns, ReadQueue
  <2> QED BY <2>1, LoweredIsWork
<1>4. CASE \E a \in Alerts, c \in Acts :
             Authorize(a, c) \/ Reject(a, c) \/ Cancel(a, c) \/ Accept(a, c) \/ Finish(a, c)
  BY <1>4, ItemStepWorks
<1>5. CASE \E h \in Hosts, able, durable \in BOOLEAN : Poll(h, able, durable)
  BY <1>5, PollWorks
<1>6. CASE \E a \in Alerts, ok \in BOOLEAN : Start(a, ok)
  BY <1>6, StartStarts
<1>7. CASE \E a \in Alerts : CancelRun(a)
  BY <1>7, CancelRunCancels
<1>8. CASE Tick \/ UNCHANGED vars
  BY <1>2, <1>8 DEF Tick, vars
<1>9. CASE \E q \in Requests, r \in Rules, p \in Policies, v \in 0..Cardinality(Requests) :
             SavePolicy(q, r, p, v)
  BY <1>2, <1>9 DEF SavePolicy
<1>10. CASE \E q \in Requests, h \in Hosts, k \in Labels, v \in 0..Cardinality(Requests) :
              SaveAsset(q, h, k, v)
  BY <1>2, <1>10 DEF SaveAsset
<1> QED BY <1>3, <1>4, <1>5, <1>6, <1>7, <1>8, <1>9, <1>10 DEF Next

\* The clock, the policies and the classifications keep their types.
LEMMA SettingsTyped ==
  ASSUME TriageTyped, [Next]_vars
  PROVE  /\ now' \in Time
         /\ asset' \in [Hosts -> [class: Classes, version: Nat]]
         /\ policy' \in [Rules -> [version: Nat, terms: Policies \cup {Null}]]
<1>1. CASE Tick
  BY <1>1, TriageAssumption DEF Tick, TriageTyped, Time
<1>2. ASSUME NEW q \in Requests, NEW r \in Rules, NEW p \in Policies, NEW v, SavePolicy(q, r, p, v)
      PROVE  policy' \in [Rules -> [version: Nat, terms: Policies \cup {Null}]]
             /\ now' = now /\ asset' = asset
  <2>1. policy[r].version \in Nat /\ policy[r].version = v
    BY <1>2 DEF TriageTyped, SavePolicy
  <2>2. [version |-> v + 1, terms |-> p] \in [version: Nat, terms: Policies \cup {Null}]
    BY <2>1
  <2> QED BY <1>2, <2>2 DEF TriageTyped, SavePolicy
<1>3. ASSUME NEW q \in Requests, NEW h \in Hosts, NEW k \in Labels, NEW v, SaveAsset(q, h, k, v)
      PROVE  asset' \in [Hosts -> [class: Classes, version: Nat]]
             /\ now' = now /\ policy' = policy
  <2>1. asset[h].version \in Nat /\ asset[h].version = v
    BY <1>3 DEF TriageTyped, SaveAsset
  <2>2. [class |-> k, version |-> v + 1] \in [class: Classes, version: Nat]
    BY <2>1, TriageAssumption
  <2> QED BY <1>3, <2>2 DEF TriageTyped, SaveAsset
<1>4. CASE UNCHANGED <<now, asset, policy>>
  BY <1>4 DEF TriageTyped
<1>5. (\E a \in Alerts, ok \in BOOLEAN : Start(a, ok)) => UNCHANGED <<now, asset, policy>>
  BY DEF Start
<1>6. (\E h \in Hosts, able, durable \in BOOLEAN : Poll(h, able, durable))
      => UNCHANGED <<now, asset, policy>>
  BY DEF Poll
<1> QED
  BY <1>1, <1>2, <1>3, <1>4, <1>5, <1>6
  DEF Next, vars, TriageTyped, Authorize, Reject, Cancel, Accept, Finish, CancelRun, ReadRuns, ReadQueue
----------------------------------------------------------------------------
(* The invariant is inductive.                                             *)

\* What the runs and their items satisfy.
TableInv ==
  /\ run \in [Alerts -> RunRow \cup {Null}] /\ item \in Table
  /\ Whole /\ SkipsRest /\ CancelledIsIdle /\ OneInFlight

\* Going on is not for a cancelled run.
LEMMA AllowedMeans ==
  ASSUME NEW a, NEW c, NEW able, Allowed(a, c, able)
  PROVE  ~run[a].cancelled
BY DEF Allowed, Void

LEMMA WorkedKeeps ==
  ASSUME TableInv, Worked
  PROVE  TableInv'
<1>1. run' = run /\ item' \in Table /\ seen \subseteq seen' /\ OneInFlight'
  BY DEF Worked, TableInv
<1>2. ASSUME NEW a \in Alerts, NEW c \in Acts
      PROVE  /\ item'[a][c] = Null <=> item[a][c] = Null
             /\ item'[a][c] # Null /\ item'[a][c].decision = "skip" =>
                  item'[a][c].state = "SKIPPED"
             /\ run[a] # Null /\ run[a].cancelled =>
                  item'[a][c].state \notin {"PENDING", "AUTHORIZED"}
  <2>1. CASE item'[a][c] = item[a][c]
    BY <2>1 DEF TableInv, SkipsRest, CancelledIsIdle
  <2>2. CASE Fell(item, item', a, c)
    BY <2>2, TriageRowsAssumption DEF Fell, Closed
  <2>3. CASE Advanced(a, c)
    BY <2>3, AllowedMeans, TriageRowsAssumption DEF Advanced
  <2> QED BY <2>1, <2>2, <2>3 DEF Worked
<1>3. Whole'
  BY <1>1, <1>2 DEF TableInv, Whole
<1>4. SkipsRest' /\ CancelledIsIdle'
  BY <1>1, <1>2 DEF SkipsRest, CancelledIsIdle
<1> QED BY <1>1, <1>3, <1>4 DEF TableInv

\* A planned item is a row that is not in flight.
LEMMA PlannedMeans ==
  ASSUME NEW d \in Verdicts
  PROVE  /\ Planned(d) \in ItemRow /\ Planned(d) # Null
         /\ Planned(d).decision = "skip" => Planned(d).state = "SKIPPED"
         /\ Planned(d).state \in {"SKIPPED", "PENDING", "AUTHORIZED"}
         /\ Planned(d).decision = d
         /\ d = "auto_dispatch" => Planned(d).state = "AUTHORIZED"
<1>1. d = "skip" \/ d = "require_approval" \/ d = "auto_dispatch"
  BY DEF Verdicts
<1>2. Planned(d).decision = d /\ Planned(d).state \in {"SKIPPED", "PENDING", "AUTHORIZED"}
      /\ (d = "skip" => Planned(d).state = "SKIPPED")
      /\ (d = "auto_dispatch" => Planned(d).state = "AUTHORIZED")
  BY <1>1 DEF Planned
<1>3. Planned(d) \in ItemRow
  BY <1>1 DEF Planned, ItemRow, Verdicts, States, Live
<1> QED BY <1>2, <1>3, TriageRowsAssumption

LEMMA StartedKeeps ==
  ASSUME TableInv, Started
  PROVE  TableInv'
<1>1. PICK a \in Alerts : \E r \in RunRow : \E plan \in [Acts -> Verdicts] :
        /\ run[a] = Null /\ ~r.cancelled
        /\ seen' = seen \cup {a}
        /\ run' = [run EXCEPT ![a] = r]
        /\ item' = [item EXCEPT ![a] = [c \in Acts |-> Planned(plan[c])]]
  BY DEF Started
<1>2. PICK r \in RunRow, plan \in [Acts -> Verdicts] :
        /\ run[a] = Null /\ ~r.cancelled
        /\ seen' = seen \cup {a}
        /\ run' = [run EXCEPT ![a] = r]
        /\ item' = [item EXCEPT ![a] = [c \in Acts |-> Planned(plan[c])]]
  BY <1>1
<1>3. \A c \in Acts : plan[c] \in Verdicts
  OBVIOUS
<1>4. [c \in Acts |-> Planned(plan[c])] \in [Acts -> ItemRow \cup {Null}]
  BY <1>3, PlannedMeans
<1>5. run' \in [Alerts -> RunRow \cup {Null}] /\ item' \in Table
  BY <1>2, <1>4 DEF TableInv, Table
<1>6. \A b \in Alerts : b # a => run'[b] = run[b] /\ item'[b] = item[b]
  BY <1>2 DEF TableInv, Table
<1>7. run'[a] = r /\ \A c \in Acts : item'[a][c] = Planned(plan[c])
  BY <1>2 DEF TableInv, Table
<1>8. \A c \in Acts :
        /\ item'[a][c] # Null
        /\ item'[a][c].decision = "skip" => item'[a][c].state = "SKIPPED"
        /\ item'[a][c].state \in {"SKIPPED", "PENDING", "AUTHORIZED"}
  BY <1>3, <1>7, PlannedMeans
<1>9. Whole'
  <2> SUFFICES ASSUME NEW b \in Alerts
               PROVE  /\ run'[b] # Null => b \in seen'
                      /\ \A c \in Acts : item'[b][c] = Null <=> run'[b] = Null
    BY DEF Whole
  <2>1. CASE b = a
    <3>1. run'[a] # Null /\ a \in seen'
      BY <1>2, <1>7, TriageRowsAssumption
    <3> QED BY <1>8, <2>1, <3>1
  <2>2. CASE b # a
    BY <1>2, <1>6, <2>2 DEF TableInv, Whole
  <2> QED BY <2>1, <2>2
<1>10. SkipsRest' /\ CancelledIsIdle'
  BY <1>2, <1>6, <1>7, <1>8 DEF TableInv, SkipsRest, CancelledIsIdle
<1>11. OneInFlight'
  <2>1. ASSUME NEW b \in Alerts, NEW c \in Acts, NEW d \in Acts,
               InFlight(b, c)', InFlight(b, d)'
        PROVE  c = d
    <3>1. b # a
      <4>1. item'[b][c].state \in {"DISPATCHED", "ACCEPTED"}
        BY <2>1 DEF InFlight, State
      <4>2. item'[a][c].state \notin {"DISPATCHED", "ACCEPTED"}
        BY <1>8
      <4> QED BY <4>1, <4>2, Zenon
    <3>2. InFlight(b, c) /\ InFlight(b, d)
      BY <1>6, <2>1, <3>1 DEF InFlight, State
    <3> QED BY <3>2 DEF TableInv, OneInFlight
  <2> QED BY <2>1 DEF OneInFlight
<1> QED BY <1>5, <1>9, <1>10, <1>11 DEF TableInv

LEMMA CancelledKeeps ==
  ASSUME TableInv, Cancelled
  PROVE  TableInv'
<1>1. PICK a \in Alerts :
        /\ run[a] # Null
        /\ run' = [run EXCEPT ![a].cancelled = TRUE] /\ seen' = seen
        /\ Lowered(item, item')
        /\ \A c \in Acts : item'[a][c].state \notin {"PENDING", "AUTHORIZED"}
  BY DEF Cancelled
<1>2. run[a] \in RunRow
  BY <1>1 DEF TableInv
<1>3. run'[a] = [run[a] EXCEPT !.cancelled = TRUE] /\ \A b \in Alerts : b # a => run'[b] = run[b]
  BY <1>1 DEF TableInv
<1>4. run'[a] \in RunRow
  BY <1>2, <1>3 DEF RunRow
<1>5. run' \in [Alerts -> RunRow \cup {Null}]
  BY <1>1, <1>3, <1>4 DEF TableInv
<1>6. \A b \in Alerts : run'[b] = Null <=> run[b] = Null
  BY <1>1, <1>3, <1>4, TriageRowsAssumption
<1>7. \A b \in Alerts, c \in Acts : item'[b][c] = item[b][c] \/ Fell(item, item', b, c)
  BY <1>1 DEF Lowered
<1>8. \A b \in Alerts, c \in Acts : item'[b][c] = Null <=> item[b][c] = Null
  BY <1>7, TriageRowsAssumption DEF Fell
<1>9. Whole'
  BY <1>1, <1>6, <1>8 DEF TableInv, Whole
<1>10. SkipsRest'
  BY <1>7 DEF TableInv, SkipsRest, Fell
<1>11. CancelledIsIdle'
  <2> SUFFICES ASSUME NEW b \in Alerts, NEW c \in Acts, run'[b] # Null, run'[b].cancelled
               PROVE  item'[b][c].state \notin {"PENDING", "AUTHORIZED"}
    BY DEF CancelledIsIdle
  <2>1. CASE b = a
    BY <1>1, <2>1
  <2>2. CASE b # a
    BY <1>3, <1>7, <2>2 DEF TableInv, CancelledIsIdle, Fell, Closed
  <2> QED BY <2>1, <2>2
<1>12. OneInFlight'
  <2>1. \A b \in Alerts, c \in Acts :
          item'[b][c] # Null /\ item'[b][c].state \in {"DISPATCHED", "ACCEPTED"} => InFlight(b, c)
    BY <1>7 DEF Fell, Closed, InFlight, State
  <2> QED BY <2>1, FlightKept DEF TableInv
<1> QED BY <1>1, <1>5, <1>9, <1>10, <1>11, <1>12 DEF TableInv, Lowered

\* A step adds at most one run to the file.
LEMMA FewRunsKept ==
  ASSUME TableInv, FewRuns, Worked \/ Started \/ Cancelled
  PROVE  FewRuns'
<1>1. \E a \in Alerts \cup {Null} : OnFile' \subseteq OnFile \cup {a}
  <2>1. CASE Worked
    BY <2>1 DEF Worked, OnFile
  <2>2. CASE Started
    BY <2>2 DEF Started, OnFile, TableInv
  <2>3. CASE Cancelled
    <3>1. PICK b \in Alerts : run[b] # Null /\ run' = [run EXCEPT ![b].cancelled = TRUE]
      BY <2>3 DEF Cancelled
    <3> QED BY <3>1 DEF OnFile, TableInv
  <2> QED BY <2>1, <2>2, <2>3
<1>2. PICK a : OnFile' \subseteq OnFile \cup {a}
  BY <1>1
<1>3. IsFiniteSet(OnFile \cup {a})
  BY FS_AddElement DEF FewRuns
<1> QED BY <1>2, <1>3, FS_Subset DEF FewRuns

LEMMA InitInv == Init => Inv
<1> SUFFICES ASSUME Init PROVE Inv
  OBVIOUS
<1>1. TriageTyped
  BY TriageAssumption DEF Init, TriageTyped, Table, Time, Classes
<1>2. Whole
  BY DEF Init, Whole
<1>3. SkipsRest /\ CancelledIsIdle /\ OneInFlight
  BY DEF Init, SkipsRest, CancelledIsIdle, OneInFlight, InFlight
<1>4. FewRuns
  <2>1. OnFile = {}
    BY DEF Init, OnFile
  <2> QED BY <2>1, FS_EmptySet DEF FewRuns
<1> QED BY <1>1, <1>2, <1>3, <1>4 DEF Inv

LEMMA StepInv == Inv /\ [Next]_vars => Inv'
<1> SUFFICES ASSUME Inv, [Next]_vars PROVE Inv'
  OBVIOUS
<1>1. TableInv
  BY DEF Inv, TableInv, TriageTyped
<1>2. Worked \/ Started \/ Cancelled
  BY StepSplit DEF Inv
<1>3. TableInv'
  BY <1>1, <1>2, WorkedKeeps, StartedKeeps, CancelledKeeps
<1>4. TriageTyped'
  BY <1>3, SettingsTyped DEF Inv, TriageTyped, TableInv
<1>5. FewRuns'
  BY <1>1, <1>2, FewRunsKept DEF Inv
<1> QED BY <1>3, <1>4, <1>5 DEF Inv, TableInv

LEMMA AlwaysInv == Spec => []Inv
BY InitInv, StepInv, PTL DEF Spec

----------------------------------------------------------------------------
(* What the invariant is for.                                              *)

\* At most one collection of an alert is out at an endpoint at any time
\* (dispatchable and the one item a poll hands out of a run).
THEOREM OneInFlightHolds == Spec => []OneInFlight
<1>1. Inv => OneInFlight
  BY DEF Inv
<1> QED BY <1>1, AlwaysInv, PTL

\* Nothing of a cancelled run is queued, handed out or allowed to start
\* (cancel_run empties the queue, guard refuses the rest).
THEOREM CancelledRunIsQuietHolds == Spec => CancelledRunIsQuiet
<1> DEFINE Q == \A a \in Alerts :
                  run[a] # Null /\ run[a].cancelled =>
                    \A c \in Acts :
                      /\ item'[a][c].state \notin {"PENDING", "AUTHORIZED"}
                      /\ item'[a][c].state \in {"DISPATCHED", "ACCEPTED"} =>
                           item'[a][c].state = State(a, c)
<1>1. Inv /\ [Next]_vars => Q
  <2> SUFFICES ASSUME Inv, [Next]_vars, NEW a \in Alerts, run[a] # Null, run[a].cancelled,
                      NEW c \in Acts
               PROVE  /\ item'[a][c].state \notin {"PENDING", "AUTHORIZED"}
                      /\ item'[a][c].state \in {"DISPATCHED", "ACCEPTED"} =>
                           item'[a][c].state = State(a, c)
    OBVIOUS
  <2>1. Worked \/ Started \/ Cancelled
    BY StepSplit DEF Inv
  <2>2. item'[a][c] = item[a][c] \/ Fell(item, item', a, c)
    <3>1. CASE Worked
      BY <3>1, AllowedMeans DEF Worked, Advanced
    <3>2. CASE Started
      BY <3>2 DEF Started, Inv, TriageTyped, Table
    <3>3. CASE Cancelled
      BY <3>3 DEF Cancelled, Lowered
    <3> QED BY <2>1, <3>1, <3>2, <3>3
  <2>3. item[a][c].state \notin {"PENDING", "AUTHORIZED"}
    BY DEF Inv, CancelledIsIdle
  <2> QED BY <2>2, <2>3 DEF Fell, Closed, State
<1>2. Inv /\ [Next]_vars => [Q]_vars
  BY <1>1
<1> HIDE DEF Q
<1>3. Spec => [][Q]_vars
  BY <1>2, AlwaysInv, PTL DEF Spec
<1> QED BY <1>3 DEF CancelledRunIsQuiet, Q

\* Permission to start rests on the run, the policy and the classification
\* in force at that step (guard, again at acceptance).
THEOREM PermissionIsFreshHolds == Spec => PermissionIsFresh
<1> DEFINE Q == \A a \in Alerts, c \in Acts :
                  item'[a][c] # Null /\ item'[a][c].state = "ACCEPTED" /\ State(a, c) # "ACCEPTED" =>
                    /\ now < run[a].deadline /\ ~run[a].cancelled
                    /\ policy[RuleOf[a]].version = run[a].version
                    /\ policy[RuleOf[a]].terms.says[c] # "skip"
                    /\ asset[HostOf[a]].class # "standard" => item[a][c].decision = "require_approval"
<1>1. Inv /\ [Next]_vars => Q
  <2> SUFFICES ASSUME Inv, [Next]_vars, NEW a \in Alerts, NEW c \in Acts,
                      item'[a][c] # Null, item'[a][c].state = "ACCEPTED", State(a, c) # "ACCEPTED"
               PROVE  /\ now < run[a].deadline /\ ~run[a].cancelled
                      /\ policy[RuleOf[a]].version = run[a].version
                      /\ policy[RuleOf[a]].terms.says[c] # "skip"
                      /\ asset[HostOf[a]].class # "standard" => item[a][c].decision = "require_approval"
    OBVIOUS
  <2>1. Worked \/ Started \/ Cancelled
    BY StepSplit DEF Inv
  <2>2. item'[a][c] # item[a][c] /\ ~Fell(item, item', a, c)
    BY DEF State, Fell, Closed
  <2>3. Advanced(a, c)
    <3>1. CASE Worked
      BY <2>2, <3>1 DEF Worked
    <3>2. CASE Started
      <4>1. PICK b \in Alerts : \E plan \in [Acts -> Verdicts] :
              item' = [item EXCEPT ![b] = [d \in Acts |-> Planned(plan[d])]]
        BY <3>2 DEF Started
      <4>2. PICK plan \in [Acts -> Verdicts] :
              item' = [item EXCEPT ![b] = [d \in Acts |-> Planned(plan[d])]]
        BY <4>1
      <4>3. b = a
        BY <2>2, <4>2 DEF Inv, TriageTyped, Table
      <4>4. item'[a][c] = Planned(plan[c]) /\ plan[c] \in Verdicts
        BY <4>2, <4>3 DEF Inv, TriageTyped, Table
      <4> QED BY <4>4, PlannedMeans
    <3>3. CASE Cancelled
      BY <2>2, <3>3 DEF Cancelled, Lowered
    <3> QED BY <2>1, <3>1, <3>2, <3>3
  <2>4. PICK able : Allowed(a, c, able)
    BY <2>3 DEF Advanced
  <2>5. item[a][c] # Null /\ item[a][c].decision # "skip"
    BY <2>3 DEF Advanced
  <2>6. run[a] \in RunRow
    BY <2>5 DEF Inv, Whole, TriageTyped
  <2>7. now < run[a].deadline
    <3>1. ~(run[a].deadline <= now)
      BY <2>4 DEF Allowed, Void
    <3>2. run[a].deadline \in Nat /\ now \in Nat
      BY <2>6, TriageAssumption DEF RunRow, Inv, TriageTyped, Time
    <3> QED BY <3>1, <3>2
  <2>8. ~run[a].cancelled /\ policy[RuleOf[a]].version = run[a].version
        /\ asset[HostOf[a]] = run[a].asset
    BY <2>4 DEF Allowed, Void
  <2>9. Evaluate(policy[RuleOf[a]].terms, c, run[a].asset.class, able,
                 Usage(a, {<<a, c>>}, policy[RuleOf[a]].terms)) = item[a][c].decision
    BY <2>4 DEF Allowed
  <2>10. policy[RuleOf[a]].terms.says[c] # "skip"
    BY <2>5, <2>9 DEF Evaluate
  <2>11. run[a].asset.class # "standard" => item[a][c].decision = "require_approval"
    BY <2>5, <2>9 DEF Evaluate
  <2> QED BY <2>7, <2>8, <2>10, <2>11
<1>2. Inv /\ [Next]_vars => [Q]_vars
  BY <1>1
<1> HIDE DEF Q
<1>3. Spec => [][Q]_vars
  BY <1>2, AlwaysInv, PTL DEF Spec
<1> QED BY <1>3 DEF PermissionIsFresh, Q

----------------------------------------------------------------------------
(* The budgets.  Only a new run reserves; every other step leaves the      *)
(* reservations as they are and can only take work out of the live set.    *)
(* Every run is held to its own revision's limits together with the runs   *)
(* that were on file before it; later ones are not its concern.            *)

\* What a run decided to send was never staged for approval.
SentIsNotStaged ==
  \A a \in Alerts, c \in Acts :
    item[a][c] # Null /\ item[a][c].decision = "auto_dispatch" =>
      item[a][c].state \notin {"PENDING", "REJECTED"}

\* Runs are numbered as they are filed, none in the future.
Ranked ==
  \A a \in Alerts :
    run[a] # Null => run[a].rank \in 1..Cardinality(OnFile) /\ run[a].created <= now

\* The reservations usage counts now.
OfAlert(a) == {x \in Reserved : x[1] = a}
Kept(a, Own, p) == {x \in OfAlert(a) \ Own : InWindow(x[1], p.window) \/ IsLive(x)}
WindowOf(h, p) == {x \in Reserved : HostOf[x[1]] = h /\ InWindow(x[1], p.window)}
LiveRows == {x \in Reserved : IsLive(x)}
LiveOf(h) == {x \in LiveRows : HostOf[x[1]] = h}

\* Those that were counted when run a was filed, and are still live.
WindowUpto(a) ==
  {y \in Upto(a) : /\ HostOf[y[1]] = HostOf[a]
                   /\ run[y[1]].created >= run[a].created - run[a].terms.window}
LiveUpto(a) == {y \in Upto(a) : IsLive(y)}
HostUpto(a) == {y \in Upto(a) : HostOf[y[1]] = HostOf[a] /\ IsLive(y)}

\* Run a within the limits of its own revision.
Within(a) ==
  /\ Cardinality(OfAlert(a)) <= run[a].terms.perAlert
  /\ Cardinality(WindowUpto(a)) <= run[a].terms.perWindow
  /\ Cardinality(HostUpto(a)) <= run[a].terms.perEndpoint
  /\ Cardinality(LiveUpto(a)) <= run[a].terms.global

Counted == \A x \in Reserved : Within(x[1])

PlanInv == Inv /\ TypeOK /\ SentIsNotStaged /\ Ranked /\ Counted

\* There are finitely many collection actions, so finitely many reservations.
LEMMA ActsFinite == IsFiniteSet(Acts)
<1>1. Len(Actions) \in Nat /\ Actions \in [1..Len(Actions) -> Acts]
  BY TriageAssumption
<1>2. Actions \in Surjection(1..Len(Actions), Acts)
  BY <1>1 DEF Surjection, Acts
<1>3. IsFiniteSet(1..Len(Actions))
  BY <1>1, FS_Interval
<1> QED BY <1>2, <1>3, FS_Surjection

LEMMA ReservedFinite ==
  ASSUME Whole, FewRuns
  PROVE  IsFiniteSet(Reserved)
<1>1. Reserved \in SUBSET (OnFile \X Acts)
  BY DEF Whole, Reserved, OnFile
<1>2. IsFiniteSet(OnFile \X Acts)
  BY ActsFinite, FS_Product DEF FewRuns
<1> QED BY <1>1, <1>2, FS_Subset

\* What usage counts when nothing is left out, and when one live item is.
LEMMA UsageMeans ==
  \A a, Own, p :
         /\ DOMAIN Usage(a, Own, p) = {"alert", "window", "endpoint", "global"}
         /\ Usage(a, Own, p).alert = Cardinality(Kept(a, Own, p))
         /\ Usage(a, Own, p).window = Cardinality(WindowOf(HostOf[a], p) \ Own)
         /\ Usage(a, Own, p).endpoint = Cardinality(LiveOf(HostOf[a]) \ Own)
         /\ Usage(a, Own, p).global = Cardinality(LiveRows \ Own)
<1> TAKE a, Own, p
<1> DEFINE rows == {x \in Reserved \ Own : InWindow(x[1], p.window) \/ IsLive(x)}
           live == {x \in rows : IsLive(x)}
<1>1. Usage(a, Own, p) =
        [alert    |-> Cardinality({x \in rows : x[1] = a}),
         window   |-> Cardinality({x \in rows : HostOf[x[1]] = HostOf[a]
                                                /\ InWindow(x[1], p.window)}),
         endpoint |-> Cardinality({x \in live : HostOf[x[1]] = HostOf[a]}),
         global   |-> Cardinality(live)]
  BY DEF Usage
<1>2. {x \in rows : x[1] = a} = Kept(a, Own, p)
  BY DEF OfAlert, Kept
<1>3. {x \in rows : HostOf[x[1]] = HostOf[a] /\ InWindow(x[1], p.window)} = WindowOf(HostOf[a], p) \ Own
  BY DEF WindowOf
<1>4. live = LiveRows \ Own
  BY DEF LiveRows
<1>5. {x \in live : HostOf[x[1]] = HostOf[a]} = LiveOf(HostOf[a]) \ Own
  BY DEF LiveRows, LiveOf
<1> DEFINE A == Cardinality(Kept(a, Own, p))
           W == Cardinality(WindowOf(HostOf[a], p) \ Own)
           E == Cardinality(LiveOf(HostOf[a]) \ Own)
           G == Cardinality(LiveRows \ Own)
<1>6. Usage(a, Own, p) = [alert |-> A, window |-> W, endpoint |-> E, global |-> G]
  <2> HIDE DEF rows, live
  <2> QED BY <1>1, <1>2, <1>3, <1>4, <1>5
<1>7. /\ DOMAIN Usage(a, Own, p) = {"alert", "window", "endpoint", "global"}
      /\ Usage(a, Own, p).alert = A /\ Usage(a, Own, p).window = W
      /\ Usage(a, Own, p).endpoint = E /\ Usage(a, Own, p).global = G
  <2> HIDE DEF A, W, E, G
  <2> QED BY <1>6
<1> QED BY <1>7

\* The last of some of the first n numbers.
LEMMA LastOf ==
  ASSUME NEW n \in Nat, NEW K \in SUBSET (1..n), K # {}
  PROVE  \E m \in K : \A j \in K : j <= m
<1> DEFINE T == {b \in Nat : \A j \in K : j <= b}
<1>1. n \in T /\ T \subseteq Nat
  OBVIOUS
<1>2. PICK m \in T : \A b \in T : ~(<<b, m>> \in OpToRel(<, Nat))
  <2>1. T # {}
    BY <1>1
  <2> HIDE DEF T
  <2> QED BY <1>1, <2>1, NatLessThanWellFounded, WFMin
<1>3. \A b \in T : ~(b < m)
  BY <1>1, <1>2 DEF OpToRel
<1>4. m \in K
  <2> SUFFICES ASSUME m \notin K PROVE FALSE
    OBVIOUS
  <2>1. \A j \in K : j \in 1..n /\ j <= m /\ j # m
    OBVIOUS
  <2>2. PICK j \in K : j \in 1..n /\ j <= m /\ j # m
    BY <2>1
  <2>4. m \in Nat /\ m - 1 \in Nat
    BY <1>1, <2>2
  <2>5. \A i \in K : i <= m - 1
    <3> HIDE DEF T
    <3> QED BY <2>1, <2>4
  <2>3. m - 1 \in T
    BY <2>4, <2>5
  <2> HIDE DEF T
  <2> QED BY <1>1, <1>3, <2>3
<1> QED BY <1>4

\* The items a plan reserves.
Takes(a, plan) == {x \in {a} \X Acts : plan[x[2]] # "skip"}

\* A plan that takes something leaves every budget kept: the last item it
\* takes was affordable after all the others.
LEMMA PlanFits ==
  ASSUME NEW a \in Alerts, NEW plan \in [Acts -> Verdicts], IsPlan(a, plan),
         Takes(a, plan) # {}
  PROVE  /\ IsFiniteSet(Takes(a, plan))
         /\ LET p == policy[RuleOf[a]].terms
            IN \E n \in Nat : /\ Cardinality(Takes(a, plan)) <= n + 1
                              /\ Affordable(Plus(Usage(a, {}, p), n), p)
<1> DEFINE p == policy[RuleOf[a]].terms
           K == {j \in 1..Len(Actions) : plan[Actions[j]] # "skip"}
           f == [j \in K |-> <<a, Actions[j]>>]
<1>1. Len(Actions) \in Nat /\ Acts = {Actions[i] : i \in 1..Len(Actions)}
  BY TriageAssumption DEF Acts
<1>2. IsFiniteSet(K)
  <2>1. IsFiniteSet(1..Len(Actions)) /\ K \in SUBSET (1..Len(Actions))
    BY <1>1, FS_Interval
  <2> QED BY <2>1, FS_Subset
<1>3. f \in Surjection(K, Takes(a, plan))
  <2>1. \A j \in K : f[j] \in Takes(a, plan)
    BY <1>1 DEF Takes
  <2>2. \A x \in Takes(a, plan) : \E j \in K : f[j] = x
    <3> SUFFICES ASSUME NEW x \in Takes(a, plan) PROVE \E j \in K : f[j] = x
      OBVIOUS
    <3>1. x = <<a, x[2]>> /\ x[2] \in Acts /\ plan[x[2]] # "skip"
      BY DEF Takes
    <3>2. PICK j \in 1..Len(Actions) : x[2] = Actions[j]
      BY <1>1, <3>1
    <3>3. j \in K /\ f[j] = x
      BY <3>1, <3>2
    <3> QED BY <3>3
  <2>3. f \in [K -> Takes(a, plan)]
    BY <2>1
  <2> HIDE DEF f, K
  <2> QED BY <2>2, <2>3 DEF Surjection
<1>4. IsFiniteSet(Takes(a, plan)) /\ Cardinality(Takes(a, plan)) <= Cardinality(K)
  BY <1>2, <1>3, FS_Surjection
<1>5. K # {}
  <2>1. PICK x \in Takes(a, plan) : TRUE
    OBVIOUS
  <2>2. PICK j \in K : f[j] = x
    <3> HIDE DEF f, K
    <3> QED BY <1>3 DEF Surjection
  <2> QED BY <2>2
<1>6. PICK m \in K : \A j \in K : j <= m
  <2>1. K \in SUBSET (1..Len(Actions))
    OBVIOUS
  <2> HIDE DEF K
  <2> QED BY <1>1, <1>5, <2>1, LastOf
<1> DEFINE n == Cardinality({j \in 1..(m - 1) : plan[Actions[j]] # "skip"})
<1>7. {j \in 1..(m - 1) : plan[Actions[j]] # "skip"} = K \ {m}
  BY <1>1, <1>6
<1>8. n \in Nat /\ Cardinality(K) = n + 1
  <2>1. n = Cardinality(K) - 1 /\ IsFiniteSet(K \ {m})
    <3> HIDE DEF K
    <3> QED BY <1>2, <1>6, <1>7, FS_RemoveElement
  <2>2. Cardinality(K) \in Nat /\ Cardinality(K \ {m}) \in Nat
    <3> HIDE DEF K
    <3> QED BY <1>2, <2>1, FS_CardinalityType
  <2>3. n = Cardinality(K \ {m})
    BY <1>7
  <2> HIDE DEF n, K
  <2> QED BY <2>1, <2>2, <2>3
<1>9. plan[Actions[m]] = Evaluate(p, Actions[m], asset[HostOf[a]].class,
                                  capable[HostOf[a]], Plus(Usage(a, {}, p), n))
  BY DEF IsPlan
<1>10. plan[Actions[m]] # "skip"
  OBVIOUS
<1>11. Affordable(Plus(Usage(a, {}, p), n), p)
  <2> HIDE DEF n
  <2> QED BY <1>9, <1>10 DEF Evaluate
<1> HIDE DEF n, K, f
<1>12. Cardinality(Takes(a, plan)) <= n + 1
  BY <1>4, <1>8
<1> QED BY <1>4, <1>8, <1>11, <1>12

\* What affordable means, count by count.
LEMMA AffordableMeans ==
  ASSUME NEW a, NEW p, NEW n \in Nat, Affordable(Plus(Usage(a, {}, p), n), p)
  PROVE  /\ Usage(a, {}, p).alert + n < p.perAlert
         /\ Cardinality(WindowOf(HostOf[a], p)) + n < p.perWindow
         /\ Cardinality(LiveOf(HostOf[a])) + n < p.perEndpoint
         /\ Cardinality(LiveRows) + n < p.global
<1> DEFINE u == Usage(a, {}, p)
           v == Plus(u, n)
           W == WindowOf(HostOf[a], p)
<1>1. /\ DOMAIN u = {"alert", "window", "endpoint", "global"}
      /\ u.window = Cardinality(W \ {})
      /\ u.endpoint = Cardinality(LiveOf(HostOf[a]) \ {})
      /\ u.global = Cardinality(LiveRows \ {})
  BY UsageMeans
<1>2. W \ {} = W /\ LiveOf(HostOf[a]) \ {} = LiveOf(HostOf[a]) /\ LiveRows \ {} = LiveRows
  OBVIOUS
<1>3. /\ v.alert < p.perAlert /\ v.window < p.perWindow
      /\ v.endpoint < p.perEndpoint /\ v.global < p.global
  BY DEF Affordable
<1> HIDE DEF u, W
<1>4. /\ v.alert = u.alert + n /\ v.window = u.window + n
      /\ v.endpoint = u.endpoint + n /\ v.global = u.global + n
  BY <1>1 DEF Plus
<1> HIDE DEF v
<1>5. /\ u.alert + n < p.perAlert /\ u.window + n < p.perWindow
      /\ u.endpoint + n < p.perEndpoint /\ u.global + n < p.global
  BY <1>3, <1>4
<1> QED BY <1>1, <1>2, <1>5 DEF u, W

\* A set that grows by at most Y.
LEMMA GrownBy ==
  ASSUME NEW X, NEW Y, NEW Z, IsFiniteSet(X), IsFiniteSet(Y), Z \subseteq X \cup Y
  PROVE  /\ IsFiniteSet(Z) /\ Cardinality(X) \in Nat /\ Cardinality(Y) \in Nat
         /\ Cardinality(Z) \in Nat /\ Cardinality(Z) <= Cardinality(X) + Cardinality(Y)
<1>1. /\ IsFiniteSet(X \cup Y)
      /\ Cardinality(X \cup Y) = Cardinality(X) + Cardinality(Y) - Cardinality(X \cap Y)
  BY FS_Union
<1>2. IsFiniteSet(X \cap Y)
  BY FS_Intersection
<1>3. /\ Cardinality(X \cap Y) \in Nat /\ Cardinality(X) \in Nat /\ Cardinality(Y) \in Nat
      /\ Cardinality(X \cup Y) \in Nat
  BY <1>1, <1>2, FS_CardinalityType
<1>4. IsFiniteSet(Z) /\ Cardinality(Z) <= Cardinality(X \cup Y)
  BY <1>1, FS_Subset
<1>5. Cardinality(Z) \in Nat
  BY <1>4, FS_CardinalityType
<1> QED BY <1>1, <1>3, <1>4, <1>5

\* A set within a larger one, less one of its members, is below the bound.
LEMMA LessOne ==
  ASSUME NEW S, NEW T, IsFiniteSet(T), S \subseteq T, NEW k \in Nat, Cardinality(T) <= k,
         NEW x \in S
  PROVE  IsFiniteSet(S \ {x}) /\ Cardinality(S \ {x}) \in Nat /\ Cardinality(S \ {x}) < k
<1>1. IsFiniteSet(S) /\ Cardinality(S) <= Cardinality(T)
  BY FS_Subset
<1>2. IsFiniteSet(S \ {x}) /\ Cardinality(S \ {x}) = Cardinality(S) - 1
  BY <1>1, FS_RemoveElement
<1>3. Cardinality(S) \in Nat /\ Cardinality(T) \in Nat /\ Cardinality(S \ {x}) \in Nat
  BY <1>1, <1>2, FS_CardinalityType
<1> QED BY <1>1, <1>2, <1>3

\* A set that shrinks stays within its bound.
LEMMA Shrinks ==
  ASSUME NEW S, NEW T, IsFiniteSet(T), S \subseteq T, NEW k \in Nat, Cardinality(T) <= k
  PROVE  Cardinality(S) <= k
<1>1. IsFiniteSet(S) /\ Cardinality(S) <= Cardinality(T)
  BY FS_Subset
<1>2. Cardinality(S) \in Nat /\ Cardinality(T) \in Nat
  BY <1>1, FS_CardinalityType
<1> QED BY <1>1, <1>2

\* The limits of a run on file are numbers.
LEMMA LimitsTyped ==
  ASSUME run \in [Alerts -> RunRow \cup {Null}], NEW a \in Alerts, run[a] # Null
  PROVE  /\ run[a] \in RunRow /\ run[a].rank \in Nat /\ run[a].created \in Nat
         /\ run[a].terms \in Policies
         /\ run[a].terms.perAlert \in Nat /\ run[a].terms.perWindow \in Nat
         /\ run[a].terms.window \in Nat /\ run[a].terms.perEndpoint \in Nat
         /\ run[a].terms.global \in Nat
<1>1. run[a] \in RunRow
  OBVIOUS
<1>2. run[a].rank \in Nat /\ run[a].created \in Nat /\ run[a].terms \in Policies
  BY <1>1, TriageAssumption DEF RunRow, Time
<1>3. run[a].terms \in PolicyTerms
  BY <1>2, TriageAssumption
<1> QED BY <1>1, <1>2, <1>3 DEF PolicyTerms

\* A step that starts no run frees budget or leaves it: nothing is reserved,
\* nothing closed comes back to life, and no run changes its place, its time
\* or its terms.
LEMMA QuietStep ==
  ASSUME Inv, Worked \/ Cancelled
  PROVE  /\ Reserved' = Reserved
         /\ LiveRows' \subseteq LiveRows
         /\ OnFile' = OnFile
         /\ \A a \in Alerts : run[a] # Null =>
              /\ run'[a].rank = run[a].rank /\ run'[a].created = run[a].created
              /\ run'[a].terms = run[a].terms
<1>1. ASSUME NEW a \in Alerts, NEW c \in Acts
      PROVE  /\ item'[a][c] = Null <=> item[a][c] = Null
             /\ item[a][c] # Null => item'[a][c].decision = item[a][c].decision
             /\ item'[a][c].state \in Live => item[a][c].state \in Live \/ item[a][c] = Null
  <2>1. CASE item'[a][c] = item[a][c]
    BY <2>1
  <2>2. CASE Fell(item, item', a, c)
    BY <2>2, TriageRowsAssumption DEF Fell, Closed, Live
  <2>3. CASE Advanced(a, c)
    BY <2>3, TriageRowsAssumption DEF Advanced, State
  <2>4. item'[a][c] = item[a][c] \/ Fell(item, item', a, c) \/ Advanced(a, c)
    BY DEF Worked, Cancelled, Lowered
  <2> QED BY <2>1, <2>2, <2>3, <2>4
<1>2. Reserved' = Reserved
  BY <1>1 DEF Reserved
<1>3. LiveRows' \subseteq LiveRows
  <2> SUFFICES ASSUME NEW x \in LiveRows' PROVE x \in LiveRows
    OBVIOUS
  <2>1. x \in Reserved /\ item'[x[1]][x[2]].state \in Live
    BY <1>2 DEF LiveRows, IsLive, State
  <2>2. x[1] \in Alerts /\ x[2] \in Acts /\ item[x[1]][x[2]] # Null
    BY <2>1 DEF Reserved
  <2> QED BY <1>1, <2>1, <2>2 DEF LiveRows, IsLive, State
<1>4. ASSUME NEW a \in Alerts
      PROVE  /\ run'[a] = Null <=> run[a] = Null
             /\ run[a] # Null => /\ run'[a].rank = run[a].rank
                                 /\ run'[a].created = run[a].created
                                 /\ run'[a].terms = run[a].terms
  <2>1. CASE Worked
    BY <2>1 DEF Worked
  <2>2. CASE Cancelled
    <3>1. PICK b \in Alerts : run[b] # Null /\ run' = [run EXCEPT ![b].cancelled = TRUE]
      BY <2>2 DEF Cancelled
    <3>2. run[b] \in RunRow /\ run \in [Alerts -> RunRow \cup {Null}]
      BY <3>1 DEF Inv, TriageTyped
    <3>3. CASE b = a
      <4>1. run'[a] = [run[a] EXCEPT !.cancelled = TRUE] /\ run[a] \in RunRow
        BY <3>1, <3>2, <3>3
      <4>2. run'[a] \in RunRow
        BY <4>1 DEF RunRow
      <4> QED BY <4>1, <4>2, TriageRowsAssumption DEF RunRow
    <3>4. CASE b # a
      BY <3>1, <3>2, <3>4
    <3> QED BY <3>3, <3>4
  <2> QED BY <2>1, <2>2
<1>5. OnFile' = OnFile
  BY <1>4 DEF OnFile
<1> QED BY <1>2, <1>3, <1>4, <1>5

LEMMA QuietStepKeeps ==
  ASSUME PlanInv, Worked \/ Cancelled, now' \in Nat, now' >= now
  PROVE  Ranked' /\ Counted' /\ SentIsNotStaged'
<1>1. /\ Reserved' = Reserved /\ LiveRows' \subseteq LiveRows /\ OnFile' = OnFile
      /\ \A a \in Alerts : run[a] # Null =>
           /\ run'[a].rank = run[a].rank /\ run'[a].created = run[a].created
           /\ run'[a].terms = run[a].terms
  BY QuietStep DEF PlanInv
<1>2. IsFiniteSet(Reserved)
  BY ReservedFinite DEF PlanInv, Inv
<1>3. \A x \in Reserved : x[1] \in Alerts /\ run[x[1]] # Null
  BY DEF Reserved, PlanInv, Inv, Whole
<1>4. run \in [Alerts -> RunRow \cup {Null}] /\ now \in Nat
  BY TriageAssumption DEF PlanInv, Inv, TriageTyped, Time
<1>5. Ranked'
  <2> SUFFICES ASSUME NEW a \in Alerts, run'[a] # Null
               PROVE  run'[a].rank \in 1..Cardinality(OnFile') /\ run'[a].created <= now'
    BY DEF Ranked
  <2>1. run[a] # Null
    BY <1>1 DEF OnFile
  <2>2. run[a].rank \in 1..Cardinality(OnFile) /\ run[a].created <= now
    BY <2>1 DEF PlanInv, Ranked
  <2>3. run[a].created \in Nat
    BY <1>4, <2>1, LimitsTyped
  <2>4. run'[a].rank = run[a].rank /\ run'[a].created = run[a].created
    BY <1>1, <2>1
  <2>5. run'[a].created <= now'
    BY <1>4, <2>2, <2>3, <2>4
  <2> QED BY <1>1, <2>2, <2>4, <2>5
<1>6. ASSUME NEW x \in Reserved' PROVE Within(x[1])'
  <2> DEFINE a == x[1]
  <2>1. x \in Reserved /\ a \in Alerts /\ run[a] # Null
    BY <1>1, <1>3, <1>6
  <2>2. Upto(a)' = Upto(a)
    <3>1. run'[a].rank = run[a].rank
      BY <1>1, <2>1
    <3>2. \A y \in Reserved : run'[y[1]].rank = run[y[1]].rank
      BY <1>1, <1>3
    <3> QED BY <1>1, <3>1, <3>2 DEF Upto
  <2>3. \A y \in Upto(a) : y \in Reserved /\ run'[y[1]].created = run[y[1]].created
    BY <1>1, <1>3 DEF Upto
  <2>4. run'[a].created = run[a].created /\ run'[a].terms = run[a].terms
    BY <1>1, <2>1
  <2>5. OfAlert(a)' = OfAlert(a) /\ WindowUpto(a)' = WindowUpto(a)
    BY <1>1, <2>2, <2>3, <2>4 DEF OfAlert, WindowUpto
  <2>6. \A y \in Reserved : IsLive(y)' => IsLive(y)
    BY <1>1 DEF LiveRows
  <2>7. LiveUpto(a)' \subseteq LiveUpto(a) /\ HostUpto(a)' \subseteq HostUpto(a)
    BY <2>2, <2>3, <2>6 DEF LiveUpto, HostUpto
  <2>8. IsFiniteSet(LiveUpto(a)) /\ IsFiniteSet(HostUpto(a))
    <3>1. LiveUpto(a) \in SUBSET Reserved /\ HostUpto(a) \in SUBSET Reserved
      BY DEF LiveUpto, HostUpto, Upto
    <3> QED BY <1>2, <3>1, FS_Subset
  <2>9. /\ run[a].terms.perEndpoint \in Nat /\ run[a].terms.global \in Nat
    BY <1>4, <2>1, LimitsTyped
  <2>10. Within(a)
    BY <2>1 DEF PlanInv, Counted
  <2>11. Cardinality(LiveUpto(a)') <= run[a].terms.global
    BY <2>7, <2>8, <2>9, <2>10, Shrinks DEF Within
  <2>12. Cardinality(HostUpto(a)') <= run[a].terms.perEndpoint
    BY <2>7, <2>8, <2>9, <2>10, Shrinks DEF Within
  <2>13. /\ Cardinality(OfAlert(a)') <= run'[a].terms.perAlert
         /\ Cardinality(WindowUpto(a)') <= run'[a].terms.perWindow
    BY <2>4, <2>5, <2>10 DEF Within
  <2> HIDE DEF a
  <2>14. Within(a)'
    BY <2>4, <2>11, <2>12, <2>13 DEF Within
  <2> QED BY <2>14 DEF a
<1>7. Counted'
  BY <1>6 DEF Counted
<1>9. SentIsNotStaged'
  <2> SUFFICES ASSUME NEW a \in Alerts, NEW c \in Acts, item'[a][c] # Null,
                      item'[a][c].decision = "auto_dispatch"
               PROVE  item'[a][c].state \notin {"PENDING", "REJECTED"}
    BY DEF SentIsNotStaged
  <2>1. item'[a][c] = item[a][c] \/ Fell(item, item', a, c) \/ Advanced(a, c)
    BY DEF Worked, Cancelled, Lowered
  <2>2. item[a][c] # Null /\ item[a][c].decision = "auto_dispatch" =>
          item[a][c].state \notin {"PENDING", "REJECTED"}
    BY DEF PlanInv, SentIsNotStaged
  <2> QED BY <2>1, <2>2 DEF Fell, Advanced, Closed
<1> QED BY <1>5, <1>7, <1>9

\* A new run reserves what its plan takes, which fits the limits in force; the
\* runs filed before it do not count it.
LEMMA StartKeeps ==
  ASSUME PlanInv, NEW a \in Alerts, NEW ok \in BOOLEAN, Start(a, ok), ~UNCHANGED <<run, item>>
  PROVE  Ranked' /\ Counted' /\ SentIsNotStaged'
<1> DEFINE p == policy[RuleOf[a]].terms
           h == HostOf[a]
           N == Cardinality(OnFile)
<1>1. a \notin seen /\ now' = now /\ p # Null
  BY DEF Start
<1>2. PICK plan \in [Acts -> Verdicts] :
        /\ IsPlan(a, plan)
        /\ run' = [run EXCEPT ![a] = NewRun(a)]
        /\ item' = [item EXCEPT ![a] = [c \in Acts |-> Planned(plan[c])]]
  BY DEF Start, NewRun
<1> DEFINE New == Takes(a, plan)
<1>3. item \in Table /\ run \in [Alerts -> RunRow \cup {Null}] /\ h \in Hosts /\ now \in Nat
  BY TriageAssumption DEF PlanInv, Inv, TriageTyped, Time
<1>4. run[a] = Null /\ \A c \in Acts : item[a][c] = Null
  BY <1>1 DEF PlanInv, Inv, Whole
<1>5. \A b \in Alerts : b # a => item'[b] = item[b] /\ run'[b] = run[b]
  BY <1>2, <1>3 DEF Table
<1>6. \A c \in Acts : /\ item'[a][c] # Null /\ item'[a][c].decision = plan[c]
                      /\ plan[c] = "auto_dispatch" => item'[a][c].state = "AUTHORIZED"
  <2>1. \A c \in Acts : item'[a][c] = Planned(plan[c]) /\ plan[c] \in Verdicts
    BY <1>2, <1>3 DEF Table
  <2> QED BY <2>1, PlannedMeans
<1>7. Reserved' = Reserved \cup New
  BY <1>4, <1>5, <1>6 DEF Reserved, Takes
<1>8. \A x \in Reserved : x[1] \in Alerts /\ x[1] # a /\ run[x[1]] # Null
  BY <1>4 DEF Reserved, PlanInv, Inv, Whole
<1>9. \A x \in New : x[1] = a
  BY DEF Takes
<1>10. run'[a].rank = N + 1 /\ run'[a].created = now /\ run'[a].terms = p
  <2>1. run'[a] = NewRun(a)
    BY <1>2, <1>3
  <2>2. NewRun(a).rank = N + 1 /\ NewRun(a).created = now /\ NewRun(a).terms = p
    BY DEF NewRun
  <2> QED BY <2>1, <2>2
<1>11. /\ p \in Policies /\ p.perAlert \in Nat /\ p.perWindow \in Nat /\ p.window \in Nat
       /\ p.perEndpoint \in Nat /\ p.global \in Nat
  <2>1. p \in Policies
    BY <1>1, TriageAssumption DEF PlanInv, Inv, TriageTyped
  <2>2. p \in PolicyTerms
    BY <2>1, TriageAssumption
  <2> HIDE DEF p
  <2> QED BY <2>1, <2>2 DEF PolicyTerms
<1>12. N \in Nat
  BY FS_CardinalityType DEF PlanInv, Inv, FewRuns
<1> HIDE DEF New, p, N, h
<1>13. IsFiniteSet(Reserved)
  BY ReservedFinite DEF PlanInv, Inv
<1>14. \A x \in Reserved : /\ IsLive(x)' <=> IsLive(x)
                           /\ run'[x[1]] = run[x[1]]
                           /\ run[x[1]].rank \in 1..N
  <2>1. \A x \in Reserved : item'[x[1]] = item[x[1]] /\ run'[x[1]] = run[x[1]]
    BY <1>5, <1>8
  <2>2. \A x \in Reserved : run[x[1]].rank \in 1..N
    BY <1>8 DEF PlanInv, Ranked, N
  <2> QED BY <2>1, <2>2 DEF IsLive, State
<1>15. Ranked'
  <2>1. OnFile' = OnFile \cup {a} /\ a \notin OnFile
    <3>1. run'[a] # Null
      <4>1. run'[a] \in RunRow
        BY <1>1, <1>2, <1>3, NewRunTyped DEF PlanInv, Inv, p
      <4> QED BY <4>1, TriageRowsAssumption
    <3> QED BY <1>4, <1>5, <3>1 DEF OnFile
  <2>2. Cardinality(OnFile') = N + 1
    BY <2>1, FS_AddElement DEF PlanInv, Inv, FewRuns, N
  <2> SUFFICES ASSUME NEW b \in Alerts, run'[b] # Null
               PROVE  run'[b].rank \in 1..(N + 1) /\ run'[b].created <= now'
    BY <2>2 DEF Ranked
  <2>3. CASE b = a
    BY <1>1, <1>3, <1>10, <1>12, <2>3
  <2>4. CASE b # a
    <3>1. run'[b] = run[b] /\ run[b] # Null
      BY <1>5, <2>4
    <3>2. run[b].rank \in 1..N /\ run[b].created <= now
      BY <3>1 DEF PlanInv, Ranked, N
    <3> QED BY <1>1, <1>12, <3>1, <3>2
  <2> QED BY <2>3, <2>4
<1>16. ASSUME NEW x \in Reserved PROVE Within(x[1])'
  <2> DEFINE b == x[1]
  <2>1. b \in Alerts /\ b # a /\ run'[b] = run[b] /\ run[b].rank \in 1..N
    BY <1>8, <1>14, <1>16
  <2>2. Upto(b)' = Upto(b)
    <3>1. \A y \in Reserved : run'[y[1]].rank = run[y[1]].rank
      BY <1>14
    <3>2. \A y \in New : ~(run'[y[1]].rank <= run[b].rank)
      BY <1>9, <1>10, <1>12, <2>1
    <3>3. run'[b].rank = run[b].rank
      BY <2>1
    <3> QED BY <1>7, <3>1, <3>2, <3>3 DEF Upto
  <2>3. \A y \in Upto(b) : (IsLive(y)' <=> IsLive(y)) /\ run'[y[1]] = run[y[1]]
    BY <1>14 DEF Upto
  <2>4. OfAlert(b)' = OfAlert(b)
    BY <1>7, <1>9, <2>1 DEF OfAlert
  <2>5. WindowUpto(b)' = WindowUpto(b)
    BY <2>1, <2>2, <2>3 DEF WindowUpto
  <2>6. HostUpto(b)' = HostUpto(b) /\ LiveUpto(b)' = LiveUpto(b)
    BY <2>2, <2>3 DEF HostUpto, LiveUpto
  <2>7. Within(b)
    BY DEF PlanInv, Counted
  <2> HIDE DEF b
  <2>8. Within(b)'
    BY <2>1, <2>4, <2>5, <2>6, <2>7 DEF Within
  <2> QED BY <2>8 DEF b
<1>17. New # {} => Within(a)'
  <2> SUFFICES ASSUME New # {} PROVE Within(a)'
    OBVIOUS
  <2>1. PICK n \in Nat : Cardinality(New) <= n + 1 /\ Affordable(Plus(Usage(a, {}, p), n), p)
    BY <1>2, PlanFits DEF New, p
  <2>2. IsFiniteSet(New)
    BY <1>2, PlanFits DEF New
  <2>3. /\ Usage(a, {}, p).alert + n < p.perAlert
        /\ Cardinality(WindowOf(h, p)) + n < p.perWindow
        /\ Cardinality(LiveOf(h)) + n < p.perEndpoint
        /\ Cardinality(LiveRows) + n < p.global
    BY <2>1, AffordableMeans DEF h
  <2>4. Usage(a, {}, p).alert = 0
    <3>1. Kept(a, {}, p) = {}
      BY <1>8 DEF OfAlert, Kept
    <3>2. Usage(a, {}, p).alert = Cardinality(Kept(a, {}, p))
      BY UsageMeans
    <3> QED BY <3>1, <3>2, FS_EmptySet
  <2>5. OfAlert(a)' = New
    BY <1>7, <1>8, <1>9 DEF OfAlert
  <2>6. LiveUpto(a)' \subseteq LiveRows \cup New
    BY <1>7, <1>14 DEF LiveUpto, LiveRows, Upto
  <2>7. HostUpto(a)' \subseteq LiveOf(h) \cup New
    BY <1>7, <1>14 DEF HostUpto, LiveRows, LiveOf, Upto, h
  <2>8. WindowUpto(a)' \subseteq WindowOf(h, p) \cup New
    BY <1>7, <1>10, <1>14 DEF WindowUpto, WindowOf, InWindow, Upto, h
  <2>9. IsFiniteSet(LiveRows) /\ IsFiniteSet(LiveOf(h)) /\ IsFiniteSet(WindowOf(h, p))
    <3>1. /\ LiveRows \in SUBSET Reserved /\ LiveOf(h) \in SUBSET Reserved
          /\ WindowOf(h, p) \in SUBSET Reserved
      BY DEF LiveRows, WindowOf, LiveOf
    <3> QED BY <1>13, <3>1, FS_Subset
  <2>10. /\ Cardinality(LiveUpto(a)') <= Cardinality(LiveRows) + Cardinality(New)
         /\ Cardinality(LiveUpto(a)') \in Nat /\ Cardinality(LiveRows) \in Nat
         /\ Cardinality(New) \in Nat
    BY <2>2, <2>6, <2>9, GrownBy
  <2>11. /\ Cardinality(HostUpto(a)') <= Cardinality(LiveOf(h)) + Cardinality(New)
         /\ Cardinality(HostUpto(a)') \in Nat /\ Cardinality(LiveOf(h)) \in Nat
    BY <2>2, <2>7, <2>9, GrownBy
  <2> DEFINE W == Cardinality(WindowOf(h, p))
  <2>12. /\ Cardinality(WindowUpto(a)') <= W + Cardinality(New)
         /\ Cardinality(WindowUpto(a)') \in Nat /\ W \in Nat
    BY <2>2, <2>8, <2>9, GrownBy
  <2>13. W + n < p.perWindow
    BY <2>3
  <2> HIDE DEF W
  <2>14. Cardinality(New) <= p.perAlert
    BY <1>11, <2>1, <2>3, <2>4, <2>10
  <2>15. Cardinality(WindowUpto(a)') <= p.perWindow
    BY <1>11, <2>1, <2>10, <2>12, <2>13
  <2>16. Cardinality(HostUpto(a)') <= p.perEndpoint
    BY <1>11, <2>1, <2>3, <2>10, <2>11
  <2>17. Cardinality(LiveUpto(a)') <= p.global
    BY <1>11, <2>1, <2>3, <2>10
  <2> QED BY <1>10, <2>5, <2>14, <2>15, <2>16, <2>17 DEF Within
<1>18. Counted'
  <2> SUFFICES ASSUME NEW x \in Reserved' PROVE Within(x[1])'
    BY DEF Counted
  <2>1. CASE x \in Reserved
    BY <1>16, <2>1
  <2>2. CASE x \in New
    <3>1. New # {} /\ x[1] = a
      BY <1>9, <2>2
    <3> QED BY <1>17, <3>1
  <2> QED BY <1>7, <2>1, <2>2
<1>19. SentIsNotStaged'
  <2> SUFFICES ASSUME NEW b \in Alerts, NEW c \in Acts, item'[b][c] # Null,
                      item'[b][c].decision = "auto_dispatch"
               PROVE  item'[b][c].state \notin {"PENDING", "REJECTED"}
    BY DEF SentIsNotStaged
  <2>1. CASE b = a
    BY <1>6, <2>1
  <2>2. CASE b # a
    BY <1>5, <2>2 DEF PlanInv, SentIsNotStaged
  <2> QED BY <2>1, <2>2
<1> QED BY <1>15, <1>18, <1>19

\* The rest of the state keeps its types, and the clock never goes back.
LEMMA RestTyped ==
  ASSUME PlanInv, [Next]_vars
  PROVE  /\ now' \in Nat /\ now' >= now
         /\ capable' \in [Hosts -> BOOLEAN]
         /\ seen' \subseteq Alerts
         /\ admin' \in [Requests -> (Rules \X Policies) \cup (Hosts \X Labels) \cup {Null}]
<1>0. /\ now \in Nat /\ MaxTime \in Nat /\ capable \in [Hosts -> BOOLEAN] /\ seen \subseteq Alerts
      /\ admin \in [Requests -> (Rules \X Policies) \cup (Hosts \X Labels) \cup {Null}]
  BY TriageAssumption DEF PlanInv, TypeOK, Time
<1>1. CASE Tick
  BY <1>0, <1>1 DEF Tick
<1>2. ASSUME NEW q \in Requests, NEW r \in Rules, NEW p \in Policies, NEW v, SavePolicy(q, r, p, v)
      PROVE  /\ admin' \in [Requests -> (Rules \X Policies) \cup (Hosts \X Labels) \cup {Null}]
             /\ now' = now /\ capable' = capable /\ seen' = seen
  BY <1>0, <1>2 DEF SavePolicy
<1>3. ASSUME NEW q \in Requests, NEW h \in Hosts, NEW k \in Labels, NEW v, SaveAsset(q, h, k, v)
      PROVE  /\ admin' \in [Requests -> (Rules \X Policies) \cup (Hosts \X Labels) \cup {Null}]
             /\ now' = now /\ capable' = capable /\ seen' = seen
  BY <1>0, <1>3 DEF SaveAsset
<1>4. ASSUME NEW a \in Alerts, NEW ok \in BOOLEAN, Start(a, ok)
      PROVE  /\ seen' \subseteq Alerts
             /\ now' = now /\ capable' = capable /\ admin' = admin
  <2>1. seen' = seen \cup {a} /\ now' = now /\ capable' = capable /\ admin' = admin
    BY <1>4 DEF Start
  <2> QED BY <1>0, <2>1
<1>5. ASSUME NEW h \in Hosts, NEW able \in BOOLEAN, NEW durable \in BOOLEAN, Poll(h, able, durable)
      PROVE  /\ capable' \in [Hosts -> BOOLEAN]
             /\ now' = now /\ seen' = seen /\ admin' = admin
  <2>1. capable' = [capable EXCEPT ![h] = able] /\ now' = now /\ seen' = seen /\ admin' = admin
    BY <1>5 DEF Poll
  <2> QED BY <1>0, <2>1
<1>6. CASE UNCHANGED <<now, capable, seen, admin>>
  BY <1>0, <1>6
<1>7. now' = now => now' \in Nat /\ now' >= now
  BY <1>0
<1> QED
  BY <1>0, <1>1, <1>2, <1>3, <1>4, <1>5, <1>6, <1>7
  DEF Next, vars, Authorize, Reject, Cancel, Accept, Finish, CancelRun, ReadRuns, ReadQueue

LEMMA InitPlan == Init => PlanInv
<1> SUFFICES ASSUME Init PROVE PlanInv
  OBVIOUS
<1>1. Inv /\ SentIsNotStaged
  BY InitInv DEF Init, SentIsNotStaged
<1>2. TypeOK
  <2>1. now \in Time
    BY TriageAssumption DEF Init, Time
  <2>2. asset \in [Hosts -> [class: Classes, version: Nat]]
    BY DEF Init, Classes
  <2> QED BY <2>1, <2>2 DEF Init, TypeOK
<1>3. Reserved = {}
  BY DEF Init, Reserved
<1>4. Counted
  BY <1>3 DEF Counted
<1>5. Ranked
  BY DEF Init, Ranked
<1> QED BY <1>1, <1>2, <1>4, <1>5 DEF PlanInv

LEMMA StepPlan == PlanInv /\ [Next]_vars => PlanInv'
<1> SUFFICES ASSUME PlanInv, [Next]_vars PROVE PlanInv'
  OBVIOUS
<1>1. Inv'
  BY StepInv DEF PlanInv
<1>2. /\ now' \in Nat /\ now' >= now /\ capable' \in [Hosts -> BOOLEAN]
      /\ seen' \subseteq Alerts
      /\ admin' \in [Requests -> (Rules \X Policies) \cup (Hosts \X Labels) \cup {Null}]
  BY RestTyped
<1>3. TypeOK'
  BY <1>1, <1>2 DEF TypeOK, Inv, TriageTyped, Table
<1>4. Ranked' /\ Counted' /\ SentIsNotStaged'
  <2>1. CASE Worked \/ Cancelled
    BY <1>2, <2>1, QuietStepKeeps
  <2>2. CASE ~(Worked \/ Cancelled)
    <3>1. \E a \in Alerts, ok \in BOOLEAN : Start(a, ok)
      <4>1. item \in Table
        BY DEF PlanInv, Inv, TriageTyped
      <4>2. UNCHANGED <<run, item, seen>> => Worked
        BY <4>1, SweepsLower, LoweredIsWork
      <4>3. ReadRuns \/ ReadQueue => Worked
        BY <4>1, SweepsLower, LoweredIsWork DEF ReadRuns, ReadQueue
      <4>4. Inv
        BY DEF PlanInv
      <4> QED
        BY <2>2, <4>2, <4>3, <4>4, ItemStepWorks, PollWorks, CancelRunCancels
        DEF Next, vars, Inv, Tick, SavePolicy, SaveAsset
    <3>2. PICK a \in Alerts, ok \in BOOLEAN : Start(a, ok)
      BY <3>1
    <3>3. ~UNCHANGED <<run, item>>
      <4> SUFFICES ASSUME UNCHANGED <<run, item>> PROVE Worked
        BY <2>2
      <4>1. seen \subseteq seen' /\ item \in Table
        BY <3>2 DEF Start, PlanInv, Inv, TriageTyped
      <4> QED BY <4>1 DEF Worked, OneInFlight, InFlight, State
    <3> QED BY <3>2, <3>3, StartKeeps
  <2> QED BY <2>1, <2>2
<1> QED BY <1>1, <1>2, <1>3, <1>4 DEF PlanInv

\* Among some reservations there is one of the newest run, and all of them
\* were there when it was filed.
LEMMA NewestOf ==
  ASSUME PlanInv, NEW S \in SUBSET Reserved, NEW x \in S
  PROVE  \E n \in S : /\ S \subseteq Upto(n[1])
                      /\ n \in Upto(x[1]) => S \subseteq Upto(x[1])
<1> DEFINE K == {run[y[1]].rank : y \in S}
           N == Cardinality(OnFile)
<1>1. \A y \in S : y[1] \in Alerts /\ run[y[1]] # Null
  BY DEF Reserved, PlanInv, Inv, Whole
<1>2. N \in Nat
  BY FS_CardinalityType DEF PlanInv, Inv, FewRuns
<1>3. \A y \in S : run[y[1]].rank \in 1..N
  BY <1>1 DEF PlanInv, Ranked
<1> HIDE DEF N
<1>4. K \in SUBSET (1..N) /\ K # {}
  BY <1>3
<1>5. PICK m \in K : \A j \in K : j <= m
  <2> HIDE DEF K
  <2> QED BY <1>2, <1>4, LastOf
<1>6. PICK n \in S : run[n[1]].rank = m
  BY <1>5
<1>7. \A y \in S : run[y[1]].rank <= run[n[1]].rank
  BY <1>5, <1>6
<1>8. S \subseteq Upto(n[1])
  BY <1>7 DEF Upto
<1>9. ASSUME n \in Upto(x[1]) PROVE S \subseteq Upto(x[1])
  <2>1. run[n[1]].rank <= run[x[1]].rank
    BY <1>9 DEF Upto
  <2>2. \A y \in S : run[y[1]].rank <= run[x[1]].rank
    BY <1>2, <1>3, <1>7, <2>1
  <2> QED BY <2>2 DEF Upto
<1> QED BY <1>8, <1>9

\* Terms that are no laxer than those of a later run bind it too.
LEMMA SinceMeans ==
  ASSUME NEW a, NEW n \in Reserved, n \notin Upto(a)
  PROVE  run[n[1]].terms \in TermsSince(a)
BY DEF TermsSince

\* The guard of a live item leaves out a reservation that was counted.
LEMMA LiveFits ==
  ASSUME PlanInv, NEW x \in Reserved, IsLive(x), NEW b, b = run[x[1]].terms
  PROVE  LET u == Usage(x[1], {x}, b)
         IN /\ u.alert < b.perAlert
            /\ (\A l \in TermsSince(x[1]) : l.perEndpoint <= b.perEndpoint)
                 => u.endpoint < b.perEndpoint
            /\ (\A l \in TermsSince(x[1]) : l.global <= b.global) => u.global < b.global
            /\ /\ InWindow(x[1], b.window)
               /\ \A l \in TermsSince(x[1]) : l.perWindow <= b.perWindow /\ l.window >= b.window
               => u.window < b.perWindow
<1> DEFINE a == x[1]
           h == HostOf[x[1]]
           A == Kept(a, {x}, b)
           W == WindowOf(h, b)
           u == Usage(a, {x}, b)
<1>1. \A y \in Reserved : y[1] \in Alerts /\ run[y[1]] # Null
  BY DEF Reserved, PlanInv, Inv, Whole
<1>2. run \in [Alerts -> RunRow \cup {Null}] /\ now \in Nat
  BY TriageAssumption DEF PlanInv, Inv, TriageTyped, Time
<1>3. \A y \in Reserved :
        /\ run[y[1]].created \in Nat /\ run[y[1]].created <= now
        /\ run[y[1]].terms.perAlert \in Nat /\ run[y[1]].terms.perWindow \in Nat
        /\ run[y[1]].terms.window \in Nat /\ run[y[1]].terms.perEndpoint \in Nat
        /\ run[y[1]].terms.global \in Nat
  <2> SUFFICES ASSUME NEW y \in Reserved
               PROVE  /\ run[y[1]].created \in Nat /\ run[y[1]].created <= now
                      /\ run[y[1]].terms.perAlert \in Nat /\ run[y[1]].terms.perWindow \in Nat
                      /\ run[y[1]].terms.window \in Nat /\ run[y[1]].terms.perEndpoint \in Nat
                      /\ run[y[1]].terms.global \in Nat
    OBVIOUS
  <2>1. y[1] \in Alerts /\ run[y[1]] # Null
    BY <1>1
  <2>2. run[y[1]].created <= now
    BY <2>1 DEF PlanInv, Ranked
  <2> QED BY <1>2, <2>1, <2>2, LimitsTyped
<1>4. \A y \in Reserved : Within(y[1])
  BY DEF PlanInv, Counted
<1>5. /\ u.alert = Cardinality(A) /\ u.window = Cardinality(W \ {x})
      /\ u.endpoint = Cardinality(LiveOf(h) \ {x}) /\ u.global = Cardinality(LiveRows \ {x})
  BY UsageMeans
<1>6. \A S \in SUBSET Reserved : IsFiniteSet(S)
  BY ReservedFinite, FS_Subset DEF PlanInv, Inv
<1>7. \A c : /\ OfAlert(c) \in SUBSET Reserved /\ LiveUpto(c) \in SUBSET Reserved
             /\ HostUpto(c) \in SUBSET Reserved /\ WindowUpto(c) \in SUBSET Reserved
  BY DEF OfAlert, LiveUpto, HostUpto, WindowUpto, Upto
<1>8. \A c : /\ IsFiniteSet(OfAlert(c)) /\ IsFiniteSet(LiveUpto(c))
             /\ IsFiniteSet(HostUpto(c)) /\ IsFiniteSet(WindowUpto(c))
  BY <1>6, <1>7
<1>9. /\ b.perAlert \in Nat /\ b.perWindow \in Nat /\ b.window \in Nat
      /\ b.perEndpoint \in Nat /\ b.global \in Nat
  BY <1>3
<1>10. u.alert < b.perAlert
  <2>1. x \in OfAlert(a) /\ A \in SUBSET (OfAlert(a) \ {x})
    BY DEF OfAlert, Kept
  <2>2. Cardinality(OfAlert(a)) <= b.perAlert
    BY <1>4 DEF Within
  <2>3. /\ IsFiniteSet(OfAlert(a) \ {x}) /\ Cardinality(OfAlert(a) \ {x}) \in Nat
        /\ Cardinality(OfAlert(a) \ {x}) < b.perAlert
    <3> HIDE DEF a
    <3> QED BY <1>8, <1>9, <2>1, <2>2, LessOne
  <2>4. IsFiniteSet(A) /\ Cardinality(A) <= Cardinality(OfAlert(a) \ {x})
    <3> HIDE DEF A
    <3> QED BY <2>1, <2>3, FS_Subset
  <2>5. Cardinality(A) \in Nat
    BY <2>4, FS_CardinalityType
  <2> HIDE DEF A, a, u
  <2> QED BY <1>5, <1>9, <2>3, <2>4, <2>5
<1>11. ASSUME \A l \in TermsSince(a) : l.global <= b.global PROVE u.global < b.global
  <2>1. LiveRows \in SUBSET Reserved /\ x \in LiveRows
    BY DEF LiveRows
  <2>2. PICK n \in LiveRows : /\ LiveRows \subseteq Upto(n[1])
                              /\ n \in Upto(a) => LiveRows \subseteq Upto(a)
    BY <2>1, NewestOf
  <2>3. \A c : LiveRows \subseteq Upto(c) => LiveRows \subseteq LiveUpto(c)
    BY DEF LiveRows, LiveUpto
  <2>4. CASE n \in Upto(a)
    <3>1. LiveRows \subseteq LiveUpto(a) /\ Cardinality(LiveUpto(a)) <= b.global
      BY <1>4, <2>2, <2>3, <2>4 DEF Within
    <3>2. Cardinality(LiveRows \ {x}) < b.global
      <4> HIDE DEF a
      <4> QED BY <1>8, <1>9, <2>1, <3>1, LessOne
    <3> QED BY <1>5, <3>2
  <2>5. CASE n \notin Upto(a)
    <3>1. run[n[1]].terms.global <= b.global
      BY <1>11, <2>1, <2>2, <2>5, SinceMeans
    <3>2. LiveRows \subseteq LiveUpto(n[1]) /\ Cardinality(LiveUpto(n[1])) <= run[n[1]].terms.global
      BY <1>4, <2>1, <2>2, <2>3 DEF Within
    <3>3. run[n[1]].terms.global \in Nat
      BY <1>3, <2>1, <2>2
    <3>4. IsFiniteSet(LiveUpto(n[1]))
      BY <1>8
    <3>5. /\ Cardinality(LiveRows \ {x}) < run[n[1]].terms.global
          /\ Cardinality(LiveRows \ {x}) \in Nat
      BY <2>1, <3>2, <3>3, <3>4, LessOne
    <3>6. Cardinality(LiveRows \ {x}) < b.global
      BY <1>9, <3>1, <3>3, <3>5
    <3> QED BY <1>5, <3>6
  <2> QED BY <2>4, <2>5
<1>12. ASSUME \A l \in TermsSince(a) : l.perEndpoint <= b.perEndpoint
       PROVE  u.endpoint < b.perEndpoint
  <2>1. LiveOf(h) \in SUBSET Reserved /\ x \in LiveOf(h)
    BY DEF LiveRows, LiveOf
  <2>2. PICK n \in LiveOf(h) : /\ LiveOf(h) \subseteq Upto(n[1])
                               /\ n \in Upto(a) => LiveOf(h) \subseteq Upto(a)
    BY <2>1, NewestOf
  <2>3. \A c : HostOf[c] = h /\ LiveOf(h) \subseteq Upto(c) => LiveOf(h) \subseteq HostUpto(c)
    BY DEF LiveRows, LiveOf, HostUpto
  <2>4. HostOf[a] = h /\ HostOf[n[1]] = h
    BY DEF LiveOf
  <2>5. CASE n \in Upto(a)
    <3>1. LiveOf(h) \subseteq HostUpto(a) /\ Cardinality(HostUpto(a)) <= b.perEndpoint
      BY <1>4, <2>2, <2>3, <2>4, <2>5 DEF Within
    <3>2. Cardinality(LiveOf(h) \ {x}) < b.perEndpoint
      <4> HIDE DEF a, h
      <4> QED BY <1>8, <1>9, <2>1, <3>1, LessOne
    <3> QED BY <1>5, <3>2
  <2>6. CASE n \notin Upto(a)
    <3>1. run[n[1]].terms.perEndpoint <= b.perEndpoint
      BY <1>12, <2>1, <2>2, <2>6, SinceMeans
    <3>2. /\ LiveOf(h) \subseteq HostUpto(n[1])
          /\ Cardinality(HostUpto(n[1])) <= run[n[1]].terms.perEndpoint
      BY <1>4, <2>1, <2>2, <2>3, <2>4 DEF Within
    <3>3. run[n[1]].terms.perEndpoint \in Nat
      BY <1>3, <2>1, <2>2
    <3>4. IsFiniteSet(HostUpto(n[1]))
      BY <1>8
    <3> HIDE DEF h
    <3>5. /\ Cardinality(LiveOf(h) \ {x}) < run[n[1]].terms.perEndpoint
          /\ Cardinality(LiveOf(h) \ {x}) \in Nat
      BY <2>1, <3>2, <3>3, <3>4, LessOne
    <3>6. Cardinality(LiveOf(h) \ {x}) < b.perEndpoint
      BY <1>9, <3>1, <3>3, <3>5
    <3> QED BY <1>5, <3>6
  <2> QED BY <2>5, <2>6
<1>13. ASSUME InWindow(a, b.window),
              \A l \in TermsSince(a) : l.perWindow <= b.perWindow /\ l.window >= b.window
       PROVE  u.window < b.perWindow
  <2>1. W \in SUBSET Reserved /\ x \in W
    BY <1>13 DEF WindowOf
  <2> DEFINE Fits(c) == /\ HostOf[c] = h /\ W \subseteq Upto(c)
                        /\ run[c].created \in Nat /\ run[c].created <= now
                        /\ run[c].terms.window \in Nat /\ run[c].terms.window >= b.window
  <2>2. PICK n \in W : W \subseteq Upto(n[1]) /\ (n \in Upto(a) => W \subseteq Upto(a))
    <3> HIDE DEF W
    <3> QED BY <2>1, NewestOf
  <2>3. ASSUME NEW c, Fits(c) PROVE W \subseteq WindowUpto(c)
    <3> SUFFICES ASSUME NEW y \in W PROVE y \in WindowUpto(c)
      OBVIOUS
    <3>1. y \in Upto(c) /\ HostOf[y[1]] = HostOf[c]
      BY <2>3 DEF WindowOf
    <3>2. y \in Reserved /\ run[y[1]].created >= now - b.window
      BY DEF WindowOf, InWindow
    <3>3. run[y[1]].created \in Nat
      BY <1>3, <3>2
    <3>4. run[y[1]].created >= run[c].created - run[c].terms.window
      BY <1>2, <1>9, <2>3, <3>2, <3>3
    <3> QED BY <3>1, <3>4 DEF WindowUpto
  <2>4. HostOf[a] = h /\ HostOf[n[1]] = h /\ n \in Reserved
    BY DEF WindowOf
  <2>5. CASE n \in Upto(a)
    <3>1. Fits(a)
      BY <1>3, <1>9, <2>2, <2>4, <2>5
    <3>2. W \subseteq WindowUpto(a)
      BY <2>3, <3>1
    <3>3. Cardinality(WindowUpto(a)) <= b.perWindow
      BY <1>4 DEF Within
    <3>4. Cardinality(W \ {x}) < b.perWindow
      <4> HIDE DEF a, W
      <4> QED BY <1>8, <1>9, <2>1, <3>2, <3>3, LessOne
    <3> QED BY <1>5, <3>4
  <2>6. CASE n \notin Upto(a)
    <3>1. run[n[1]].terms.perWindow <= b.perWindow /\ run[n[1]].terms.window >= b.window
      BY <1>13, <2>4, <2>6, SinceMeans
    <3>2. Fits(n[1])
      BY <1>3, <2>2, <2>4, <3>1
    <3>3. W \subseteq WindowUpto(n[1])
      BY <2>3, <3>2
    <3>4. Cardinality(WindowUpto(n[1])) <= run[n[1]].terms.perWindow
      BY <1>4, <2>4 DEF Within
    <3>5. run[n[1]].terms.perWindow \in Nat /\ IsFiniteSet(WindowUpto(n[1]))
      BY <1>3, <1>8, <2>4
    <3> HIDE DEF W
    <3>6. /\ Cardinality(W \ {x}) < run[n[1]].terms.perWindow
          /\ Cardinality(W \ {x}) \in Nat
      BY <2>1, <3>3, <3>4, <3>5, LessOne
    <3>7. Cardinality(W \ {x}) < b.perWindow
      BY <1>9, <3>1, <3>5, <3>6
    <3> QED BY <1>5, <3>7
  <2> QED BY <2>5, <2>6
<1> QED BY <1>10, <1>11, <1>12, <1>13

LEMMA PlanInvSuffices == PlanInv => PlansHold
<1> SUFFICES ASSUME PlanInv PROVE PlansHold
  OBVIOUS
<1>1. RunsAreWhole
  BY TriageAssumption DEF PlanInv, Inv, Whole, SentIsNotStaged, RunsAreWhole, State
<1>2. BudgetsHold
  <2> SUFFICES ASSUME NEW x \in Reserved
               PROVE  LET a == x[1]
                          b == run[a].terms
                          host == {y \in Upto(a) : HostOf[y[1]] = HostOf[a]}
                      IN /\ Cardinality({y \in Reserved : y[1] = a}) <= b.perAlert
                         /\ Cardinality({y \in host : run[y[1]].created
                                                        >= run[a].created - b.window})
                              <= b.perWindow
                         /\ Cardinality({y \in host : IsLive(y)}) <= b.perEndpoint
                         /\ Cardinality({y \in Upto(a) : IsLive(y)}) <= b.global
    BY DEF BudgetsHold
  <2> DEFINE a == x[1]
             b == run[a].terms
             host == {y \in Upto(a) : HostOf[y[1]] = HostOf[a]}
  <2>1. Within(a)
    BY DEF PlanInv, Counted
  <2>2. {y \in Reserved : y[1] = a} = OfAlert(a) /\ {y \in Upto(a) : IsLive(y)} = LiveUpto(a)
    BY DEF OfAlert, LiveUpto
  <2>3. {y \in host : run[y[1]].created >= run[a].created - b.window} = WindowUpto(a)
    BY DEF WindowUpto
  <2>4. {y \in host : IsLive(y)} = HostUpto(a)
    BY DEF HostUpto
  <2> QED BY <2>1, <2>2, <2>3, <2>4 DEF Within
<1>3. AdmittedStaysAffordable
  BY LiveFits DEF AdmittedStaysAffordable
<1> QED BY <1>1, <1>2, <1>3 DEF PlansHold, PlanInv

\* Runs are whole; each is within the limits of the revision it was planned
\* under, together with everything reserved before it under whatever limits;
\* and what was admitted stays affordable until a run is filed under laxer
\* ones.  For any alerts, rules, endpoints and actions, and for policies whose
\* limits differ and change at will (start's savepoint, usage, guard).
THEOREM PlansAlwaysHold == Spec => []PlansHold
<1>1. Spec => []PlanInv
  BY InitPlan, StepPlan, PTL DEF Spec
<1> QED BY <1>1, PlanInvSuffices, PTL
=============================================================================
