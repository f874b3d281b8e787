------------------------- MODULE CommandQueueProofs -------------------------
(***************************************************************************)
(* Theorems about CommandQueue, for every set of commands, agents, result  *)
(* identities, actions, lifetimes, UTC offsets and bounds.                 *)
(*                                                                         *)
(* The inductive invariant adds two facts to the invariants of the runs: a *)
(* command that exists has a row, and one that still waits for its first   *)
(* dispatch was never handed out.  Without the second, cancellation and    *)
(* the delivery history cannot be related.                                 *)
(***************************************************************************)
EXTENDS CommandQueue, FiniteSetTheorems, TLAPS

\* A command past "ABSENT" has the row its INSERT wrote.
RowsExist == \A c \in Commands : state[c] # "ABSENT" => row[c] \in Rows

\* What is not yet dispatched has not been handed out.
UndispatchedIsUnseen ==
    \A c \in Commands : state[c] \in {"ABSENT", "AUTHORIZED"} => ~delivered[c]

IInv ==
    /\ TypeOK
    /\ RowsExist
    /\ UndispatchedIsUnseen
    /\ DeliveryHistory
    /\ OneOutcome

-----------------------------------------------------------------------------
\* The sweep only moves open commands, and only to EXPIRED.
LEMMA SweptLemma ==
    ASSUME IInv
    PROVE  /\ Swept \in [Commands -> States]
           /\ \A c \in Commands : Swept[c] = state[c] \/ Swept[c] = "EXPIRED"
           /\ \A c \in Commands : Swept[c] # state[c] => state[c] \in OpenStates
           /\ \A c \in Commands : (Swept[c] = "ABSENT") <=> (state[c] = "ABSENT")
           /\ SweptAudit \in [Commands -> SUBSET Facts]
           /\ \A c \in Commands :
                 Fact("dispatched") \in SweptAudit[c] <=> Fact("dispatched") \in audit[c]
  BY DEF IInv, TypeOK, Swept, Stale, States, Terminal, ResultStates, OpenStates, SweptAudit,
         Record, Fact, Facts

\* An outcome closes a command with one of the four result states.
LEMMA FinalStateLemma ==
    ASSUME NEW o \in Outcomes
    PROVE  FinalState(o) \in ResultStates
  BY ConstantsAssumption DEF FinalState, ResultStates, AllOutcomes

\* A step that records no result and neither opens nor closes a command with
\* an outcome keeps OneOutcome.
LEMMA KeepsOneOutcome ==
    ASSUME IInv, results' = results,
           \A c \in Commands : \/ state'[c] = state[c]
                               \/ state[c] \notin ResultStates /\ state'[c] \notin ResultStates
    PROVE  OneOutcome'
  <1>1. \A x \in results : x.cmd \in Commands /\ x.outcome \in Outcomes
    BY DEF IInv, TypeOK, Results
  <1>2. \A x \in results : state[x.cmd] \in ResultStates
    BY <1>1, FinalStateLemma DEF IInv, OneOutcome
  <1>3. \A x \in results : state'[x.cmd] = state[x.cmd]
    BY <1>1, <1>2
  <1>4. QED
    BY <1>1, <1>2, <1>3 DEF IInv, OneOutcome

-----------------------------------------------------------------------------
LEMMA InitIInv == Init => IInv
  BY ConstantsAssumption
  DEF Init, IInv, TypeOK, RowsExist, UndispatchedIsUnseen, DeliveryHistory, OneOutcome,
      States, ResultStates, Terminal, NoReply, Replies, Channels, Fact

LEMMA EnqueueIInv ==
    ASSUME IInv, NEW c \in Commands, NEW a \in Agents, NEW act \in Actions,
           NEW life \in Nat, NEW off \in Int, NEW linked \in BOOLEAN,
           AuthorizeAndEnqueue(c, a, act, life, off, linked)
    PROVE  IInv'
  <1> DEFINE new == [agent |-> a, action |-> act, signed |-> signer = "ready",
                     linked |-> linked, expires |-> now + life,
                     text |-> now + life + off, created |-> now]
  <1>1. new \in Rows
    BY DEF IInv, TypeOK, Rows
  <1>2. TypeOK'
    BY <1>1 DEF IInv, TypeOK, AuthorizeAndEnqueue, States, NoReply, Replies
  <1>3. RowsExist'
    BY <1>1 DEF IInv, TypeOK, RowsExist, AuthorizeAndEnqueue
  <1>4. UndispatchedIsUnseen' /\ DeliveryHistory'
    BY DEF IInv, TypeOK, UndispatchedIsUnseen, DeliveryHistory, AuthorizeAndEnqueue,
           ResultStates, Fact
  <1>5. OneOutcome'
    BY KeepsOneOutcome DEF IInv, TypeOK, AuthorizeAndEnqueue, ResultStates
  <1>6. QED
    BY <1>2, <1>3, <1>4, <1>5 DEF IInv

\* What the sweep alone leaves behind: every handler that commits without a
\* further transition, and the common part of those that make one.
LEMMA SweepIInv ==
    ASSUME IInv, state' = Swept, audit' = SweptAudit,
           UNCHANGED <<now, row, delivered, results, active, signer>>,
           receipts' \subseteq Receipts, channel' \in [Agents -> Channels], reply' \in Replies
    PROVE  IInv'
  <1>1. TypeOK'
    BY SweptLemma DEF IInv, TypeOK
  <1>2. RowsExist'
    BY SweptLemma DEF IInv, RowsExist
  <1>3. UndispatchedIsUnseen' /\ DeliveryHistory'
    BY SweptLemma
    DEF IInv, UndispatchedIsUnseen, DeliveryHistory, ResultStates, OpenStates, Fact
  <1>4. OneOutcome'
    BY SweptLemma, KeepsOneOutcome DEF ResultStates, OpenStates
  <1>5. QED
    BY <1>1, <1>2, <1>3, <1>4 DEF IInv

\* The channel a poll leaves behind is a channel.
LEMMA ObserveLemma ==
    ASSUME IInv, NEW a \in Agents, NEW auth \in BOOLEAN, NEW report \in Reports,
           Observe(a, auth, report)
    PROVE  channel' \in [Agents -> Channels]
  <1>1. report.blocked \in SUBSET Actions /\ report.sign \in BOOLEAN
    BY ConstantsAssumption
  <1>2. channel[a].auth \in BOOLEAN
    BY DEF IInv, TypeOK, Channels
  <1>3. (channel[a].auth \/ auth \/ report.sign) \in BOOLEAN
    BY Zenon
  <1>4. [auth |-> channel[a].auth \/ auth \/ report.sign, blocked |-> report.blocked,
         at |-> IF report.blocked = {} THEN 0 ELSE now] \in Channels
    BY <1>1, <1>3 DEF IInv, TypeOK, Channels
  <1>5. QED
    BY <1>4 DEF IInv, TypeOK, Observe

LEMMA PollRefusedIInv ==
    ASSUME IInv, NEW a \in Agents, NEW auth \in BOOLEAN, NEW report \in Reports,
           NEW why \in SUBSET Commands, PollRefused(a, auth, report, why)
    PROVE  IInv'
  <1>1. channel' \in [Agents -> Channels]
    BY ObserveLemma DEF PollRefused
  <1>2. reply' \in Replies
    BY DEF PollRefused, Replies
  <1>3. QED
    BY <1>1, <1>2, SweepIInv DEF PollRefused, IInv, TypeOK

LEMMA PollDeliverIInv ==
    ASSUME IInv, NEW a \in Agents, NEW mode \in {"single", "durable"}, NEW auth \in BOOLEAN,
           NEW report \in Reports, PollDeliver(a, mode, auth, report)
    PROVE  IInv'
  <1>1. PICK B \in Batches(Eligible(a, mode, report)) :
           /\ state' = [c \in Commands |-> IF c \in B THEN "DISPATCHED" ELSE Swept[c]]
           /\ delivered' = [c \in Commands |-> c \in B \/ delivered[c]]
           /\ audit' = Record(SweptAudit, B, Fact("dispatched"))
           /\ reply' = [op |-> "poll", agent |-> a, cmds |-> B, auth |-> auth]
    BY DEF PollDeliver
  <1>2. B \subseteq Commands /\ \A c \in B : Swept[c] \in {"AUTHORIZED", "DISPATCHED"}
    BY DEF Batches, Eligible
  <1>3. \A c \in B : state[c] \in {"AUTHORIZED", "DISPATCHED"}
    BY <1>2, SweptLemma
  <1>4. UNCHANGED <<now, row, results, receipts, active, signer>>
    BY DEF PollDeliver
  <1>5. TypeOK'
    <2>1. channel' \in [Agents -> Channels]
      BY ObserveLemma DEF PollDeliver
    <2>2. reply' \in Replies
      BY <1>1, <1>2 DEF Replies
    <2>3. delivered' \in [Commands -> BOOLEAN]
      BY <1>1, Zenon
    <2>4. state' \in [Commands -> States]
      BY <1>1, SweptLemma DEF States
    <2>5. audit' \in [Commands -> SUBSET Facts]
      BY <1>1, SweptLemma DEF Record, Fact, Facts
    <2>6. QED
      BY <1>4, <2>1, <2>2, <2>3, <2>4, <2>5 DEF IInv, TypeOK
  <1>6. RowsExist'
    BY <1>1, <1>3, <1>4, SweptLemma DEF IInv, RowsExist
  <1>7. UndispatchedIsUnseen'
    BY <1>1, SweptLemma DEF IInv, UndispatchedIsUnseen
  <1>8. DeliveryHistory'
    <2>1. \A c \in Commands :
             state'[c] \in ResultStates \cup {"DISPATCHED", "ACCEPTED"} => delivered'[c]
      BY <1>1, SweptLemma DEF IInv, DeliveryHistory, ResultStates
    <2>2. \A c \in Commands : state'[c] = "CANCELLED" => ~delivered'[c]
      BY <1>1, SweptLemma DEF IInv, DeliveryHistory
    <2>3. \A c \in Commands : delivered'[c] <=> Fact("dispatched") \in audit'[c]
      BY <1>1, SweptLemma DEF IInv, DeliveryHistory, Record
    <2>4. QED
      BY <2>1, <2>2, <2>3 DEF DeliveryHistory, Fact
  <1>9. OneOutcome'
    BY <1>1, <1>3, <1>4, SweptLemma, KeepsOneOutcome DEF ResultStates, OpenStates
  <1>10. QED
    BY <1>5, <1>6, <1>7, <1>8, <1>9 DEF IInv

LEMMA PollIInv ==
    ASSUME IInv, NEW a \in Agents, NEW mode \in {"single", "durable"}, NEW auth \in BOOLEAN,
           NEW report \in Reports, Poll(a, mode, auth, report)
    PROVE  IInv'
  <1>1. CASE PollMustNegotiate(a, auth, report)
    BY <1>1, PollRefusedIInv DEF PollMustNegotiate
  <1>2. CASE PollUnsigned(a, mode, report)
    <2>1. PICK B \in Batches(Eligible(a, mode, report)) :
             PollRefused(a, TRUE, report, {c \in B : ~row[c].signed})
      BY <1>2 DEF PollUnsigned
    <2>2. {c \in B : ~row[c].signed} \in SUBSET Commands
      BY DEF Batches, Eligible
    <2>3. QED
      BY <2>1, <2>2, PollRefusedIInv
  <1>3. CASE PollDeliver(a, mode, auth, report)
    BY <1>3, PollDeliverIInv
  <1>4. QED
    BY <1>1, <1>2, <1>3 DEF Poll

\* One command c moves out of an open state while the rest is swept.
LEMMA MoveIInv ==
    ASSUME IInv, NEW c \in Commands, NEW to \in {"ACCEPTED", "CANCELLED"},
           NEW f \in Facts, f # Fact("dispatched"),
           to = "ACCEPTED" => Swept[c] = "DISPATCHED",
           to = "CANCELLED" => Swept[c] \in {"AUTHORIZED", "CANCELLED"},
           state' = [Swept EXCEPT ![c] = to],
           audit' = Record(SweptAudit, {c}, f),
           UNCHANGED <<now, row, delivered, results, receipts, channel, active, signer>>,
           reply' \in Replies
    PROVE  IInv'
  <1>1. TypeOK'
    BY SweptLemma DEF IInv, TypeOK, States, Terminal, Record
  <1>2. RowsExist'
    BY SweptLemma DEF IInv, RowsExist
  <1>3. UndispatchedIsUnseen'
    BY SweptLemma DEF IInv, UndispatchedIsUnseen
  <1>4. DeliveryHistory'
    <2>1. \A d \in Commands :
             state'[d] \in ResultStates \cup {"DISPATCHED", "ACCEPTED"} => delivered'[d]
      BY SweptLemma DEF IInv, DeliveryHistory, ResultStates
    <2>2. \A d \in Commands : state'[d] = "CANCELLED" => ~delivered'[d]
      BY SweptLemma DEF IInv, DeliveryHistory, UndispatchedIsUnseen
    <2>3. \A d \in Commands : delivered'[d] <=> Fact("dispatched") \in audit'[d]
      BY SweptLemma DEF IInv, DeliveryHistory, Record
    <2>4. QED
      BY <2>1, <2>2, <2>3 DEF DeliveryHistory, Fact
  <1>5. OneOutcome'
    BY SweptLemma, KeepsOneOutcome DEF ResultStates, OpenStates
  <1>6. QED
    BY <1>1, <1>2, <1>3, <1>4, <1>5 DEF IInv

LEMMA AcceptIInv ==
    ASSUME IInv, NEW a \in Agents, NEW c \in Commands, Accept(a, c)
    PROVE  IInv'
  <1>1. CASE AcceptRefused(a, c)
    <2>1. reply' \in Replies
      BY <1>1 DEF AcceptRefused, NoReply, Replies
    <2>2. QED
      BY <1>1, <2>1, SweepIInv DEF AcceptRefused, IInv, TypeOK
  <1>2. CASE AcceptGranted(a, c)
    <2>1. reply' \in Replies
      BY <1>2 DEF AcceptGranted, Replies
    <2>2. CASE Swept[c] = "DISPATCHED"
      BY <1>2, <2>1, <2>2, MoveIInv DEF AcceptGranted, Facts, Fact
    <2>3. CASE Swept[c] # "DISPATCHED"
      BY <1>2, <2>1, <2>3, SweepIInv DEF AcceptGranted, IInv, TypeOK
    <2>4. QED
      BY <2>2, <2>3
  <1>3. QED
    BY <1>1, <1>2 DEF Accept

LEMMA CancelIInv ==
    ASSUME IInv, NEW c \in Commands, CancelQueued(c)
    PROVE  IInv'
  <1>1. reply' \in Replies
    BY DEF CancelQueued, NoReply, Replies
  <1>2. QED
    BY <1>1, MoveIInv DEF CancelQueued, Facts, Fact

\* A retained receipt is a receipt.
LEMMA RetainedLemma ==
    ASSUME IInv, NEW a \in Agents, NEW c \in Commands, NEW r \in ResultIds,
           NEW version \in {1, 2}, NEW o \in Outcomes
    PROVE  Retained(a, c, r, version, o) \subseteq Receipts
  BY DEF IInv, TypeOK, Retained, Receipt, Receipts

\* A result that is applied: c was in flight, so no earlier row names it.
LEMMA ResultAppliedIInv ==
    ASSUME IInv, NEW a \in Agents, NEW c \in Commands, NEW r \in ResultIds,
           NEW version \in {1, 2}, NEW o \in Outcomes,
           ResultReceived(a, c, r, version, o), ~ \E x \in results : x.rid = r
    PROVE  IInv'
  <1> DEFINE new == [rid |-> r, cmd |-> c, outcome |-> o]
  <1>1. /\ results' = results \cup {new}
        /\ state' = [Swept EXCEPT ![c] = FinalState(o)]
        /\ Swept[c] \in {"DISPATCHED", "ACCEPTED"}
        /\ audit' = Record(SweptAudit, {c}, [event |-> "result_received", detail |-> o])
        /\ UNCHANGED <<now, row, delivered, channel, active, signer>>
    BY DEF ResultReceived
  <1>2. state[c] \in {"DISPATCHED", "ACCEPTED"}
    BY <1>1, SweptLemma
  <1>3. FinalState(o) \in ResultStates
    BY FinalStateLemma
  <1>4. TypeOK'
    <2>1. reply' \in Replies
      BY DEF ResultReceived, NoReply, Replies
    <2>2. receipts' \subseteq Receipts
      BY RetainedLemma DEF ResultReceived
    <2>3. results' \subseteq Results
      BY <1>1 DEF IInv, TypeOK, Results
    <2>4. state' \in [Commands -> States]
      BY <1>1, <1>3, SweptLemma DEF States, Terminal
    <2>5. audit' \in [Commands -> SUBSET Facts]
      BY <1>1, SweptLemma DEF Record, Facts
    <2>6. QED
      BY <1>1, <2>1, <2>2, <2>3, <2>4, <2>5 DEF IInv, TypeOK
  <1>5. RowsExist'
    BY <1>1, <1>2, SweptLemma DEF IInv, RowsExist
  <1>6. UndispatchedIsUnseen'
    BY <1>1, <1>3, SweptLemma DEF IInv, UndispatchedIsUnseen, ResultStates
  <1>7. DeliveryHistory'
    <2>1. \A d \in Commands :
             state'[d] \in ResultStates \cup {"DISPATCHED", "ACCEPTED"} => delivered'[d]
      BY <1>1, <1>2, SweptLemma DEF IInv, DeliveryHistory, ResultStates
    <2>2. \A d \in Commands : state'[d] = "CANCELLED" => ~delivered'[d]
      BY <1>1, <1>3, SweptLemma DEF IInv, DeliveryHistory, ResultStates
    <2>3. \A d \in Commands : delivered'[d] <=> Fact("dispatched") \in audit'[d]
      BY <1>1, SweptLemma DEF IInv, DeliveryHistory, Record, Fact
    <2>4. QED
      BY <2>1, <2>2, <2>3 DEF DeliveryHistory, Fact
  <1>8. OneOutcome'
    <2>1. \A x \in results : x.cmd \in Commands /\ x.outcome \in Outcomes
      BY DEF IInv, TypeOK, Results
    <2>2. \A x \in results : state[x.cmd] \in ResultStates
      BY <2>1, FinalStateLemma DEF IInv, OneOutcome
    <2>3. \A x \in results : x.cmd # c /\ state'[x.cmd] = state[x.cmd]
      BY <1>1, <1>2, <2>1, <2>2, SweptLemma DEF ResultStates, OpenStates
    <2>4. \A x \in results' : state'[x.cmd] = FinalState(x.outcome)
      BY <1>1, <2>1, <2>3, SweptLemma DEF IInv, OneOutcome
    <2>5. \A x, y \in results' : x.cmd = y.cmd => x = y
      BY <1>1, <2>3 DEF IInv, OneOutcome
    <2>6. ASSUME NEW d \in Commands, state'[d] \in ResultStates
          PROVE  \E x \in results' : x.cmd = d
      <3>1. CASE d = c
        <4>1. new \in results' /\ new.cmd = d
          BY <1>1, <3>1
        <4>2. QED
          BY <4>1
      <3>2. CASE d # c
        <4>1. state[d] \in ResultStates
          BY <1>1, <2>6, <3>2, SweptLemma DEF ResultStates
        <4>2. QED
          BY <1>1, <4>1 DEF IInv, OneOutcome
      <3>3. QED
        BY <3>1, <3>2
    <2>7. QED
      BY <2>4, <2>5, <2>6 DEF OneOutcome
  <1>9. QED
    BY <1>4, <1>5, <1>6, <1>7, <1>8 DEF IInv

\* A result whose identity was already used: only the sweep and the audit.
LEMMA ResultCollidesIInv ==
    ASSUME IInv, NEW a \in Agents, NEW c \in Commands, NEW r \in ResultIds,
           NEW version \in {1, 2}, NEW o \in Outcomes,
           ResultReceived(a, c, r, version, o), \E x \in results : x.rid = r
    PROVE  IInv'
  <1>1. /\ results' = results
        /\ state' = Swept
        /\ audit' = Record(SweptAudit, {c}, [event |-> "result_received", detail |-> o])
        /\ UNCHANGED <<now, row, delivered, channel, active, signer>>
    BY DEF ResultReceived
  <1>2. TypeOK'
    <2>1. reply' \in Replies
      BY DEF ResultReceived, NoReply, Replies
    <2>2. receipts' \subseteq Receipts
      BY RetainedLemma DEF ResultReceived
    <2>3. audit' \in [Commands -> SUBSET Facts]
      BY <1>1, SweptLemma DEF Record, Facts
    <2>4. QED
      BY <1>1, <2>1, <2>2, <2>3, SweptLemma DEF IInv, TypeOK
  <1>3. RowsExist'
    BY <1>1, SweptLemma DEF IInv, RowsExist
  <1>4. UndispatchedIsUnseen'
    BY <1>1, SweptLemma DEF IInv, UndispatchedIsUnseen
  <1>5. DeliveryHistory'
    <2>1. \A d \in Commands : delivered'[d] <=> Fact("dispatched") \in audit'[d]
      BY <1>1, SweptLemma DEF IInv, DeliveryHistory, Record, Fact
    <2>2. QED
      BY <1>1, <2>1, SweptLemma DEF IInv, DeliveryHistory, ResultStates, Fact
  <1>6. OneOutcome'
    BY <1>1, SweptLemma, KeepsOneOutcome DEF ResultStates, OpenStates
  <1>7. QED
    BY <1>2, <1>3, <1>4, <1>5, <1>6 DEF IInv

LEMMA SubmitResultIInv ==
    ASSUME IInv, NEW a \in Agents, NEW c \in Commands, NEW r \in ResultIds,
           NEW version \in {1, 2}, NEW o \in Outcomes,
           SubmitResult(a, c, r, version, o)
    PROVE  IInv'
  <1>1. CASE ResultIgnored(a, c, r, version, o)
    <2>1. reply' \in Replies
      BY <1>1 DEF ResultIgnored, NoReply, Replies
    <2>2. receipts' \subseteq Receipts
      BY <1>1, RetainedLemma DEF ResultIgnored
    <2>3. QED
      BY <1>1, <2>1, <2>2, SweepIInv DEF ResultIgnored, IInv, TypeOK
  <1>2. CASE ResultReceived(a, c, r, version, o)
    <2>1. CASE \E x \in results : x.rid = r
      BY <1>2, <2>1, ResultCollidesIInv, Zenon
    <2>2. CASE ~ \E x \in results : x.rid = r
      BY <1>2, <2>2, ResultAppliedIInv, Zenon
    <2>3. QED
      BY <2>1, <2>2
  <1>3. QED
    BY <1>1, <1>2 DEF SubmitResult

\* The actions that leave every command where it is.
LEMMA EnvironmentIInv ==
    ASSUME IInv, \/ Tick
                 \/ \E a \in Agents : Revoke(a)
                 \/ \E s \in Signers : ChangeSigner(s)
    PROVE  IInv'
  <1>1. UNCHANGED <<state, row, delivered, results, receipts, audit, channel>>
    BY DEF Tick, Revoke, ChangeSigner
  <1>2. TypeOK'
    <2>0. reply' = NoReply
      BY DEF Tick, Revoke, ChangeSigner
    <2>1. reply' \in Replies
      BY <2>0 DEF NoReply, Replies
    <2>2. now' \in Nat
      BY DEF IInv, TypeOK, Tick, Revoke, ChangeSigner
    <2>3. active' \in [Agents -> BOOLEAN]
      BY DEF IInv, TypeOK, Tick, Revoke, ChangeSigner
    <2>4. signer' \in Signers
      BY DEF IInv, TypeOK, Tick, Revoke, ChangeSigner
    <2>5. QED
      BY <1>1, <2>1, <2>2, <2>3, <2>4 DEF IInv, TypeOK
  <1>3. OneOutcome'
    BY <1>1, KeepsOneOutcome
  <1>4. QED
    BY <1>1, <1>2, <1>3
    DEF IInv, RowsExist, UndispatchedIsUnseen, DeliveryHistory, ResultStates, Fact

LEMMA ListSweepIInv ==
    ASSUME IInv, ListSweep
    PROVE  IInv'
  <1>1. reply' \in Replies
    BY DEF ListSweep, NoReply, Replies
  <1>2. QED
    BY <1>1, SweepIInv DEF ListSweep, IInv, TypeOK

LEMMA StutterIInv ==
    ASSUME IInv, UNCHANGED vars
    PROVE  IInv'
  BY DEF vars, IInv, TypeOK, RowsExist, UndispatchedIsUnseen, DeliveryHistory, OneOutcome, Fact

LEMMA NextIInv == IInv /\ [Next]_vars => IInv'
  <1> SUFFICES ASSUME IInv, [Next]_vars
               PROVE  IInv'
    OBVIOUS
  <1>1. CASE \E c \in Commands, a \in Agents, act \in Actions, life \in Lifetimes, off \in Offsets :
                Enqueue(c, a, act, life, off)
    BY <1>1, EnqueueIInv, ConstantsAssumption DEF Enqueue
  <1>2. CASE \E c \in Commands, a \in Agents, act \in Actions : EnqueueStaged(c, a, act)
    <2>1. PICK c \in Commands, a \in Agents, act \in Actions :
             AuthorizeAndEnqueue(c, a, act, CommandTTL, 0, TRUE)
      BY <1>2 DEF EnqueueStaged
    <2>2. CommandTTL \in Nat /\ 0 \in Int /\ TRUE \in BOOLEAN
      BY ConstantsAssumption
    <2>3. QED
      BY <2>1, <2>2, EnqueueIInv, Zenon
  <1>3. CASE \E a \in Agents, mode \in {"single", "durable"}, auth \in BOOLEAN, report \in Reports :
                Poll(a, mode, auth, report)
    BY <1>3, PollIInv
  <1>4. CASE \E a \in Agents, c \in Commands : Accept(a, c)
    BY <1>4, AcceptIInv
  <1>5. CASE \E a \in Agents, c \in Commands, r \in ResultIds, v \in {1, 2}, o \in Outcomes :
                SubmitResult(a, c, r, v, o)
    BY <1>5, SubmitResultIInv
  <1>6. CASE \E c \in Commands : CancelQueued(c)
    BY <1>6, CancelIInv
  <1>7. CASE ListSweep
    BY <1>7, ListSweepIInv
  <1>8. CASE \/ Tick
             \/ \E a \in Agents : Revoke(a)
             \/ \E s \in Signers : ChangeSigner(s)
    BY <1>8, EnvironmentIInv
  <1>9. CASE UNCHANGED vars
    BY <1>9, StutterIInv
  <1>10. QED
    BY <1>1, <1>2, <1>3, <1>4, <1>5, <1>6, <1>7, <1>8, <1>9 DEF Next

-----------------------------------------------------------------------------
\* The inductive invariant holds of every reachable state.
THEOREM InductiveInvariant == Spec => []IInv
  BY InitIInv, NextIInv, PTL DEF Spec

\* Every reachable state is well typed.
THEOREM TypeCorrect == Spec => []TypeOK
  <1>1. IInv => TypeOK
    BY DEF IInv
  <1>2. QED
    BY <1>1, InductiveInvariant, PTL

\* A command carries an outcome exactly when one command_results row names it,
\* and then the same one, for any number of agents, commands, replayed or
\* colliding results (submit_result).
THEOREM OneOutcomeHolds == Spec => []OneOutcome
  <1>1. IInv => OneOutcome
    BY DEF IInv
  <1>2. QED
    BY <1>1, InductiveInvariant, PTL

\* Outcomes belong to handed-out commands and cancelled commands were never
\* handed out, in either delivery mode (poll, cancel_queued, submit_result).
THEOREM DeliveryHistoryHolds == Spec => []DeliveryHistory
  <1>1. IInv => DeliveryHistory
    BY DEF IInv
  <1>2. QED
    BY <1>1, InductiveInvariant, PTL

-----------------------------------------------------------------------------
(* Action properties *)

\* No action of Next serves a command of a revoked agent: whoever polls,
\* acknowledges or reports owns the command and is active.
LEMMA RevokedStep ==
    ASSUME IInv, Next, NEW c \in Commands, state[c] # "ABSENT", ~active[row[c].agent]
    PROVE  state'[c] \in {state[c], "EXPIRED", "CANCELLED"} /\ c \notin reply'.cmds
  <1> DEFINE Goal == state'[c] \in {state[c], "EXPIRED", "CANCELLED"} /\ c \notin reply'.cmds
  <1>1. \A d \in Commands : Swept[d] = state[d] \/ Swept[d] = "EXPIRED"
    BY SweptLemma
  <1>2. Swept \in [Commands -> States]
    BY SweptLemma
  <1>3. ASSUME NEW d \in Commands, NEW a \in Agents, NEW act, NEW life, NEW off, NEW linked,
               AuthorizeAndEnqueue(d, a, act, life, off, linked)
        PROVE  Goal
    BY <1>3 DEF AuthorizeAndEnqueue, IInv, TypeOK, NoReply
  <1>4. ASSUME NEW a \in Agents, NEW auth, NEW report, NEW why,
               PollRefused(a, auth, report, why), c \notin why
        PROVE  Goal
    BY <1>1, <1>4 DEF PollRefused
  <1>5. ASSUME NEW a \in Agents, NEW mode, NEW auth, NEW report, Poll(a, mode, auth, report)
        PROVE  Goal
    <2>1. CASE PollMustNegotiate(a, auth, report)
      BY <1>4, <2>1 DEF PollMustNegotiate
    <2>2. CASE PollUnsigned(a, mode, report)
      <3>1. PICK B \in Batches(Eligible(a, mode, report)) :
               PollRefused(a, TRUE, report, {d \in B : ~row[d].signed})
        BY <2>2 DEF PollUnsigned
      <3>2. c \notin B
        BY <3>1 DEF Batches, Eligible, Owns, PollRefused
      <3>3. QED
        BY <1>4, <3>1, <3>2
    <2>3. CASE PollDeliver(a, mode, auth, report)
      <3>1. PICK B \in Batches(Eligible(a, mode, report)) :
               /\ state' = [d \in Commands |-> IF d \in B THEN "DISPATCHED" ELSE Swept[d]]
               /\ reply' = [op |-> "poll", agent |-> a, cmds |-> B, auth |-> auth]
        BY <2>3 DEF PollDeliver
      <3>2. c \notin B
        BY <2>3, <3>1 DEF Batches, Eligible, Owns, PollDeliver
      <3>3. QED
        BY <1>1, <3>1, <3>2
    <2>4. QED
      BY <1>5, <2>1, <2>2, <2>3 DEF Poll
  <1>6. ASSUME NEW a \in Agents, NEW d \in Commands, Accept(a, d)
        PROVE  Goal
    <2>1. CASE AcceptRefused(a, d)
      BY <1>1, <2>1 DEF AcceptRefused, NoReply
    <2>2. CASE AcceptGranted(a, d)
      <3>1. c # d
        BY <2>2 DEF AcceptGranted, Owns
      <3>2. QED
        BY <1>1, <1>2, <2>2, <3>1 DEF AcceptGranted
    <2>3. QED
      BY <1>6, <2>1, <2>2 DEF Accept
  <1>7. ASSUME NEW a \in Agents, NEW d \in Commands, NEW r, NEW v, NEW o,
               SubmitResult(a, d, r, v, o)
        PROVE  Goal
    <2>1. c # d
      BY <1>7 DEF SubmitResult, ResultIgnored, ResultReceived, ResultAdmitted, Owns
    <2>2. state'[c] = Swept[c] /\ reply' = NoReply
      BY <1>2, <1>7, <2>1 DEF SubmitResult, ResultIgnored, ResultReceived
    <2>3. QED
      BY <1>1, <2>2 DEF NoReply
  <1>8. ASSUME NEW d \in Commands, CancelQueued(d)
        PROVE  Goal
    BY <1>1, <1>2, <1>8 DEF CancelQueued, NoReply
  <1>9. CASE ListSweep
    BY <1>1, <1>9 DEF ListSweep, NoReply
  <1>10. CASE Tick \/ (\E a \in Agents : Revoke(a)) \/ (\E s \in Signers : ChangeSigner(s))
    BY <1>10 DEF Tick, Revoke, ChangeSigner, NoReply
  <1>11. QED
    BY <1>3, <1>5, <1>6, <1>7, <1>8, <1>9, <1>10 DEF Next, Enqueue, EnqueueStaged

\* A revoked agent's commands are only ever swept or cancelled, and no reply
\* carries them (require_agent_token, repeated under the transaction).
THEOREM RevokedAgentIsInertHolds == Spec => RevokedAgentIsInert
  <1>1. IInv /\ [Next]_vars =>
           [\A c \in Commands :
              state[c] # "ABSENT" /\ ~active[row[c].agent]
                => state'[c] \in {state[c], "EXPIRED", "CANCELLED"} /\ c \notin reply'.cmds]_vars
    BY RevokedStep
  <1>2. QED
    BY <1>1, InductiveInvariant, PTL DEF Spec, RevokedAgentIsInert

\* Only authorize_and_enqueue opens a command, and it signs whatever it opens
\* for an endpoint that asked for signatures.
LEMMA SignedStep ==
    ASSUME IInv, Next, NEW c \in Commands,
           state[c] = "ABSENT", state'[c] # "ABSENT", channel[row'[c].agent].auth
    PROVE  row'[c].signed
  <1>1. Swept[c] = "ABSENT" /\ Swept \in [Commands -> States]
    BY SweptLemma
  <1>2. \E a \in Agents, act \in Actions, life \in Int, off \in Int, linked \in BOOLEAN :
           AuthorizeAndEnqueue(c, a, act, life, off, linked)
    <2>1. ASSUME NEW d \in Commands, NEW a \in Agents, NEW act \in Actions,
                 NEW life \in Int, NEW off \in Int, NEW linked \in BOOLEAN,
                 AuthorizeAndEnqueue(d, a, act, life, off, linked)
          PROVE  d = c
      BY <2>1 DEF AuthorizeAndEnqueue, IInv, TypeOK
    <2>2. ASSUME NEW a, NEW mode, NEW auth, NEW report, Poll(a, mode, auth, report)
          PROVE  FALSE
      BY <1>1, <2>2
      DEF Poll, PollMustNegotiate, PollUnsigned, PollRefused, PollDeliver, Batches, Eligible
    <2>3. ASSUME NEW a, NEW d \in Commands, Accept(a, d)
          PROVE  FALSE
      BY <1>1, <2>3 DEF Accept, AcceptRefused, AcceptGranted
    <2>4. ASSUME NEW a, NEW d \in Commands, NEW r, NEW v, NEW o, SubmitResult(a, d, r, v, o)
          PROVE  FALSE
      BY <1>1, <2>4 DEF SubmitResult, ResultIgnored, ResultReceived
    <2>5. ASSUME NEW d \in Commands, CancelQueued(d)
          PROVE  FALSE
      BY <1>1, <2>5 DEF CancelQueued
    <2>6. ~ListSweep
      BY <1>1 DEF ListSweep
    <2>7. ~(Tick \/ (\E a \in Agents : Revoke(a)) \/ (\E s \in Signers : ChangeSigner(s)))
      BY DEF Tick, Revoke, ChangeSigner
    <2>8. \/ \E d \in Commands, a \in Agents, act \in Actions, life \in Lifetimes, off \in Offsets :
                Enqueue(d, a, act, life, off)
          \/ \E d \in Commands, a \in Agents, act \in Actions : EnqueueStaged(d, a, act)
      BY <2>2, <2>3, <2>4, <2>5, <2>6, <2>7, Zenon DEF Next
    <2>9. CommandTTL \in Int /\ 0 \in Int /\ Lifetimes \subseteq Int /\ Offsets \subseteq Int
      <3>1. CommandTTL \in Nat \ {0} /\ Lifetimes \subseteq Nat \ {0} /\ Offsets \subseteq Int
        BY ConstantsAssumption, Zenon
      <3>2. QED
        BY <3>1
    <2>10. CASE \E d \in Commands, a \in Agents, act \in Actions : EnqueueStaged(d, a, act)
      BY <2>1, <2>9, <2>10 DEF EnqueueStaged
    <2>11. CASE \E d \in Commands, a \in Agents, act \in Actions, life \in Lifetimes,
                   off \in Offsets : Enqueue(d, a, act, life, off)
      BY <2>1, <2>9, <2>11 DEF Enqueue
    <2>12. QED
      BY <2>8, <2>10, <2>11
  <1>3. PICK a \in Agents, act \in Actions, life \in Int, off \in Int, linked \in BOOLEAN :
           AuthorizeAndEnqueue(c, a, act, life, off, linked)
    BY <1>2
  <1>4. signer \in {"off", "ready", "unavailable"}
    BY ConstantsAssumption DEF IInv, TypeOK
  <1>5. row'[c].agent = a /\ row'[c].signed = (signer = "ready")
    BY <1>3 DEF AuthorizeAndEnqueue, IInv, TypeOK
  <1>6. signer # "unavailable" /\ signer # "off"
    BY <1>3, <1>5 DEF AuthorizeAndEnqueue
  <1>7. QED
    BY <1>4, <1>5, <1>6

\* Only polls touch a channel; they add to its demand for signatures, and
\* their own demand is part of what they add.
LEMMA ChannelStep ==
    ASSUME IInv, Next
    PROVE  /\ reply'.op \in {"poll", "refused"} /\ reply'.auth => channel'[reply'.agent].auth
           /\ \A a \in Agents : channel[a].auth => channel'[a].auth
  <1> DEFINE Kept == /\ reply'.op \in {"poll", "refused"} /\ reply'.auth
                           => channel'[reply'.agent].auth
                     /\ \A a \in Agents : channel[a].auth => channel'[a].auth
  <1>1. ASSUME NEW a \in Agents, NEW auth, NEW report, Observe(a, auth, report),
               reply'.agent = a, reply'.auth = auth
        PROVE  Kept
    <2>1. channel'[a].auth = (channel[a].auth \/ auth \/ report.sign)
      BY <1>1 DEF Observe, IInv, TypeOK
    <2>2. \A b \in Agents \ {a} : channel'[b] = channel[b]
      BY <1>1 DEF Observe, IInv, TypeOK
    <2>3. channel[a].auth \/ auth => channel'[a].auth
      BY <2>1, Zenon
    <2>4. QED
      BY <1>1, <2>2, <2>3
  <1>2. ASSUME NEW a \in Agents, NEW mode, NEW auth \in BOOLEAN, NEW report,
               Poll(a, mode, auth, report)
        PROVE  Kept
    <2>1. CASE PollMustNegotiate(a, auth, report)
      BY <1>1, <2>1 DEF PollMustNegotiate, PollRefused
    <2>2. CASE PollUnsigned(a, mode, report)
      <3>1. PICK B \in Batches(Eligible(a, mode, report)) :
               PollRefused(a, TRUE, report, {d \in B : ~row[d].signed})
        BY <2>2 DEF PollUnsigned
      <3>2. Observe(a, TRUE, report) /\ reply'.agent = a /\ reply'.auth = TRUE
        BY <3>1 DEF PollRefused
      <3>3. QED
        BY <1>1, <3>2
    <2>3. CASE PollDeliver(a, mode, auth, report)
      <3>1. Observe(a, auth, report) /\ reply'.agent = a /\ reply'.auth = auth
        BY <2>3 DEF PollDeliver
      <3>2. QED
        BY <1>1, <3>1
    <2>4. QED
      BY <1>2, <2>1, <2>2, <2>3 DEF Poll
  <1>3. ASSUME channel' = channel, reply'.op \notin {"poll", "refused"}
        PROVE  Kept
    BY <1>3
  <1>4. ASSUME NEW d \in Commands, NEW a, NEW act, NEW life, NEW off, NEW linked,
               AuthorizeAndEnqueue(d, a, act, life, off, linked)
        PROVE  Kept
    BY <1>3, <1>4 DEF AuthorizeAndEnqueue, NoReply
  <1>5. ASSUME NEW a, NEW d, Accept(a, d)
        PROVE  Kept
    BY <1>3, <1>5 DEF Accept, AcceptRefused, AcceptGranted, NoReply
  <1>6. ASSUME NEW a, NEW d, NEW r, NEW v, NEW o, SubmitResult(a, d, r, v, o)
        PROVE  Kept
    BY <1>3, <1>6 DEF SubmitResult, ResultIgnored, ResultReceived, NoReply
  <1>7. ASSUME NEW d, CancelQueued(d)
        PROVE  Kept
    BY <1>3, <1>7 DEF CancelQueued, NoReply
  <1>8. ASSUME ListSweep
        PROVE  Kept
    BY <1>3, <1>8 DEF ListSweep, NoReply
  <1>9. ASSUME Tick \/ (\E a \in Agents : Revoke(a)) \/ (\E s \in Signers : ChangeSigner(s))
        PROVE  Kept
    BY <1>3, <1>9 DEF Tick, Revoke, ChangeSigner, NoReply
  <1> HIDE DEF Kept
  <1>10. Kept
    BY <1>2, <1>4, <1>5, <1>6, <1>7, <1>8, <1>9 DEF Next, Enqueue, EnqueueStaged
  <1>11. QED
    BY <1>10 DEF Kept

\* A demand for signatures is remembered, never forgotten, and binds every
\* later authorization (poll, agent_response_channels, authorize_and_enqueue).
THEOREM SignatureDemandIsKeptHolds == Spec => SignatureDemandIsKept
  <1>1. IInv /\ [Next]_vars =>
           [/\ reply'.op \in {"poll", "refused"} /\ reply'.auth => channel'[reply'.agent].auth
            /\ \A a \in Agents : channel[a].auth => channel'[a].auth
            /\ \A c \in Commands :
                  state[c] = "ABSENT" /\ state'[c] # "ABSENT" /\ channel[row'[c].agent].auth
                    => row'[c].signed]_vars
    BY SignedStep, ChannelStep
  <1>2. QED
    BY <1>1, InductiveInvariant, PTL DEF Spec, SignatureDemandIsKept

-----------------------------------------------------------------------------
(* What a reply says is true of the state it was answered from, which every *)
(* other step leaves behind with the reply.                                 *)

RepliesSound == CollectionGrantIsLive /\ BlockedWorkDoesNotStarve

\* A step that hands out and grants nothing has nothing to answer for.
LEMMA QuietReply ==
    ASSUME reply'.op \notin {"poll", "accept"}
    PROVE  RepliesSound'
  BY DEF RepliesSound, CollectionGrantIsLive, BlockedWorkDoesNotStarve

\* A command that is still open after the sweep has not lapsed.
LEMMA SweptIsLive ==
    ASSUME IInv, NEW c \in Commands, Swept[c] \in OpenStates
    PROVE  state[c] = Swept[c] /\ ~LapsedText(c) /\ row[c] \in Rows
  BY DEF IInv, RowsExist, Swept, Stale, OpenStates

\* A batch with room left holds everything there was to hand out.
LEMMA RoomMeansAll ==
    ASSUME NEW E \in SUBSET Commands, NEW B \in Batches(E), Cardinality(B) < BatchLimit
    PROVE  B = E
  <1>1. IsFiniteSet(E) /\ B \in SUBSET E
    BY ConstantsAssumption, FS_Subset DEF Batches
  <1>2. Cardinality(E) \in Nat /\ BatchLimit \in Nat
    BY <1>1, FS_CardinalityType, ConstantsAssumption
  <1>3. Cardinality(B) = IF Cardinality(E) < BatchLimit THEN Cardinality(E) ELSE BatchLimit
    BY DEF Batches
  <1>4. Cardinality(E) = Cardinality(B)
    BY <1>2, <1>3
  <1>5. QED
    BY <1>1, <1>4, FS_Subset

LEMMA PollDeliverSound ==
    ASSUME IInv, NEW a \in Agents, NEW mode \in {"single", "durable"}, NEW auth \in BOOLEAN,
           NEW report \in Reports, PollDeliver(a, mode, auth, report)
    PROVE  RepliesSound'
  <1>1. PICK B \in Batches(Eligible(a, mode, report)) :
          /\ state' = [c \in Commands |-> IF c \in B THEN "DISPATCHED" ELSE Swept[c]]
          /\ reply' = [op |-> "poll", agent |-> a, cmds |-> B, auth |-> auth]
    BY DEF PollDeliver
  <1>2. row' = row /\ now' = now
    BY DEF PollDeliver
  <1>3. channel'[a].blocked = report.blocked
    BY DEF PollDeliver, Observe, IInv, TypeOK
  <1>4. B \subseteq Eligible(a, mode, report) /\ Eligible(a, mode, report) \in SUBSET Commands
    BY DEF Batches, Eligible
  <1>6. CollectionGrantIsLive'
    BY <1>1 DEF CollectionGrantIsLive
  <1>7. BlockedWorkDoesNotStarve'
    <2>1. SUFFICES ASSUME Cardinality(B) < BatchLimit, NEW c \in Commands,
                          state'[c] = "AUTHORIZED", row[c].agent = a
                   PROVE  row[c].action \in report.blocked
      BY <1>1, <1>2, <1>3 DEF BlockedWorkDoesNotStarve
    <2>2. c \notin B /\ Swept[c] = "AUTHORIZED"
      BY <1>1, <2>1
    <2>3. state[c] = "AUTHORIZED" /\ ~LapsedText(c)
      BY <2>2, SweptIsLive DEF OpenStates
    <2>4. ~delivered[c]
      BY <2>3 DEF IInv, UndispatchedIsUnseen
    <2>5. c \notin Eligible(a, mode, report)
      BY <1>4, <2>1, <2>2, RoomMeansAll
    <2>6. QED
      BY <2>1, <2>2, <2>3, <2>4, <2>5 DEF Eligible, Owns
  <1>8. QED
    BY <1>6, <1>7 DEF RepliesSound

LEMMA AcceptGrantedSound ==
    ASSUME IInv, NEW a \in Agents, NEW c \in Commands, AcceptGranted(a, c)
    PROVE  RepliesSound'
  <1>1. reply' = [op |-> "accept", agent |-> a, cmds |-> {c}, auth |-> FALSE]
        /\ row' = row /\ now' = now
    BY DEF AcceptGranted
  <1>2. ASSUME row[c].action \in Collect
        PROVE  state'[c] = "ACCEPTED" /\ (row[c].text = row[c].expires => row[c].expires > now)
    <2>1. Swept[c] \in {"DISPATCHED", "ACCEPTED"}
      BY <1>2 DEF AcceptGranted
    <2>2. ~LapsedText(c) /\ row[c] \in Rows
      BY <2>1, SweptIsLive DEF OpenStates
    <2>3. now \in Nat
      BY DEF IInv, TypeOK
    <2>4. state'[c] = "ACCEPTED"
      BY <2>1 DEF AcceptGranted, Swept
    <2>5. QED
      BY <2>2, <2>3, <2>4 DEF LapsedText, Rows
  <1>3. CollectionGrantIsLive'
    BY <1>1, <1>2 DEF CollectionGrantIsLive
  <1>4. BlockedWorkDoesNotStarve'
    BY <1>1 DEF BlockedWorkDoesNotStarve
  <1>5. QED
    BY <1>3, <1>4 DEF RepliesSound

LEMMA StepSound == IInv /\ RepliesSound /\ [Next]_vars => RepliesSound'
  <1> SUFFICES ASSUME IInv, RepliesSound, [Next]_vars PROVE RepliesSound'
    OBVIOUS
  <1>1. CASE UNCHANGED vars
    BY <1>1
    DEF vars, RepliesSound, CollectionGrantIsLive, BlockedWorkDoesNotStarve
  <1>2. CASE reply' = NoReply
    BY <1>2, QuietReply DEF NoReply
  <1>3. CASE \E a \in Agents, mode \in {"single", "durable"}, auth \in BOOLEAN, report \in Reports :
                Poll(a, mode, auth, report)
    <2>1. PICK a \in Agents, mode \in {"single", "durable"}, auth \in BOOLEAN, report \in Reports :
             Poll(a, mode, auth, report)
      BY <1>3
    <2>2. CASE reply'.op = "refused"
      BY <2>2, QuietReply
    <2>3. CASE PollDeliver(a, mode, auth, report)
      BY <2>3, PollDeliverSound
    <2>4. CASE PollMustNegotiate(a, auth, report)
      BY <2>2, <2>4 DEF PollMustNegotiate, PollRefused
    <2>5. CASE PollUnsigned(a, mode, report)
      BY <2>2, <2>5 DEF PollUnsigned, PollRefused
    <2>6. QED
      BY <2>1, <2>3, <2>4, <2>5 DEF Poll
  <1>4. CASE \E a \in Agents, c \in Commands : Accept(a, c)
    BY <1>2, <1>4, AcceptGrantedSound DEF Accept, AcceptRefused
  <1>5. CASE \E a \in Agents, c \in Commands, r \in ResultIds, v \in {1, 2}, o \in Outcomes :
                SubmitResult(a, c, r, v, o)
    BY <1>2, <1>5 DEF SubmitResult, ResultIgnored, ResultReceived
  <1>6. CASE \/ \E c \in Commands, a \in Agents, act \in Actions, life \in Lifetimes, off \in Offsets :
                   Enqueue(c, a, act, life, off)
             \/ \E c \in Commands, a \in Agents, act \in Actions : EnqueueStaged(c, a, act)
    BY <1>2, <1>6 DEF Enqueue, EnqueueStaged, AuthorizeAndEnqueue
  <1>7. CASE (\E c \in Commands : CancelQueued(c)) \/ ListSweep
             \/ (\E a \in Agents : Revoke(a)) \/ (\E s \in Signers : ChangeSigner(s)) \/ Tick
    BY <1>2, <1>7 DEF CancelQueued, ListSweep, Revoke, ChangeSigner, Tick
  <1>8. QED
    BY <1>1, <1>3, <1>4, <1>5, <1>6, <1>7 DEF Next

LEMMA RepliesAlwaysSound == Spec => []RepliesSound
  <1>1. Init => RepliesSound
    BY DEF Init, NoReply, RepliesSound, CollectionGrantIsLive, BlockedWorkDoesNotStarve
  <1>2. QED
    BY <1>1, StepSound, InductiveInvariant, PTL DEF Spec

\* Permission to collect is only given for a command in flight, before it
\* expires (accept).
THEOREM CollectionGrantIsLiveHolds == Spec => []CollectionGrantIsLive
  <1>1. RepliesSound => CollectionGrantIsLive
    BY DEF RepliesSound
  <1>2. QED
    BY <1>1, RepliesAlwaysSound, PTL

\* Work the policy of an endpoint blocks takes no place in the batch of other
\* work (delivery_predicate before LIMIT), for any batch limit and any number
\* of commands.
THEOREM BlockedWorkDoesNotStarveHolds == Spec => []BlockedWorkDoesNotStarve
  <1>1. RepliesSound => BlockedWorkDoesNotStarve
    BY DEF RepliesSound
  <1>2. QED
    BY <1>1, RepliesAlwaysSound, PTL

-----------------------------------------------------------------------------
(* The queue implements CommandLifecycle.                                   *)

\* The one row that names a command decides the outcome shown for it.
LEMMA OutcomeInLemma ==
    ASSUME NEW R, NEW x \in R, \A y, z \in R : y.cmd = z.cmd => y = z
    PROVE  OutcomeIn(R, x.cmd) = x.outcome
  <1> DEFINE w == CHOOSE y \in R : y.cmd = x.cmd
  <1>1. w \in R /\ w.cmd = x.cmd
    BY Zenon
  <1>2. w = x
    BY <1>1
  <1>3. QED
    BY <1>2, Zenon DEF OutcomeIn

\* What a step may do to one command when it records no result.
Moves(c) ==
    \/ state'[c] = state[c]
    \/ state[c] = "ABSENT" /\ state'[c] = "AUTHORIZED"
    \/ state[c] = "AUTHORIZED" /\ state'[c] \in {"DISPATCHED", "CANCELLED"}
    \/ state[c] = "DISPATCHED" /\ state'[c] = "ACCEPTED"
    \/ state[c] \in {"AUTHORIZED", "DISPATCHED", "ACCEPTED"} /\ state'[c] = "EXPIRED"

\* The result rows after a step, and what became of every command.
LEMMA StepMoves ==
    ASSUME IInv, Next
    PROVE  \/ results' = results /\ \A c \in Commands : Moves(c)
           \/ \E d \in Commands, r \in ResultIds, o \in Outcomes :
                 /\ state[d] \in {"DISPATCHED", "ACCEPTED"}
                 /\ results' = results \cup {[rid |-> r, cmd |-> d, outcome |-> o]}
                 /\ state'[d] = FinalState(o)
                 /\ \A c \in Commands \ {d} : Moves(c)
  <1> DEFINE Quiet == results' = results /\ \A c \in Commands : Moves(c)
  <1> DEFINE Closing ==
        \E d \in Commands, r \in ResultIds, o \in Outcomes :
           /\ state[d] \in {"DISPATCHED", "ACCEPTED"}
           /\ results' = results \cup {[rid |-> r, cmd |-> d, outcome |-> o]}
           /\ state'[d] = FinalState(o)
           /\ \A c \in Commands \ {d} : Moves(c)
  <1>1. /\ Swept \in [Commands -> States]
        /\ \A c \in Commands : Swept[c] = state[c] \/ Swept[c] = "EXPIRED"
        /\ \A c \in Commands : Swept[c] # state[c] =>
              state[c] \in {"AUTHORIZED", "DISPATCHED", "ACCEPTED"}
    BY SweptLemma DEF OpenStates
  <1>2. ASSUME NEW d \in Commands, NEW a, NEW act, NEW life, NEW off, NEW linked,
               AuthorizeAndEnqueue(d, a, act, life, off, linked)
        PROVE  Quiet
    BY <1>2 DEF AuthorizeAndEnqueue, IInv, TypeOK, Moves
  <1>3. ASSUME NEW a, NEW auth, NEW report, NEW why, PollRefused(a, auth, report, why)
        PROVE  Quiet
    BY <1>1, <1>3 DEF PollRefused, Moves
  <1>4. ASSUME NEW a, NEW mode, NEW auth, NEW report, PollDeliver(a, mode, auth, report)
        PROVE  Quiet
    <2>1. PICK B \in Batches(Eligible(a, mode, report)) :
             state' = [c \in Commands |-> IF c \in B THEN "DISPATCHED" ELSE Swept[c]]
      BY <1>4 DEF PollDeliver
    <2>2. \A c \in B : Swept[c] \in {"AUTHORIZED", "DISPATCHED"}
      BY DEF Batches, Eligible
    <2>3. QED
      BY <1>1, <1>4, <2>1, <2>2 DEF PollDeliver, Moves
  <1>5. ASSUME NEW a, NEW mode, NEW auth, NEW report, Poll(a, mode, auth, report)
        PROVE  Quiet
    BY <1>3, <1>4, <1>5, Zenon DEF Poll, PollMustNegotiate, PollUnsigned
  <1>6. ASSUME NEW a, NEW d \in Commands, Accept(a, d)
        PROVE  Quiet
    BY <1>1, <1>6 DEF Accept, AcceptRefused, AcceptGranted, Moves
  <1>7. ASSUME NEW a, NEW d \in Commands, NEW r \in ResultIds, NEW v, NEW o \in Outcomes,
               SubmitResult(a, d, r, v, o)
        PROVE  Quiet \/ Closing
    <2>1. CASE ResultIgnored(a, d, r, v, o)
      BY <1>1, <2>1 DEF ResultIgnored, Moves
    <2>2. CASE ResultReceived(a, d, r, v, o) /\ \E x \in results : x.rid = r
      BY <1>1, <2>2 DEF ResultReceived, Moves
    <2>3. CASE ResultReceived(a, d, r, v, o) /\ ~ \E x \in results : x.rid = r
      <3>1. state[d] \in {"DISPATCHED", "ACCEPTED"}
        BY <1>1, <2>3 DEF ResultReceived
      <3>2. results' = results \cup {[rid |-> r, cmd |-> d, outcome |-> o]}
        BY <2>3 DEF ResultReceived
      <3>3. state' = [Swept EXCEPT ![d] = FinalState(o)]
        BY <2>3 DEF ResultReceived
      <3>4. state'[d] = FinalState(o) /\ \A c \in Commands \ {d} : Moves(c)
        BY <1>1, <3>3 DEF Moves
      <3>5. QED
        BY <3>1, <3>2, <3>4, Zenon
    <2>4. QED
      BY <1>7, <2>1, <2>2, <2>3 DEF SubmitResult
  <1>8. ASSUME NEW d \in Commands, CancelQueued(d)
        PROVE  Quiet
    BY <1>1, <1>8 DEF CancelQueued, Moves
  <1>9. ASSUME ListSweep
        PROVE  Quiet
    BY <1>1, <1>9 DEF ListSweep, Moves
  <1>10. ASSUME Tick \/ (\E a \in Agents : Revoke(a)) \/ (\E s \in Signers : ChangeSigner(s))
         PROVE  Quiet
    BY <1>10 DEF Tick, Revoke, ChangeSigner, Moves
  <1> HIDE DEF Quiet, Closing
  <1>11. Quiet \/ Closing
    BY <1>2, <1>5, <1>6, <1>7, <1>8, <1>9, <1>10 DEF Next, Enqueue, EnqueueStaged
  <1>12. QED
    BY <1>11 DEF Quiet, Closing

\* One step of the queue, seen through the refinement mapping.
LEMMA StepRefines ==
    ASSUME IInv, IInv', Next
    PROVE  Lifecycle!Next
  <1>1. DOMAIN state' = Commands
    BY DEF IInv, TypeOK
  <1>2. CASE results' = results /\ \A c \in Commands : Moves(c)
    <2>1. \A c \in Commands : Lifecycle!Rest(c) \/ Lifecycle!Move(c)
      BY <1>2 DEF Moves, Lifecycle!Rest, Lifecycle!Move
    <2>2. QED
      BY <1>1, <2>1 DEF Lifecycle!Next
  <1>3. ASSUME NEW d \in Commands, NEW r \in ResultIds, NEW o \in Outcomes,
               state[d] \in {"DISPATCHED", "ACCEPTED"},
               results' = results \cup {[rid |-> r, cmd |-> d, outcome |-> o]},
               state'[d] = FinalState(o),
               \A c \in Commands \ {d} : Moves(c)
        PROVE  Lifecycle!Next
    <2>1. \A x, y \in results : x.cmd = y.cmd => x = y
      BY DEF IInv, OneOutcome
    <2>2. \A x, y \in results' : x.cmd = y.cmd => x = y
      BY DEF IInv, OneOutcome
    <2>3. OutcomeIn(results', d) = o
      <3>1. [rid |-> r, cmd |-> d, outcome |-> o] \in results'
        BY <1>3
      <3>2. QED
        BY <2>2, <3>1, OutcomeInLemma
    <2>4. ASSUME NEW c \in Commands \ {d}
          PROVE  OutcomeIn(results', c) = OutcomeIn(results, c)
      <3>1. CASE \E x \in results : x.cmd = c
        <4>1. PICK x \in results : x.cmd = c
          BY <3>1
        <4>2. x \in results'
          BY <1>3
        <4>3. OutcomeIn(results, c) = x.outcome
          BY <2>1, <4>1, OutcomeInLemma
        <4>4. OutcomeIn(results', c) = x.outcome
          BY <2>2, <4>1, <4>2, OutcomeInLemma
        <4>5. QED
          BY <4>3, <4>4
      <3>2. CASE ~ \E x \in results : x.cmd = c
        <4>1. ~ \E x \in results' : x.cmd = c
          BY <1>3, <2>4, <3>2
        <4>2. QED
          BY <3>2, <4>1, Zenon DEF OutcomeIn
      <3>3. QED
        BY <3>1, <3>2
    <2>5. Lifecycle!Close(d)
      BY <1>3, <2>3 DEF Lifecycle!Close, Lifecycle!StateOf, FinalState
    <2>6. ASSUME NEW c \in Commands \ {d}
          PROVE  Lifecycle!Rest(c) \/ Lifecycle!Move(c)
      BY <1>3, <2>4, <2>6 DEF Moves, Lifecycle!Rest, Lifecycle!Move
    <2>7. QED
      BY <1>1, <2>5, <2>6 DEF Lifecycle!Next
  <1>4. QED
    BY <1>2, <1>3, StepMoves

\* The queue implements the lifecycle promised to operators: one authorization,
\* forward moves only, at most one outcome, cancellation only before dispatch.
THEOREM QueueImplementsLifecycle == Spec => LifecycleSpec
  <1>1. Init => Lifecycle!Init
    BY DEF Init, Lifecycle!Init, OutcomeIn
  <1>2. IInv /\ IInv' /\ [Next]_vars => [Lifecycle!Next]_Lifecycle!lifecycle
    <2>1. CASE UNCHANGED vars
      BY <2>1 DEF vars, Lifecycle!lifecycle
    <2>2. QED
      BY <2>1, StepRefines
  <1>3. QED
    BY <1>1, <1>2, InductiveInvariant, PTL DEF Spec, LifecycleSpec, Lifecycle!Spec
=============================================================================
