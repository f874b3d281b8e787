--------------------------- MODULE MCRecordStores ---------------------------
(* A small instance of RecordStores for TLC. *)
EXTENDS RecordStores, TLC

CONSTANTS b1, d1, d2, ruleA, ruleB, inc, i1, i2, e1, e2, r1, r2, r3, r4, r5, r6

\* One boot of a Linux sensor: an execution and a different line for its
\* slot, health reports whose order is not that of their numbers, and a later
\* execution after a gap.
X1 == [stream |-> b1, seq |-> 1, digest |-> d1, kind |-> "exec", time |-> 0]
Y1 == [X1 EXCEPT !.digest = d2]
X2 == [stream |-> b1, seq |-> 2, digest |-> d1, kind |-> "health", time |-> 2]
X3 == [stream |-> b1, seq |-> 3, digest |-> d1, kind |-> "health", time |-> 1]
X5 == [stream |-> b1, seq |-> 5, digest |-> d1, kind |-> "exec", time |-> 3]
SensorRecords == {X1, Y1, X2, X3, X5}
SensorBatches == {<<X1, X2>>, <<X3>>, <<X5, Y1, X1, Y1>>}

\* An incident that is reported with one revision twice, with other stages
\* after a restart of the engine, and later ones that reach further back.
Report(n, S, f, l) == [incident |-> inc, rev |-> n, stages |-> S, first |-> f, last |-> l]
IncidentReports ==
  {Report(0, {ruleA}, 3, 3), Report(1, {}, 1, 1), Report(1, {ruleA}, 2, 2),
   Report(2, {ruleA}, 0, 1), Report(3, {ruleA, ruleB}, 1, 3)}

\* Windows records: two sequences of one generation, the next generation from
\* another epoch, a fork of the first generation, a record of another
\* installation that claims an id in use, and one that proves no order.
Row(i, g, e, s) == [inst |-> i, gen |-> g, epoch |-> e, seq |-> s, cat |-> "health"]
WindowsBody ==
  r1 :> Row(i1, 1, e1, 1) @@ r2 :> Row(i1, 1, e1, 2) @@ r3 :> Row(i1, 2, e2, 1)
    @@ r4 :> Row(i1, 1, e2, 3) @@ r5 :> Row(i2, 1, e1, 1) @@ r6 :> Row(i1, 0, e1, 3)
WindowsNames == [r \in {r1, r2, r3, r4, r5, r6} |-> IF r = r5 THEN r3 ELSE r]
WindowsPackets == {<<r2, r1>>, <<r6, r3>>, <<r5, r4>>}
WindowsManifest == r2 :> [capture |-> r1, pages |-> {}]

\* Nothing depends on which agent id or challenge is used first.
Symmetry == Permutations(Agents) \cup Permutations(Nonces)
=============================================================================
