---------------------------- MODULE MCAutoTriage ----------------------------
(* A small instance of AutoTriage for TLC: two alerts of two rules on one  *)
(* endpoint, whose policies share counters and not limits.                 *)
EXTENDS AutoTriage, TLC

CONSTANTS a1, a2, r1, r2, h1, proc, net, q1, q2, q3

TwoRules == a1 :> r1 @@ a2 :> r2
OneHost == a1 :> h1 @@ a2 :> h1
TwoActions == <<proc, net>>

\* A lax policy that asks for both collections, and a tight one that asks for
\* the second, allows one live item less and looks back over a longer window.
Lax ==
  [says |-> proc :> "auto_dispatch" @@ net :> "auto_dispatch",
   perAlert |-> 2, perWindow |-> 2, window |-> 0, perEndpoint |-> 3, global |-> 3, ttl |-> 1]

Tight ==
  [says |-> proc :> "skip" @@ net :> "auto_dispatch",
   perAlert |-> 1, perWindow |-> 2, window |-> 1, perEndpoint |-> 2, global |-> 2, ttl |-> 2]

SomePolicies == {Lax, Tight}

\* The administrators' requests are interchangeable, and so are the alerts
\* together with their rules.
Symmetry ==
  Permutations({q1, q2, q3}) \cup {a1 :> a2 @@ a2 :> a1 @@ r1 :> r2 @@ r2 :> r1}
=============================================================================
