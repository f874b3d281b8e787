-------------------------- MODULE MCResponseActions --------------------------
(* Small instances of ResponseActions for TLC. *)
EXTENDS ResponseActions, TLC

CONSTANTS a1, a2, a3, kill, info, q1

\* A rule detection and a behavioral one that recommend the same kill, and a
\* detection that recommends a collection.
MixedRecommendations == a1 :> kill @@ a2 :> kill @@ a3 :> info

\* A detection to respond to, and one that maps to no command.
OddRecommendations == a1 :> kill @@ a2 :> Bad

OneRecommendation == a1 :> kill

\* A campaign that names one target twice, and one of two actions.
Twice == <<[alert |-> a1, key |-> kill], [alert |-> a1, key |-> kill]>>
Both == <<[alert |-> a1, key |-> kill], [alert |-> a1, key |-> info]>>
SomeCampaigns == {Twice, Both}
NoCampaigns == {}

\* A request_id, and one that an analyst spells like the first item's.
SomeRequests == {q1} \cup (Campaigns \X {1})

\* Response ids and analysts are only compared with one another.
Interchangeable == Permutations(Responses) \cup Permutations(Analysts)
=============================================================================
