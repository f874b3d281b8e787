--------------------------- MODULE MCDetectionQueue ---------------------------
(* Small instances of DetectionQueue for TLC. *)
EXTENDS DetectionQueue, TLC

CONSTANTS e1, e2, e3, e4, a1, a2

\* Two legacy events of one timestamp, a canonical and a Linux record.  Three
\* of them raise the same alert.
MixedQueues == e1 :> 1 @@ e2 :> 1 @@ e3 :> 2 @@ e4 :> 3
MixedStamps == e1 :> 5 @@ e2 :> 5 @@ e3 :> 0 @@ e4 :> 0
MixedAlerts == e1 :> a1 @@ e2 :> a2 @@ e3 :> a1 @@ e4 :> a1

\* Two legacy events.
PairQueues == e1 :> 1 @@ e2 :> 1
PairStamps == e1 :> 5 @@ e2 :> 5
PairAlerts == e1 :> a1 @@ e2 :> Null

\* The order of the identities of all events, and of a pair.
Reversed == e1 :> 4 @@ e2 :> 3 @@ e3 :> 2 @@ e4 :> 1
PairReversed == e1 :> 2 @@ e2 :> 1
=============================================================================
