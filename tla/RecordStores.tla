---------------------------- MODULE RecordStores ----------------------------
(***************************************************************************)
(* The stores that fold what arrives late, again and out of order: records *)
(* of Linux endpoints, records of Windows endpoints, alerts and incidents. *)
(* They share no table: a transaction of one commutes with those of the    *)
(* others, and what reaches one from another passes through the worker of  *)
(* DetectionQueue, which may reorder and repeat it.  So a behaviour here   *)
(* exercises one of them.                                                  *)
(***************************************************************************)
EXTENDS LinuxStreams, Incidents, EndpointRecords

VARIABLES
  part,   \* the store this behaviour exercises
  done    \* linux_endpoint_detection, rows in state done

vars == <<part, done, streamVars, incidentVars, endpointVars>>

Init ==
  /\ part \in {"linux", "incidents", "windows"}
  /\ done = {}
  /\ StreamsInit
  /\ IncidentsInit
  /\ EndpointInit

\* process_claimed settles a row of the Linux queue.
Settle(row) ==
  /\ row \in queue
  /\ queue' = queue \ {row}
  /\ done' = done \cup {row}
  /\ UNCHANGED <<live, unused, stored, stream, health, request, retired>>

Next ==
  /\ part' = part
  /\ \/ part = "linux" /\ UNCHANGED <<incidentVars, endpointVars>>
        /\ ((StreamsNext /\ UNCHANGED done) \/ \E row \in queue : Settle(row))
     \/ part = "incidents" /\ IncidentsNext /\ UNCHANGED <<done, streamVars, endpointVars>>
     \/ part = "windows" /\ EndpointNext /\ UNCHANGED <<done, streamVars, incidentVars>>

Spec == Init /\ [][Next]_vars

----------------------------------------------------------------------------
\* Every process execution on file is looked at once: it is queued or was
\* settled, never both and never twice, and nothing else is, through
\* retransmissions and conflicts (the INSERT into linux_endpoint_detection);
\* and the sensor drops no record before the Manager holds it.
DetectedOnce ==
  /\ RetiredIsHeld
  /\ queue \cap done = {}
  /\ queue \cup done =
       UNION {{<<a, x>> : x \in {y \in stored[a] : y.kind = "exec"}} : a \in Agents}
=============================================================================
