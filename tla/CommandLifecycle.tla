-------------------------- MODULE CommandLifecycle --------------------------
(***************************************************************************)
(* What the command queue promises an operator: a command is authorized    *)
(* once, moves forward only, and closes at most once.  It closes with an   *)
(* outcome only after it was handed to the endpoint, a cancelled command   *)
(* was never handed out, and the outcome shown is the one it closed with.  *)
(*                                                                         *)
(* Nothing here says who acts or when: polls, results, sweeps and          *)
(* cancellations are all the same kind of step.  Several commands may move *)
(* in one step, because one request sweeps every lapsed command.           *)
(***************************************************************************)
CONSTANTS
    Commands,   \* command identities
    Outcomes    \* what an endpoint can report

VARIABLES
    state,      \* the lifecycle state of every command
    outcome     \* the outcome a command closed with, or "none"

lifecycle == <<state, outcome>>

\* The lifecycle state an outcome closes a command with.
StateOf(o) ==
    IF o = "succeeded" THEN "SUCCEEDED"
    ELSE IF o = "failed" THEN "FAILED"
    ELSE IF o = "rejected" THEN "REJECTED"
    ELSE "INDETERMINATE"

Init ==
    /\ state = [c \in Commands |-> "ABSENT"]
    /\ outcome = [c \in Commands |-> "none"]

\* One command stays where it is.
Rest(c) == state'[c] = state[c] /\ outcome'[c] = outcome[c]

\* One command moves along its lifecycle without an outcome.
Move(c) ==
    /\ outcome'[c] = outcome[c]
    /\ \/ state[c] = "ABSENT" /\ state'[c] = "AUTHORIZED"
       \/ state[c] = "AUTHORIZED" /\ state'[c] \in {"DISPATCHED", "CANCELLED"}
       \/ state[c] = "DISPATCHED" /\ state'[c] = "ACCEPTED"
       \/ state[c] \in {"AUTHORIZED", "DISPATCHED", "ACCEPTED"} /\ state'[c] = "EXPIRED"

\* One command closes with the outcome its endpoint reported.
Close(c) ==
    /\ state[c] \in {"DISPATCHED", "ACCEPTED"}
    /\ \E o \in Outcomes :
          /\ state'[c] = StateOf(o)
          /\ outcome'[c] = o

Next ==
    /\ \A c \in Commands : Rest(c) \/ Move(c) \/ Close(c)
    /\ DOMAIN state' = Commands
    /\ DOMAIN outcome' = Commands

Spec == Init /\ [][Next]_lifecycle
=============================================================================
