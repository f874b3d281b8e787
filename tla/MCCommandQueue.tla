--------------------------- MODULE MCCommandQueue ---------------------------
(* Small instances of CommandQueue for TLC. *)
EXTENDS CommandQueue, TLC

\* A poll without a profile; it permits everything, as does a profile that
\* blocks nothing.
Plain == [blocked |-> {}, sign |-> FALSE]

\* A profile that withholds the disruptive actions (dry_run, or a policy).
Withholding == [blocked |-> Disrupt, sign |-> FALSE]

\* A profile that requires signatures.
Signing == [blocked |-> {}, sign |-> TRUE]

NoReports == {Plain}
ChannelReports == {Plain, Withholding, Signing}

Symmetry == Permutations(Agents) \cup Permutations(Commands) \cup Permutations(ResultIds)
=============================================================================
