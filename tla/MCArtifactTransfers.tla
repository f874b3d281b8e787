------------------------- MODULE MCArtifactTransfers -------------------------
(* A small instance of ArtifactTransfers for TLC. *)
EXTENDS ArtifactTransfers, TLC

CONSTANTS a1, a2, h1, k1, k2, c1, x1, x2, x3

\* The commands went to the first agent of the host.
OneTarget == c1 :> [agent |-> a1, host |-> h1]

Signed(x, k, n) ==
  [artifact |-> x, agent |-> a1, host |-> h1, key |-> k, command |-> c1, size |-> n]

\* An artifact of two chunks, the same artifact signed again with the key a
\* rotation brings, and an artifact of one chunk.
Some == {Signed(x1, k1, 2), Signed(x1, k2, 2), Signed(x2, k1, 1)}

\* Evidence retained before artifacts were signed.
Unsigned == x3 :> [command |-> c1, size |-> 1, manifest |-> Null, verified |-> Null, content |-> <<TRUE>>]

Interchangeable == Permutations(Nonces) \cup Permutations(Decisions) \cup Permutations(Requests)
=============================================================================
