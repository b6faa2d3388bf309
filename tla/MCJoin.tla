------------------------------- MODULE MCJoin -------------------------------
(* Instances of Join for TLC. *)
EXTENDS Join, FiniteSets, TLC

CONSTANTS a, b, c, d   \* replicas

\* A new image's cluster is started beside the old one, and a replica of the
\* new image lists both; replicas of the old image know one another.  One more
\* of the new image runs in a debug TD: it started a cluster of its own, and
\* takes part in joins as any other.
TwoImages == (a :> "v1") @@ (b :> "v2") @@ (c :> "v2") @@ (d :> "v2")

AllPeers == (a :> <<c, b>>) @@ (b :> <<a, d, c>>) @@ (c :> <<a, d, b>>) @@ (d :> <<b>>)

NoDebug == [r \in Replica |-> {a, b, c}]

Symmetric == Permutations(Nonce) \cup Permutations(Copy)

=============================================================================
