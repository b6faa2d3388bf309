--------------------------- MODULE MCCounterLimits ---------------------------
(* Instances of CounterLimits for TLC. *)
EXTENDS CounterLimits, TLC

CONSTANTS p1, p2

TwoPaths == <<p1, p2>>

Symmetric == UNION {Permutations(S) : S \in {Replica, Raises, Node}}
=============================================================================
