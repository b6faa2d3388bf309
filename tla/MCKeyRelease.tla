---------------------------- MODULE MCKeyRelease ----------------------------
(* Instances of KeyRelease for TLC. *)
EXTENDS KeyRelease, TLC

\* Requests that differ in nothing the model tells apart.
Alike == {Call \ (CounterCalls \cup LowOrder), CounterCalls \ LowOrder,
          LowOrder \ CounterCalls, CounterCalls \cap LowOrder}

Symmetric == UNION {Permutations(S) : S \in {Replica, Random} \cup Alike}

=============================================================================
