------------------------------- MODULE MCGate -------------------------------
(* Instances of Gate for TLC. *)
EXTENDS Gate

CONSTANTS c1, c2, m1, m2

Wants == [c \in Client |-> IF c = c2 THEN m2 ELSE m1]

Lists == {{c1, c2}, {c1}}
=============================================================================
