----------------------------- MODULE MCCounters -----------------------------
(***************************************************************************)
(* Instances of Counters for TLC.                                          *)
(***************************************************************************)
EXTENDS CountersRegister, TLC

Symmetric ==
  UNION {Permutations(S) : S \in {Replica, Reads, Raises, Resets, Node} \ {{}}}

\* A cluster brought up, every replica ready and formed, which holds the view v
\* since the requests `sent`.
FormedWith(v, sent) ==
  /\ up = Replica /\ ready = Replica /\ formed = Replica /\ genesis = {}
  /\ map = [r \in Replica |-> v]
  /\ syncing = {}
  /\ sync = [r \in Replica |-> NoRound]
  /\ net = {[type |-> "read", formed |-> FALSE]} \cup sent
  /\ crashes = 0

\* Init reaches it by joins and a read that hears every replica.
Unwritten ==
  /\ FormedWith(EmptyView, {})
  /\ \E b \in Replica, n \in Node : op = [o \in Op |-> ReadCall(b, n)]
  /\ pc = [o \in Op |-> "idle"]
  /\ round = [o \in Op |-> NoRound]

\* ... and by a reset w then, served at b, that all of them take.
OnceReset ==
  \E w \in Resets, b \in Replica, n \in Node, m \in Mark :
    LET v == Update(1, n, [generation |-> 1, mark |-> m])
        others == Replica \ {b}
    IN  /\ FormedWith(v, {[type |-> "read", formed |-> TRUE], [type |-> "merge", counters |-> v]})
        /\ op = [[o \in Op |-> ReadCall(b, n)] EXCEPT ![w].mark = m, ![w].update = v]
        /\ pc = [[o \in Op |-> "idle"] EXCEPT ![w] = "acked"]
        /\ round = [[o \in Op |-> NoRound] EXCEPT
             ![w] = [NoRound EXCEPT !.heard = others, !.ready = others, !.formed = TRUE,
                                    !.genesis = FALSE, !.view = v]]

ResetSpec == OnceReset /\ [][Next]_vars

\* For liveness: a replica is lost only from a cluster that is whole.
LossWhenWhole == crashes' # crashes => ready = Replica

LiveSpec == (Init \/ Unwritten) /\ [][Next /\ LossWhenWhole]_vars /\ Fairness

=============================================================================
