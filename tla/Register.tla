------------------------------ MODULE Register ------------------------------
(***************************************************************************)
(* What the counters promise the callers of one cluster key path, however  *)
(* many replicas keep them and whichever are lost: a register of maxima    *)
(* (the module comment of mero-kms/src/counters.rs).  A call begins, then  *)
(* ends acknowledged or failed.  A failed write may still be read, at once *)
(* or later; an acknowledged one is read by every read that begins after.  *)
(***************************************************************************)
EXTENDS CounterViews

CONSTANTS Reads, Raises, Resets, Mark, MaxU64

VARIABLES
  phase,    \* "idle", "running", "acked" or "failed", for each call
  update,   \* what it writes; EmptyView until it is known
  result,   \* the view it was acknowledged with
  since     \* the calls that had ended when it began

vars == <<phase, update, result, since>>

Calls == Reads \cup Raises \cup Resets

Acked(c) == phase[c] = "acked"

Init ==
  /\ phase = [c \in Calls |-> "idle"]
  /\ update = [c \in Calls |-> EmptyView]
  /\ result = [c \in Calls |-> EmptyView]
  /\ since = [c \in Calls |-> {}]

\* A raise carries the generation an answer told its store, or 0.
RaiseOf(c) ==
  {Update(0, n, [generation |-> g, mark |-> m]) :
     n \in Node, m \in Mark, g \in {0} \cup
       {GenerationOf(result[d], k) : d \in {e \in Calls : Acked(e)}, k \in Node}}

Begin(c) ==
  /\ phase[c] = "idle"
  /\ phase' = [phase EXCEPT ![c] = "running"]
  /\ since' = [since EXCEPT ![c] = {d \in Calls : phase[d] \in {"acked", "failed"}}]
  /\ \E u \in IF c \in Raises THEN RaiseOf(c) ELSE {EmptyView} :
       update' = [update EXCEPT ![c] = u]
  /\ UNCHANGED result

\* A reset goes above every reset acknowledged before it began.
Reset(c) ==
  /\ c \in Resets /\ phase[c] = "running" /\ update[c] = EmptyView
  /\ \E epoch \in 1..MaxU64, n \in Node, m \in Mark :
       /\ \A w \in since[c] \cap Resets : Acked(w) => update[w].epoch < epoch
       /\ update' = [update EXCEPT ![c] =
                       Update(epoch, n, [generation |-> epoch, mark |-> m])]
  /\ UNCHANGED <<phase, result, since>>

\* The views made of parts of the writes so far: nothing else is ever read.
Parts(n) == {NoEntry} \cup {update[c].nodes[n] : c \in Calls}

Composed ==
  [epoch : {0} \cup {update[c].epoch : c \in Calls},
   nodes : {f \in [Node -> UNION {Parts(n) : n \in Node}] : \A n \in Node : f[n] \in Parts(n)}]

\* A read has every write acknowledged before it began; a write has itself.
Ack(c) ==
  /\ phase[c] = "running"
  /\ phase' = [phase EXCEPT ![c] = "acked"]
  /\ \E v \in Composed :
       /\ c \in Reads => \A w \in since[c] \ Reads : Acked(w) => Leq(update[w], v)
       /\ c \notin Reads => Known(update[c]) # {} /\ Leq(update[c], v)
       /\ result' = [result EXCEPT ![c] = v]
  /\ UNCHANGED <<update, since>>

\* Calls that ran on one replica fail together when it is lost.
Fail(S) ==
  /\ S # {} /\ \A c \in S : phase[c] = "running"
  /\ phase' = [c \in Calls |-> IF c \in S THEN "failed" ELSE phase[c]]
  /\ since' = [c \in Calls |-> IF c \in S THEN {} ELSE since[c]]
  /\ UNCHANGED <<update, result>>

Next ==
  \/ \E c \in Calls : Begin(c) \/ Reset(c) \/ Ack(c)
  \/ \E S \in SUBSET Calls : Fail(S)

Spec == Init /\ [][Next]_vars
=============================================================================
