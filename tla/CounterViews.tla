---------------------------- MODULE CounterViews ----------------------------
(***************************************************************************)
(* What a mero-kms replica remembers of one cluster's stores: a view, and  *)
(* how two views merge (mero-kms/src/counters.rs, Entry and                *)
(* ClusterCounters).  A view has the cluster's epoch and, for each node id *)
(* it has heard of, an entry (generation, mark) ordered as a pair.         *)
(***************************************************************************)
EXTENDS Naturals

CONSTANTS
  Node,      \* the node ids of one cluster
  NoEntry    \* no counter kept for a node

Entry == [generation : Nat, mark : Nat]

ASSUME NoEntryAssumption == NoEntry \notin Entry

\* Entry::default(), which `or_default` gives a node not seen before.
ZeroEntry == [generation |-> 0, mark |-> 0]

\* The derived Ord of Entry: generation first, then mark.
EntryLeq(a, b) ==
  \/ a.generation < b.generation
  \/ a.generation = b.generation /\ a.mark <= b.mark

\* Mutant: the newer entry overwrites.
LastEntry(a, b) == b

MaxEntry(a, b) == IF EntryLeq(a, b) THEN b ELSE a

MaxNat(a, b) == IF a <= b THEN b ELSE a

-----------------------------------------------------------------------------
View == [epoch : Nat, nodes : [Node -> Entry \cup {NoEntry}]]

\* ClusterCounters::default(): epoch zero, no node.
EmptyView == [epoch |-> 0, nodes |-> [n \in Node |-> NoEntry]]

Known(v) == {n \in Node : v.nodes[n] # NoEntry}

EntryOf(v, n) == IF n \in Known(v) THEN v.nodes[n] ELSE ZeroEntry

\* ClusterCounters::merge within the node limit: the larger of each value.
Merge(u, v) ==
  [epoch |-> MaxNat(u.epoch, v.epoch),
   nodes |-> [n \in Node |->
                IF n \in Known(u) \cup Known(v)
                THEN MaxEntry(EntryOf(u, n), EntryOf(v, n))
                ELSE NoEntry]]

\* The update one call sends: an epoch and one node's entry.
Update(epoch, n, e) == [epoch |-> epoch, nodes |-> [x \in Node |-> IF x = n THEN e ELSE NoEntry]]

\* The generation a key release or an acknowledgement tells node n
\* (release_key, rollback::answer).
GenerationOf(v, n) == IF n \in Known(v) THEN v.nodes[n].generation ELSE v.epoch

(***************************************************************************)
(* v holds everything u holds.                                             *)
(***************************************************************************)
Leq(u, v) ==
  /\ u.epoch <= v.epoch
  /\ \A n \in Known(u) : n \in Known(v) /\ EntryLeq(u.nodes[n], v.nodes[n])
=============================================================================
