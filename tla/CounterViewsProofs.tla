------------------------- MODULE CounterViewsProofs -------------------------
(***************************************************************************)
(* Views form a join-semilattice under Merge: the fact replication rests   *)
(* on ("two views merge by taking the maximum, and replicas never have to  *)
(* agree on an order", mero-kms/src/counters.rs).                          *)
(***************************************************************************)
EXTENDS CounterViews, TLAPS

\* The pair order of entries is total, and MaxEntry an upper bound.
LEMMA EntryOrder ==
  ASSUME NEW a \in Entry, NEW b \in Entry, NEW c \in Entry
  PROVE  /\ EntryLeq(a, a)
         /\ EntryLeq(a, b) /\ EntryLeq(b, c) => EntryLeq(a, c)
         /\ EntryLeq(a, b) /\ EntryLeq(b, a) => a = b
         /\ MaxEntry(a, b) \in Entry
         /\ EntryLeq(a, MaxEntry(a, b)) /\ EntryLeq(b, MaxEntry(a, b))
         /\ EntryLeq(a, c) /\ EntryLeq(b, c) => EntryLeq(MaxEntry(a, b), c)
BY DEF Entry, EntryLeq, MaxEntry

\* A view's known entries are entries.
LEMMA KnownEntries ==
  ASSUME NEW v \in View, NEW n \in Node
  PROVE  /\ v.epoch \in Nat
         /\ n \in Known(v) => v.nodes[n] \in Entry
         /\ EntryOf(v, n) \in Entry
BY NoEntryAssumption DEF View, Known, EntryOf, Entry, ZeroEntry

\* Every entry is above the default one.
LEMMA ZeroIsLeast == \A e \in Entry : EntryLeq(ZeroEntry, e)
BY DEF Entry, EntryLeq, ZeroEntry

\* The empty view and a one-entry update are views.
LEMMA ViewTypes ==
  /\ EmptyView \in View
  /\ \A x \in Nat, n \in Node, e \in Entry : Update(x, n, e) \in View
BY DEF EmptyView, Update, View

\* Merging keeps views views.
LEMMA MergeType ==
  ASSUME NEW u \in View, NEW v \in View
  PROVE  Merge(u, v) \in View
<1>1. MaxNat(u.epoch, v.epoch) \in Nat
  BY DEF MaxNat, View
<1>2. ASSUME NEW n \in Node
      PROVE  MaxEntry(EntryOf(u, n), EntryOf(v, n)) \in Entry
  BY KnownEntries, EntryOrder
<1>3. QED
  BY <1>1, <1>2 DEF Merge, View

\* What a merge knows, and the entries it keeps.
LEMMA MergeEntries ==
  ASSUME NEW u \in View, NEW v \in View, NEW n \in Node
  PROVE  /\ n \in Known(Merge(u, v)) <=> n \in Known(u) \/ n \in Known(v)
         /\ n \in Known(Merge(u, v)) =>
              Merge(u, v).nodes[n] = MaxEntry(EntryOf(u, n), EntryOf(v, n))
<1>1. MaxEntry(EntryOf(u, n), EntryOf(v, n)) \in Entry
  BY KnownEntries, EntryOrder
<1>2. QED
  BY <1>1, NoEntryAssumption DEF Merge, Known

\* A merge holds everything either view held.
LEMMA MergeUpper ==
  ASSUME NEW u \in View, NEW v \in View
  PROVE  Leq(u, Merge(u, v)) /\ Leq(v, Merge(u, v))
<1>1. u.epoch <= Merge(u, v).epoch /\ v.epoch <= Merge(u, v).epoch
  BY DEF Merge, MaxNat, View
<1>2. ASSUME NEW n \in Node
      PROVE  /\ n \in Known(u) => /\ n \in Known(Merge(u, v))
                                  /\ EntryLeq(u.nodes[n], Merge(u, v).nodes[n])
             /\ n \in Known(v) => /\ n \in Known(Merge(u, v))
                                  /\ EntryLeq(v.nodes[n], Merge(u, v).nodes[n])
  BY MergeEntries, KnownEntries, EntryOrder DEF EntryOf
<1>3. QED
  BY <1>1, <1>2 DEF Leq, Known

\* Holding everything is reflexive and transitive.
LEMMA LeqOrder ==
  ASSUME NEW u \in View, NEW v \in View, NEW w \in View
  PROVE  Leq(u, u) /\ (Leq(u, v) /\ Leq(v, w) => Leq(u, w))
<1>1. Leq(u, u)
  <2>1. ASSUME NEW n \in Known(u)
        PROVE  EntryLeq(u.nodes[n], u.nodes[n])
    <3>1. n \in Node
      BY DEF Known
    <3>2. QED
      BY <3>1, KnownEntries, EntryOrder
  <2>2. u.epoch <= u.epoch
    BY DEF View
  <2>3. QED
    BY <2>1, <2>2 DEF Leq
<1>2. ASSUME Leq(u, v), Leq(v, w)
      PROVE  Leq(u, w)
  <2>1. u.epoch <= w.epoch
    BY <1>2, KnownEntries DEF Leq, View
  <2>2. ASSUME NEW n \in Known(u)
        PROVE  n \in Known(w) /\ EntryLeq(u.nodes[n], w.nodes[n])
    <3>1. n \in Node /\ n \in Known(v) /\ n \in Known(w)
      BY <1>2, <2>2 DEF Leq, Known
    <3>2. EntryLeq(u.nodes[n], v.nodes[n]) /\ EntryLeq(v.nodes[n], w.nodes[n])
      BY <1>2, <2>2, <3>1 DEF Leq
    <3>3. QED
      BY <2>2, <3>1, <3>2, KnownEntries, EntryOrder
  <2>3. QED
    BY <2>1, <2>2 DEF Leq
<1>3. QED
  BY <1>1, <1>2

\* A merge holds no more than any view that holds both: the order in which
\* answers and writes are merged does not matter.
THEOREM MergeLeast ==
  ASSUME NEW u \in View, NEW v \in View, NEW w \in View,
         Leq(u, w), Leq(v, w)
  PROVE  Leq(Merge(u, v), w)
<1>1. Merge(u, v).epoch <= w.epoch
  BY DEF Merge, MaxNat, Leq, View
<1>2. ASSUME NEW n \in Known(Merge(u, v))
      PROVE  n \in Known(w) /\ EntryLeq(Merge(u, v).nodes[n], w.nodes[n])
  <2>1. n \in Node /\ (n \in Known(u) \/ n \in Known(v))
    <3>1. n \in Node
      BY <1>2 DEF Known
    <3>2. QED
      BY <1>2, <3>1, MergeEntries
  <2>2. n \in Known(w)
    BY <2>1 DEF Leq
  <2>3. w.nodes[n] \in Entry
    BY <2>1, <2>2, KnownEntries
  <2>4. EntryLeq(EntryOf(u, n), w.nodes[n]) /\ EntryLeq(EntryOf(v, n), w.nodes[n])
    BY <2>3, ZeroIsLeast DEF Leq, EntryOf
  <2>5. Merge(u, v).nodes[n] = MaxEntry(EntryOf(u, n), EntryOf(v, n))
    BY <1>2, <2>1, MergeEntries
  <2>6. QED
    BY <2>1, <2>2, <2>3, <2>4, <2>5, KnownEntries, EntryOrder
<1>3. QED
  BY <1>1, <1>2 DEF Leq
=============================================================================
