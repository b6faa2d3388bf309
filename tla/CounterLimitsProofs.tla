------------------------- MODULE CounterLimitsProofs -------------------------
(***************************************************************************)
(* Proofs about the counters at their limits, for every number of          *)
(* replicas, clusters, nodes and calls and every limit: whatever the       *)
(* merges refuse, a read meets every write acknowledged before it began,   *)
(* no majority of ready replicas forgets a write, and a joiner is turned   *)
(* away only when what it is to hold has no room in one replica.           *)
(***************************************************************************)
EXTENDS CounterLimits, FiniteSetTheorems, WellFoundedInduction, TLAPS

-----------------------------------------------------------------------------
(* Walks: what is true of each step of a merge is true of its end.         *)

\* A set of naturals has a least element.
LEMMA LeastNatural ==
  ASSUME NEW S \in SUBSET Nat, S # {}
  PROVE  \E i \in S : \A j \in S : i <= j
<1> DEFINE R == {ss \in Nat \X Nat : ss[1] < ss[2]}
<1>1. IsWellFoundedOn(R, Nat)
  BY NatLessThanWellFounded, Zenon DEF OpToRel
<1>2. \A i, j \in Nat : <<j, i>> \in R <=> j < i
  OBVIOUS
<1> HIDE DEF R
<1>3. PICK i \in S : \A j \in S : ~(<<j, i>> \in R)
  BY <1>1, WFMin
<1>4. \A j \in S : ~(j < i)
  BY <1>2, <1>3
<1>5. QED
  BY <1>4

\* A set that has 0, and each number up to n whose predecessor it has, has them all.
LEMMA UpTo ==
  ASSUME NEW n \in Nat, NEW G, 0 \in G, \A i \in 1 .. n : i - 1 \in G => i \in G
  PROVE  \A i \in 0 .. n : i \in G
<1> DEFINE S == {i \in 0 .. n : i \notin G}
<1>1. SUFFICES ASSUME S # {} PROVE FALSE
  OBVIOUS
<1>2. PICK i \in S : \A j \in S : i <= j
  <2>1. S \in SUBSET Nat
    OBVIOUS
  <2>2. QED
    BY <1>1, <2>1, LeastNatural
<1>3. i \in 1 .. n /\ i - 1 \in 0 .. n /\ ~(i <= i - 1)
  BY <1>2
<1>4. QED
  BY <1>2, <1>3

\* f walks from start through values in X.
IsWalk(f, n, X, start, step) ==
  f \in [0 .. n -> X] /\ f[0] = start /\ \A i \in 1 .. n : f[i] = step[i][f[i - 1]]

\* n steps within X from a start in X are a walk.
LEMMA Walk ==
  ASSUME NEW n \in Nat, NEW X, NEW start \in X, NEW step,
         \A i \in 1 .. n, x \in X : step[i][x] \in X
  PROVE  \E f : IsWalk(f, n, X, start, step)
<1> DEFINE Walks(k) == {f \in [0 .. k -> X] : f[0] = start /\ \A i \in 1 .. k : f[i] = step[i][f[i - 1]]}
           G == {k \in 0 .. n : Walks(k) # {}}
<1>1. 0 \in G
  <2>1. [i \in 0 .. 0 |-> start] \in Walks(0)
    OBVIOUS
  <2>2. QED
    BY <2>1
<1>2. ASSUME NEW k \in 1 .. n, k - 1 \in G PROVE k \in G
  <2>1. PICK f \in Walks(k - 1) : TRUE
    BY <1>2
  <2> DEFINE g == [i \in 0 .. k |-> IF i = k THEN step[k][f[k - 1]] ELSE f[i]]
  <2>2. g \in [0 .. k -> X]
    BY <2>1
  <2>3. g[0] = start
    BY <2>1
  <2>4. ASSUME NEW i \in 1 .. k PROVE g[i] = step[i][g[i - 1]]
    <3>1. CASE i = k
      BY <3>1
    <3>2. CASE i # k
      <4>1. i \in 1 .. (k - 1) /\ i - 1 \in 0 .. k /\ i - 1 # k
        BY <3>2
      <4>2. QED
        BY <2>1, <3>2, <4>1
    <3>3. QED
      BY <3>1, <3>2
  <2>5. g \in Walks(k)
    BY <2>2, <2>3, <2>4
  <2>6. QED
    BY <2>5
<1> HIDE DEF G
<1>3. \A i \in 0 .. n : i \in G
  BY <1>1, <1>2, UpTo
<1>4. n \in 0 .. n
  OBVIOUS
<1>5. QED
  BY <1>3, <1>4 DEF G, IsWalk

-----------------------------------------------------------------------------
(* Maps and merges.                                                        *)

\* Every cluster m keeps is kept by t, with at least its nodes.
Below(m, t) == \A p \in DOMAIN m : p \in DOMAIN t /\ m[p] \subseteq t[p]

Merged == [ok : BOOLEAN, map : CounterMap]

\* A counter map is a function from some of the paths to sets of nodes.
LEMMA MapType ==
  /\ \A m \in CounterMap : DOMAIN m \in SUBSET Paths /\ m \in [DOMAIN m -> SUBSET Node]
  /\ \A S \in SUBSET Paths : \A m \in [S -> SUBSET Node] : m \in CounterMap
  /\ \A m \in CounterMap, p \in Paths : NodesOf(m, p) \in SUBSET Node
BY DEF CounterMap, NodesOf

\* Put sets one cluster's nodes, and nothing else.
LEMMA PutSets ==
  ASSUME NEW m \in CounterMap, NEW p \in Paths, NEW nodes \in SUBSET Node
  PROVE  /\ Put(m, p, nodes) \in CounterMap
         /\ DOMAIN Put(m, p, nodes) = DOMAIN m \cup {p}
         /\ Put(m, p, nodes)[p] = nodes
         /\ \A q \in DOMAIN m \ {p} : Put(m, p, nodes)[q] = m[q]
<1>1. Put(m, p, nodes) = [q \in DOMAIN m \cup {p} |-> IF q = p THEN nodes ELSE m[q]]
  BY DEF Put
<1>2. [q \in DOMAIN m \cup {p} |-> IF q = p THEN nodes ELSE m[q]] \in [DOMAIN m \cup {p} -> SUBSET Node]
  BY MapType
<1>3. DOMAIN m \cup {p} \in SUBSET Paths
  BY MapType
<1>4. QED
  BY <1>1, <1>2, <1>3, MapType

\* The order of maps is one, and a cluster's nodes are at least as many above.
LEMMA BelowOrder ==
  ASSUME NEW a \in CounterMap, NEW b \in CounterMap, NEW c \in CounterMap
  PROVE  /\ Below(a, a)
         /\ Below(a, b) /\ Below(b, c) => Below(a, c)
         /\ Below(a, b) => \A p \in Paths : NodesOf(a, p) \subseteq NodesOf(b, p)
BY DEF Below, NodesOf

\* Clusters and nodes are finitely many.
LEMMA FiniteSizes ==
  /\ \A S \in SUBSET Paths : IsFiniteSet(S) /\ Cardinality(S) \in Nat
  /\ \A S \in SUBSET Node : IsFiniteSet(S) /\ Cardinality(S) \in Nat
  /\ \A S \in SUBSET Replica : IsFiniteSet(S) /\ Cardinality(S) \in Nat
<1>1. IsFiniteSet(Paths)
  <2>1. Len(Path) \in Nat /\ IsFiniteSet(1 .. Len(Path))
    BY FiniteAssumption, FS_Interval
  <2>2. Path \in Surjection(1 .. Len(Path), Paths)
    BY FiniteAssumption DEF Surjection, Paths, Range
  <2>3. QED
    BY <2>1, <2>2, FS_Surjection
<1>2. IsFiniteSet(Node) /\ IsFiniteSet(Replica)
  BY FiniteAssumption
<1>3. ASSUME NEW S, IsFiniteSet(S)
      PROVE  \A T \in SUBSET S : IsFiniteSet(T) /\ Cardinality(T) \in Nat
  BY <1>3, FS_Subset, FS_CardinalityType
<1>4. QED
  BY <1>1, <1>2, <1>3

\* A cluster there is room for, with no more nodes than the limit, keeps a map in its limits.
LEMMA RoomFits ==
  ASSUME NEW m \in CounterMap, NEW p \in Paths, NEW nodes \in SUBSET Node,
         Fits(m), RoomForCluster(m, p), Cardinality(nodes) <= MaxNodes
  PROVE  Fits(Put(m, p, nodes))
<1>1. DOMAIN m \in SUBSET Paths /\ IsFiniteSet(DOMAIN m) /\ Cardinality(DOMAIN m) \in Nat
  BY MapType, FiniteSizes
<1>2. Cardinality(DOMAIN m \cup {p}) <= MaxClusters
  <2>1. CASE p \in DOMAIN m
    <3>1. DOMAIN m \cup {p} = DOMAIN m
      BY <2>1
    <3>2. QED
      BY <3>1 DEF Fits
  <2>2. CASE p \notin DOMAIN m
    <3>1. Cardinality(DOMAIN m \cup {p}) = Cardinality(DOMAIN m) + 1
      BY <1>1, <2>2, FS_AddElement
    <3>2. QED
      BY <1>1, <2>2, <3>1, LimitsAssumption DEF RoomForCluster
  <2>3. QED
    BY <2>1, <2>2
<1> DEFINE new == Put(m, p, nodes)
<1>3. /\ DOMAIN new = DOMAIN m \cup {p} /\ new[p] = nodes
      /\ \A q \in DOMAIN m \ {p} : new[q] = m[q]
  BY PutSets
<1> HIDE DEF new
<1>4. ASSUME NEW q \in DOMAIN new PROVE Cardinality(new[q]) <= MaxNodes
  <2>1. CASE q = p
    BY <1>3, <2>1
  <2>2. CASE q # p
    <3>1. q \in DOMAIN m /\ new[q] = m[q]
      BY <1>3, <2>2
    <3>2. QED
      BY <3>1 DEF Fits
  <2>3. QED
    BY <2>1, <2>2
<1>5. Fits(new)
  BY <1>2, <1>3, <1>4 DEF Fits
<1>6. QED
  BY <1>5 DEF new

\* What a merge of any kind into m gives: a map in its limits if m is, and above m.
Grows(m, got) ==
  /\ got \in Merged
  /\ Fits(m) => Fits(got.map)
  /\ Below(m, got.map)

\* A merge into one cluster keeps what there was, and what it was given if it is ok.
LEMMA ClusterMerges ==
  ASSUME NEW m \in CounterMap, NEW p \in Paths, NEW counts \in SUBSET Node
  PROVE  LET got == MergeCluster(m, p, counts) IN
         /\ Grows(m, got)
         /\ got.ok => p \in DOMAIN got.map /\ counts \subseteq got.map[p]
<1> DEFINE mine == NodesOf(m, p)
           got == MergeCluster(m, p, counts)
<1>1. mine \in SUBSET Node /\ mine \cup counts \in SUBSET Node
  BY MapType
<1>2. ASSUME NEW nodes \in SUBSET Node, mine \subseteq nodes
      PROVE  Put(m, p, nodes) \in CounterMap /\ Below(m, Put(m, p, nodes))
  <2>1. Put(m, p, nodes) \in CounterMap
    BY PutSets
  <2>2. ASSUME NEW q \in DOMAIN m
        PROVE  q \in DOMAIN Put(m, p, nodes) /\ m[q] \subseteq Put(m, p, nodes)[q]
    <3>1. CASE q = p
      <4>1. Put(m, p, nodes)[q] = nodes /\ q \in DOMAIN Put(m, p, nodes)
        BY <3>1 DEF Put
      <4>2. QED
        BY <1>2, <3>1, <4>1 DEF NodesOf
    <3>2. CASE q # p
      <4>1. Put(m, p, nodes)[q] = m[q] /\ q \in DOMAIN Put(m, p, nodes)
        BY <3>2 DEF Put
      <4>2. QED
        BY <4>1
    <3>3. QED
      BY <3>1, <3>2
  <2>3. QED
    BY <2>1, <2>2 DEF Below
<1>3. CASE ~RoomForCluster(m, p)
  <2>1. got = [ok |-> FALSE, map |-> m]
    BY <1>3 DEF MergeCluster
  <2>2. QED
    BY <2>1, BelowOrder DEF Grows, Merged
<1>4. CASE RoomForCluster(m, p) /\ ~RoomForNodes(mine, counts)
  <2>1. got = [ok |-> FALSE, map |-> Put(m, p, mine)]
    BY <1>4 DEF MergeCluster
  <2>2. Fits(m) => Cardinality(mine) <= MaxNodes
    BY FS_EmptySet, LimitsAssumption DEF Fits, NodesOf
  <2>3. Fits(m) => Fits(Put(m, p, mine))
    BY <1>1, <1>4, <2>2, RoomFits
  <2>4. QED
    BY <1>1, <1>2, <2>1, <2>3 DEF Grows, Merged
<1>5. CASE RoomForCluster(m, p) /\ RoomForNodes(mine, counts)
  <2>1. got = [ok |-> TRUE, map |-> Put(m, p, mine \cup counts)]
    BY <1>5 DEF MergeCluster
  <2>2. Fits(m) => Fits(Put(m, p, mine \cup counts))
    BY <1>1, <1>5, RoomFits DEF RoomForNodes
  <2>3. p \in DOMAIN got.map /\ counts \subseteq got.map[p]
    <3>1. LET new == Put(m, p, mine \cup counts) IN p \in DOMAIN new /\ new[p] = mine \cup counts
      BY DEF Put
    <3>2. QED
      BY <2>1, <3>1
  <2>4. QED
    BY <1>1, <1>2, <2>1, <2>2, <2>3 DEF Grows, Merged
<1>6. QED
  BY <1>3, <1>4, <1>5

\* A merge of what a map in its limits keeps, into a part of it, is not refused.
LEMMA ClusterFits ==
  ASSUME NEW m \in CounterMap, NEW p \in Paths, NEW counts \in SUBSET Node,
         NEW t \in CounterMap, Fits(t), Below(m, t), p \in DOMAIN t, counts \subseteq t[p]
  PROVE  LET got == MergeCluster(m, p, counts) IN got.ok /\ Below(got.map, t)
<1>1. t[p] \in SUBSET Node /\ NodesOf(m, p) \cup counts \subseteq t[p]
  BY MapType DEF Below, NodesOf
<1>2. RoomForNodes(NodesOf(m, p), counts)
  <2>1. Cardinality(NodesOf(m, p) \cup counts) <= Cardinality(t[p])
    BY <1>1, FiniteSizes, FS_Subset
  <2>2. Cardinality(t[p]) <= MaxNodes
    BY DEF Fits
  <2>3. Cardinality(NodesOf(m, p) \cup counts) \in Nat /\ Cardinality(t[p]) \in Nat
    BY <1>1, FiniteSizes
  <2>4. QED
    BY <2>1, <2>2, <2>3, LimitsAssumption DEF RoomForNodes
<1>3. RoomForCluster(m, p)
  <2>1. SUFFICES ASSUME p \notin DOMAIN m PROVE Cardinality(DOMAIN m) < MaxClusters
    BY DEF RoomForCluster
  <2>2. DOMAIN m \in SUBSET Paths /\ DOMAIN t \in SUBSET Paths /\ DOMAIN m \cup {p} \subseteq DOMAIN t
    BY MapType DEF Below
  <2>3. Cardinality(DOMAIN m \cup {p}) = Cardinality(DOMAIN m) + 1
    BY <2>1, <2>2, FiniteSizes, FS_AddElement
  <2>4. Cardinality(DOMAIN m \cup {p}) <= Cardinality(DOMAIN t)
    BY <2>2, FiniteSizes, FS_Subset
  <2>5. Cardinality(DOMAIN t) <= MaxClusters
    BY DEF Fits
  <2>6. Cardinality(DOMAIN m) \in Nat /\ Cardinality(DOMAIN t) \in Nat
    BY <2>2, FiniteSizes
  <2>7. QED
    BY <2>3, <2>4, <2>5, <2>6, LimitsAssumption
<1>4. MergeCluster(m, p, counts) = [ok |-> TRUE, map |-> Put(m, p, NodesOf(m, p) \cup counts)]
  BY <1>2, <1>3 DEF MergeCluster
<1>5. NodesOf(m, p) \cup counts \in SUBSET Node
  BY MapType
<1> DEFINE new == Put(m, p, NodesOf(m, p) \cup counts)
<1>6. /\ DOMAIN new = DOMAIN m \cup {p} /\ new[p] = NodesOf(m, p) \cup counts
      /\ \A q \in DOMAIN m \ {p} : new[q] = m[q]
  BY DEF Put
<1> HIDE DEF new
<1>7. Below(new, t)
  <2>1. ASSUME NEW q \in DOMAIN new PROVE q \in DOMAIN t /\ new[q] \subseteq t[q]
    <3>1. CASE q = p
      BY <1>1, <1>6, <3>1
    <3>2. CASE q # p
      <4>1. q \in DOMAIN m /\ new[q] = m[q]
        BY <1>6, <3>2
      <4>2. QED
        BY <4>1 DEF Below
    <3>3. QED
      BY <3>1, <3>2
  <2>2. QED
    BY <2>1 DEF Below
<1>8. QED
  BY <1>4, <1>7 DEF new

\* The steps of merge_map.
MapStep(got, from, p) ==
  IF got.ok /\ p \in DOMAIN from THEN MergeCluster(got.map, p, from[p]) ELSE got

MapSteps(m, from, got) ==
  /\ got \in [0 .. Len(Path) -> Merged]
  /\ got[0] = [ok |-> TRUE, map |-> m]
  /\ \A i \in 1 .. Len(Path) : got[i] = MapStep(got[i - 1], from, Path[i])

\* MergeMap is the end of a walk over the paths.
LEMMA MapWalk ==
  ASSUME NEW m \in CounterMap, NEW from \in CounterMap
  PROVE  \E got : MapSteps(m, from, got) /\ MergeMap(m, from) = got[Len(Path)]
<1> DEFINE n == Len(Path)
           start == [ok |-> TRUE, map |-> m]
           walk(g) == [i \in 0 .. n |-> IF i = 0 THEN start
                         ELSE LET last == g[i - 1] IN
                              IF last.ok /\ Path[i] \in DOMAIN from
                              THEN MergeCluster(last.map, Path[i], from[Path[i]]) ELSE last]
           got == CHOOSE g : g = walk(g)
<1>1. MergeMap(m, from) = got[n]
  BY DEF MergeMap
<1>2. n \in Nat /\ \A i \in 1 .. n : Path[i] \in Paths
  BY FiniteAssumption
<1>3. ASSUME NEW x \in Merged, NEW i \in 1 .. n PROVE MapStep(x, from, Path[i]) \in Merged
  <2>1. CASE x.ok /\ Path[i] \in DOMAIN from
    <3>1. x.map \in CounterMap /\ from[Path[i]] \in SUBSET Node
      BY <2>1, MapType DEF Merged
    <3>2. MergeCluster(x.map, Path[i], from[Path[i]]) \in Merged
      BY <1>2, <3>1, ClusterMerges DEF Grows
    <3>3. QED
      BY <2>1, <3>2 DEF MapStep
  <2>2. CASE ~(x.ok /\ Path[i] \in DOMAIN from)
    BY <2>2 DEF MapStep
  <2>3. QED
    BY <2>1, <2>2
<1>4. start \in Merged
  BY DEF Merged
<1>5. ASSUME NEW g, NEW i \in 0 .. n
      PROVE  walk(g)[i] = IF i = 0 THEN start ELSE MapStep(g[i - 1], from, Path[i])
  BY DEF MapStep
<1>6. got = walk(got)
  <2> DEFINE step == [i \in 1 .. n |-> [x \in Merged |-> MapStep(x, from, Path[i])]]
  <2>1. \A i \in 1 .. n, x \in Merged : step[i][x] \in Merged
    BY <1>3
  <2>2. \E f : IsWalk(f, n, Merged, start, step)
    <3> HIDE DEF step, n, start
    <3>1. QED
      BY <1>2, <1>4, <2>1, Walk
  <2>3. PICK f \in [0 .. n -> Merged] : f[0] = start /\ \A i \in 1 .. n : f[i] = step[i][f[i - 1]]
    BY <2>2 DEF IsWalk
  <2>4. ASSUME NEW i \in 0 .. n PROVE f[i] = walk(f)[i]
    <3>1. CASE i = 0
      BY <1>5, <2>3, <3>1
    <3>2. CASE i # 0
      <4>1. i \in 1 .. n /\ i - 1 \in 0 .. n
        BY <1>2, <3>2
      <4>2. f[i - 1] \in Merged /\ f[i] = step[i][f[i - 1]]
        BY <2>3, <4>1
      <4>3. f[i] = MapStep(f[i - 1], from, Path[i])
        BY <4>1, <4>2
      <4>4. QED
        BY <1>5, <3>2, <4>3
    <3>3. QED
      BY <3>1, <3>2
  <2>5. f = walk(f)
    BY <2>3, <2>4
  <2>6. QED
    BY <2>5
<1> HIDE DEF got
<1>7. /\ got[0] = start
      /\ \A i \in 1 .. n : got[i] = MapStep(got[i - 1], from, Path[i])
      /\ got = [i \in 0 .. n |-> got[i]]
  <2>1. ASSUME NEW i \in 0 .. n PROVE got[i] = walk(got)[i]
    BY <1>6
  <2>2. \A i \in 1 .. n : i \in 0 .. n /\ i # 0
    BY <1>2
  <2>3. DOMAIN got = 0 .. n /\ got = [i \in 0 .. n |-> got[i]]
    BY <1>6
  <2>4. QED
    BY <1>2, <1>5, <2>1, <2>2, <2>3
<1>8. \A i \in 0 .. n : got[i] \in Merged
  <2> DEFINE G == {i \in 0 .. n : got[i] \in Merged}
  <2>1. 0 \in G
    BY <1>2, <1>4, <1>7
  <2>2. ASSUME NEW i \in 1 .. n, i - 1 \in G PROVE i \in G
    <3>1. got[i - 1] \in Merged
      BY <2>2
    <3>2. got[i] \in Merged
      BY <1>3, <1>7, <3>1
    <3>3. QED
      BY <1>2, <3>2
  <2> HIDE DEF G
  <2>3. \A i \in 0 .. n : i \in G
    BY <1>2, <2>1, <2>2, UpTo
  <2>4. QED
    BY <2>3 DEF G
<1>9. QED
  BY <1>1, <1>7, <1>8 DEF MapSteps

\* Merges in a row grow what the first began with.
LEMMA GrowsOrder ==
  ASSUME NEW m \in CounterMap, NEW a, Grows(m, a)
  PROVE  /\ a.map \in CounterMap
         /\ \A b : Grows(a.map, b) => Grows(m, b)
<1>1. a.map \in CounterMap
  BY DEF Grows, Merged
<1>2. ASSUME NEW b, Grows(a.map, b) PROVE Grows(m, b)
  <2>1. b.map \in CounterMap
    BY <1>2 DEF Grows, Merged
  <2>2. Below(m, b.map)
    BY <1>1, <1>2, <2>1, BelowOrder DEF Grows
  <2>3. QED
    BY <1>2, <2>2 DEF Grows
<1>3. QED
  BY <1>1, <1>2

\* A merge that begins, ok and with m, has grown it.
LEMMA StartGrows ==
  ASSUME NEW m \in CounterMap
  PROVE  Grows(m, [ok |-> TRUE, map |-> m])
BY BelowOrder DEF Grows, Merged

\* One step of merge_map.
LEMMA MapStepGrows ==
  ASSUME NEW got \in Merged, NEW from \in CounterMap, NEW p \in Paths
  PROVE  LET new == MapStep(got, from, p) IN
         /\ Grows(got.map, new)
         /\ new.ok => got.ok /\ (p \in DOMAIN from => p \in DOMAIN new.map /\ from[p] \subseteq new.map[p])
<1>1. got.map \in CounterMap
  BY DEF Merged
<1>2. CASE got.ok /\ p \in DOMAIN from
  <2>1. from[p] \in SUBSET Node
    BY <1>2, MapType
  <2>2. MapStep(got, from, p) = MergeCluster(got.map, p, from[p])
    BY <1>2 DEF MapStep
  <2>3. QED
    BY <1>1, <1>2, <2>1, <2>2, ClusterMerges
<1>3. CASE ~(got.ok /\ p \in DOMAIN from)
  <2>1. MapStep(got, from, p) = got
    BY <1>3 DEF MapStep
  <2>2. Grows(got.map, got)
    BY <1>1, BelowOrder DEF Grows
  <2>3. QED
    BY <1>3, <2>1, <2>2
<1>4. QED
  BY <1>2, <1>3

\* merge_map keeps what there was, and all it was given if it is ok.
LEMMA MapMerges ==
  ASSUME NEW m \in CounterMap, NEW from \in CounterMap
  PROVE  /\ Grows(m, MergeMap(m, from))
         /\ MergeMap(m, from).ok => Below(from, MergeMap(m, from).map)
<1>1. PICK got : MapSteps(m, from, got) /\ MergeMap(m, from) = got[Len(Path)]
  BY MapWalk
<1> DEFINE n == Len(Path)
           Has1(i, j) == Path[j] \in DOMAIN from =>
             Path[j] \in DOMAIN got[i].map /\ from[Path[j]] \subseteq got[i].map[Path[j]]
           Good(i) == Grows(m, got[i]) /\ (got[i].ok => \A j \in 1 .. i : Has1(i, j))
           G == {i \in 0 .. n : Good(i)}
<1>2. n \in Nat /\ \A i \in 1 .. n : Path[i] \in Paths
  BY FiniteAssumption
<1>3. 0 \in G
  <2>1. 0 \in 0 .. n /\ 1 .. 0 = {}
    BY <1>2
  <2>2. Grows(m, got[0])
    BY <1>1, StartGrows DEF MapSteps
  <2>3. QED
    BY <2>1, <2>2
<1>4. ASSUME NEW i \in 1 .. n, i - 1 \in G PROVE i \in G
  <2>1. Good(i - 1) /\ got[i - 1] \in Merged /\ got[i] = MapStep(got[i - 1], from, Path[i])
    BY <1>1, <1>4 DEF MapSteps
  <2>2. /\ Grows(got[i - 1].map, got[i])
        /\ got[i].ok => got[i - 1].ok /\ Has1(i, i)
    BY <1>2, <2>1, MapStepGrows
  <2>3. Grows(m, got[i])
    BY <2>1, <2>2, GrowsOrder
  <2>4. ASSUME got[i].ok, NEW j \in 1 .. i PROVE Has1(i, j)
    <3>1. CASE j = i
      BY <2>2, <2>4, <3>1
    <3>2. CASE j # i
      <4>1. j \in 1 .. (i - 1)
        BY <3>2
      <4>2. Has1(i - 1, j)
        BY <2>1, <2>2, <2>4, <4>1
      <4>3. Below(got[i - 1].map, got[i].map)
        BY <2>2 DEF Grows
      <4>4. QED
        BY <4>2, <4>3 DEF Below
    <3>3. QED
      BY <3>1, <3>2
  <2>5. QED
    BY <1>2, <2>3, <2>4
<1> HIDE DEF G
<1>5. \A i \in 0 .. n : i \in G
  BY <1>2, <1>3, <1>4, UpTo
<1>6. Good(n)
  BY <1>2, <1>5 DEF G
<1>7. ASSUME got[n].ok PROVE Below(from, got[n].map)
  <2>1. ASSUME NEW p \in DOMAIN from PROVE p \in DOMAIN got[n].map /\ from[p] \subseteq got[n].map[p]
    <3>1. PICK j \in 1 .. n : Path[j] = p
      BY MapType, FiniteAssumption DEF Paths, Range
    <3>2. QED
      BY <1>6, <1>7, <3>1
  <2>2. QED
    BY <2>1 DEF Below
<1>8. QED
  BY <1>1, <1>6, <1>7

\* merge_map is not refused what a map in its limits keeps, into a part of it.
LEMMA MapFits ==
  ASSUME NEW m \in CounterMap, NEW from \in CounterMap,
         NEW t \in CounterMap, Fits(t), Below(m, t), Below(from, t)
  PROVE  MergeMap(m, from).ok /\ Below(MergeMap(m, from).map, t)
<1>1. PICK got : MapSteps(m, from, got) /\ MergeMap(m, from) = got[Len(Path)]
  BY MapWalk
<1> DEFINE n == Len(Path)
           Good(i) == got[i].ok /\ Below(got[i].map, t)
           G == {i \in 0 .. n : Good(i)}
<1>2. n \in Nat /\ \A i \in 1 .. n : Path[i] \in Paths
  BY FiniteAssumption
<1>3. 0 \in G
  BY <1>1, <1>2 DEF MapSteps
<1>4. ASSUME NEW i \in 1 .. n, i - 1 \in G PROVE i \in G
  <2>1. Good(i - 1) /\ got[i - 1] \in Merged /\ got[i] = MapStep(got[i - 1], from, Path[i])
    BY <1>1, <1>4 DEF MapSteps
  <2>2. got[i - 1].map \in CounterMap
    BY <2>1 DEF Merged
  <2>3. CASE Path[i] \in DOMAIN from
    <3>1. /\ from[Path[i]] \in SUBSET Node
          /\ Path[i] \in DOMAIN t /\ from[Path[i]] \subseteq t[Path[i]]
      BY <2>3, MapType DEF Below
    <3>2. got[i] = MergeCluster(got[i - 1].map, Path[i], from[Path[i]])
      BY <2>1, <2>3 DEF MapStep
    <3>3. QED
      BY <1>2, <2>1, <2>2, <3>1, <3>2, ClusterFits
  <2>4. CASE Path[i] \notin DOMAIN from
    BY <1>2, <2>1, <2>4 DEF MapStep
  <2>5. QED
    BY <2>3, <2>4
<1> HIDE DEF G
<1>5. \A i \in 0 .. n : i \in G
  BY <1>2, <1>3, <1>4, UpTo
<1>6. Good(n)
  BY <1>2, <1>5 DEF G
<1>7. QED
  BY <1>1, <1>6

\* The answers a sync may keep, and the orders they may be merged in.
Told == UNION {[S -> CounterMap] : S \in SUBSET Replica}

Orders(told) == Bijection(1 .. Cardinality(DOMAIN told), DOMAIN told)

\* A joiner is told finitely many maps, and each has its place in the order.
LEMMA ToldType ==
  ASSUME NEW told \in Told, NEW order \in Orders(told)
  PROVE  /\ Cardinality(DOMAIN told) \in Nat
         /\ \A s \in DOMAIN told : told[s] \in CounterMap
         /\ \A i \in 1 .. Cardinality(DOMAIN told) : told[order[i]] \in CounterMap
         /\ \A s \in DOMAIN told : \E i \in 1 .. Cardinality(DOMAIN told) : order[i] = s
<1>1. DOMAIN told \in SUBSET Replica /\ \A s \in DOMAIN told : told[s] \in CounterMap
  BY DEF Told
<1>2. Cardinality(DOMAIN told) \in Nat
  BY <1>1, FiniteSizes
<1>3. /\ \A i \in 1 .. Cardinality(DOMAIN told) : order[i] \in DOMAIN told
      /\ \A s \in DOMAIN told : \E i \in 1 .. Cardinality(DOMAIN told) : order[i] = s
  BY DEF Orders, Bijection, Injection, Surjection
<1>4. QED
  BY <1>1, <1>2, <1>3

\* The steps of sync_once over its answers.
MapsStep(got, from) == IF got.ok THEN MergeMap(got.map, from) ELSE got

MapsSteps(m, told, order, got) ==
  /\ got \in [0 .. Cardinality(DOMAIN told) -> Merged]
  /\ got[0] = [ok |-> TRUE, map |-> m]
  /\ \A i \in 1 .. Cardinality(DOMAIN told) : got[i] = MapsStep(got[i - 1], told[order[i]])

\* MergeMaps is the end of a walk over the answers.
LEMMA MapsWalk ==
  ASSUME NEW m \in CounterMap, NEW told \in Told, NEW order \in Orders(told)
  PROVE  \E got : MapsSteps(m, told, order, got) /\ MergeMaps(m, told, order) = got[Cardinality(DOMAIN told)]
<1> DEFINE n == Cardinality(DOMAIN told)
           start == [ok |-> TRUE, map |-> m]
           walk(g) == [i \in 0 .. n |-> IF i = 0 THEN start
                         ELSE LET last == g[i - 1] IN
                              IF last.ok THEN MergeMap(last.map, told[order[i]]) ELSE last]
           got == CHOOSE g : g = walk(g)
<1>1. MergeMaps(m, told, order) = got[n]
  BY DEF MergeMaps
<1>2. n \in Nat /\ \A i \in 1 .. n : told[order[i]] \in CounterMap
  BY ToldType
<1>3. ASSUME NEW x \in Merged, NEW i \in 1 .. n PROVE MapsStep(x, told[order[i]]) \in Merged
  <2>1. x.map \in CounterMap
    BY DEF Merged
  <2>2. QED
    BY <1>2, <2>1, MapMerges DEF MapsStep, Grows
<1>4. start \in Merged
  BY DEF Merged
<1>5. ASSUME NEW g, NEW i \in 0 .. n
      PROVE  walk(g)[i] = IF i = 0 THEN start ELSE MapsStep(g[i - 1], told[order[i]])
  BY DEF MapsStep
<1>6. got = walk(got)
  <2> DEFINE step == [i \in 1 .. n |-> [x \in Merged |-> MapsStep(x, told[order[i]])]]
  <2>1. \A i \in 1 .. n, x \in Merged : step[i][x] \in Merged
    BY <1>3
  <2>2. \E f : IsWalk(f, n, Merged, start, step)
    <3> HIDE DEF step, n, start
    <3>1. QED
      BY <1>2, <1>4, <2>1, Walk
  <2>3. PICK f \in [0 .. n -> Merged] : f[0] = start /\ \A i \in 1 .. n : f[i] = step[i][f[i - 1]]
    BY <2>2 DEF IsWalk
  <2>4. ASSUME NEW i \in 0 .. n PROVE f[i] = walk(f)[i]
    <3>1. CASE i = 0
      BY <1>5, <2>3, <3>1
    <3>2. CASE i # 0
      <4>1. i \in 1 .. n /\ i - 1 \in 0 .. n
        BY <1>2, <3>2
      <4>2. f[i - 1] \in Merged /\ f[i] = step[i][f[i - 1]]
        BY <2>3, <4>1
      <4>3. f[i] = MapsStep(f[i - 1], told[order[i]])
        BY <4>1, <4>2
      <4>4. QED
        BY <1>5, <3>2, <4>3
    <3>3. QED
      BY <3>1, <3>2
  <2>5. f = walk(f)
    BY <2>3, <2>4
  <2>6. QED
    BY <2>5
<1> HIDE DEF got, n, walk
<1>7. /\ got[0] = start
      /\ \A i \in 1 .. n : got[i] = MapsStep(got[i - 1], told[order[i]])
      /\ got = [i \in 0 .. n |-> got[i]]
  <2>1. ASSUME NEW i \in 0 .. n PROVE got[i] = walk(got)[i]
    BY <1>6
  <2>2. \A i \in 1 .. n : i \in 0 .. n /\ i # 0
    BY <1>2
  <2>3. DOMAIN got = 0 .. n /\ got = [i \in 0 .. n |-> got[i]]
    BY <1>6 DEF walk
  <2>4. \A i \in 0 .. n : got[i] = IF i = 0 THEN start ELSE MapsStep(got[i - 1], told[order[i]])
    BY <1>5, <2>1
  <2>5. 0 \in 0 .. n
    BY <1>2
  <2>6. QED
    BY <2>2, <2>3, <2>4, <2>5
<1>8. \A i \in 0 .. n : got[i] \in Merged
  <2> DEFINE G == {i \in 0 .. n : got[i] \in Merged}
  <2>1. 0 \in G
    <3>1. 0 \in 0 .. n
      BY <1>2
    <3>2. QED
      BY <1>4, <1>7, <3>1
  <2>2. ASSUME NEW i \in 1 .. n, i - 1 \in G PROVE i \in G
    <3>1. got[i - 1] \in Merged
      BY <2>2
    <3>2. got[i] \in Merged
      BY <1>3, <1>7, <3>1
    <3>3. QED
      BY <1>2, <3>2
  <2> HIDE DEF G
  <2>3. \A i \in 0 .. n : i \in G
    BY <1>2, <2>1, <2>2, UpTo
  <2>4. QED
    BY <2>3 DEF G
<1>9. QED
  BY <1>1, <1>7, <1>8 DEF MapsSteps, n

\* A sync keeps what there was, and all it was told if it is ok.
LEMMA MapsMerge ==
  ASSUME NEW m \in CounterMap, NEW told \in Told, NEW order \in Orders(told)
  PROVE  LET end == MergeMaps(m, told, order) IN
         /\ Grows(m, end)
         /\ end.ok => \A s \in DOMAIN told : Below(told[s], end.map)
<1>1. PICK got : /\ MapsSteps(m, told, order, got)
                 /\ MergeMaps(m, told, order) = got[Cardinality(DOMAIN told)]
  BY MapsWalk
<1> DEFINE n == Cardinality(DOMAIN told)
           Good(i) == /\ Grows(m, got[i])
                      /\ got[i].ok => \A j \in 1 .. i : Below(told[order[j]], got[i].map)
           G == {i \in 0 .. n : Good(i)}
<1>2. n \in Nat /\ \A i \in 1 .. n : told[order[i]] \in CounterMap
  BY ToldType
<1>3. 0 \in G
  <2>1. 0 \in 0 .. n /\ 1 .. 0 = {}
    BY <1>2
  <2>2. Grows(m, got[0])
    BY <1>1, StartGrows DEF MapsSteps
  <2>3. QED
    BY <2>1, <2>2
<1>4. ASSUME NEW i \in 1 .. n, i - 1 \in G PROVE i \in G
  <2>1. Good(i - 1) /\ got[i - 1] \in Merged /\ got[i] = MapsStep(got[i - 1], told[order[i]])
    BY <1>1, <1>4 DEF MapsSteps
  <2>2. got[i - 1].map \in CounterMap
    BY <2>1 DEF Merged
  <2>3. /\ Grows(got[i - 1].map, got[i])
        /\ got[i].ok => got[i - 1].ok /\ Below(told[order[i]], got[i].map)
    <3>1. CASE got[i - 1].ok
      BY <1>2, <2>1, <2>2, <3>1, MapMerges DEF MapsStep
    <3>2. CASE ~got[i - 1].ok
      <4>1. got[i] = got[i - 1]
        BY <2>1, <3>2 DEF MapsStep
      <4>2. QED
        BY <2>1, <2>2, <3>2, <4>1, BelowOrder DEF Grows
    <3>3. QED
      BY <3>1, <3>2
  <2>4. Grows(m, got[i])
    BY <2>1, <2>3, GrowsOrder
  <2>5. ASSUME got[i].ok, NEW j \in 1 .. i PROVE Below(told[order[j]], got[i].map)
    <3>1. CASE j = i
      BY <2>3, <2>5, <3>1
    <3>2. CASE j # i
      <4>1. j \in 1 .. (i - 1) /\ j \in 1 .. n
        BY <1>2, <3>2
      <4>2. Below(told[order[j]], got[i - 1].map)
        BY <2>1, <2>3, <2>5, <4>1
      <4>3. Below(got[i - 1].map, got[i].map) /\ got[i].map \in CounterMap
        BY <2>3 DEF Grows, Merged
      <4>4. QED
        BY <1>2, <2>2, <4>1, <4>2, <4>3, BelowOrder
    <3>3. QED
      BY <3>1, <3>2
  <2>6. QED
    BY <1>2, <2>4, <2>5
<1> HIDE DEF G
<1>5. \A i \in 0 .. n : i \in G
  BY <1>2, <1>3, <1>4, UpTo
<1>6. Good(n)
  BY <1>2, <1>5 DEF G
<1>7. ASSUME got[n].ok, NEW s \in DOMAIN told PROVE Below(told[s], got[n].map)
  BY <1>6, <1>7, ToldType
<1>8. QED
  BY <1>1, <1>6, <1>7

\* A sync is not refused what a map in its limits keeps.
LEMMA MapsFit ==
  ASSUME NEW m \in CounterMap, NEW told \in Told, NEW order \in Orders(told),
         NEW t \in CounterMap, Fits(t), Below(m, t), \A s \in DOMAIN told : Below(told[s], t)
  PROVE  MergeMaps(m, told, order).ok
<1>1. PICK got : /\ MapsSteps(m, told, order, got)
                 /\ MergeMaps(m, told, order) = got[Cardinality(DOMAIN told)]
  BY MapsWalk
<1> DEFINE n == Cardinality(DOMAIN told)
           Good(i) == got[i].ok /\ Below(got[i].map, t)
           G == {i \in 0 .. n : Good(i)}
<1>2. n \in Nat /\ \A i \in 1 .. n : told[order[i]] \in CounterMap /\ order[i] \in DOMAIN told
  BY ToldType DEF Orders, Bijection, Injection
<1>3. 0 \in G
  BY <1>1, <1>2 DEF MapsSteps
<1>4. ASSUME NEW i \in 1 .. n, i - 1 \in G PROVE i \in G
  <2>1. Good(i - 1) /\ got[i - 1] \in Merged /\ got[i] = MapsStep(got[i - 1], told[order[i]])
    BY <1>1, <1>4 DEF MapsSteps
  <2>2. got[i - 1].map \in CounterMap
    BY <2>1 DEF Merged
  <2>3. got[i] = MergeMap(got[i - 1].map, told[order[i]])
    BY <2>1 DEF MapsStep
  <2>4. QED
    BY <1>2, <2>1, <2>2, <2>3, MapFits
<1> HIDE DEF G
<1>5. \A i \in 0 .. n : i \in G
  BY <1>2, <1>3, <1>4, UpTo
<1>6. Good(n)
  BY <1>2, <1>5 DEF G
<1>7. QED
  BY <1>1, <1>6

-----------------------------------------------------------------------------
(* The inductive invariant.                                                *)

Call == [at : Replica \cup {"none"}, path : Paths \cup {"none"}, nodes : SUBSET Node,
         heard : SUBSET Replica, view : SUBSET Node, before : SUBSET Op]

\* A sync runs at a replica that is up and not ready, and else was told nothing.
ReplicasOK ==
  /\ up \in SUBSET Replica /\ ready \in SUBSET up
  /\ map \in [Replica -> CounterMap] /\ \A r \in Replica : Fits(map[r])
  /\ sync \in [Replica -> [running : BOOLEAN, told : Told]]
  /\ \A r \in Replica : IF sync[r].running THEN r \in up \ ready ELSE DOMAIN sync[r].told = {}
  /\ net \subseteq [path : Paths, nodes : SUBSET Node]

\* What a call is at each stage: it runs at a ready replica that does not answer itself.
CallOK(o) ==
  /\ pc[o] = "reading" => o \in Reads
  /\ pc[o] \in {"merging", "writing"} => o \in Raises
  /\ pc[o] = "merging" => call[o].heard = {}
  /\ pc[o] \in Running \cup {"acked"} => call[o].path \in Paths
  /\ pc[o] \in Running => call[o].at \in ready \ call[o].heard
  /\ call[o].before \subseteq Ended

CallsOK ==
  /\ pc \in [Op -> {"idle", "acked", "failed"} \cup Running]
  /\ call \in [Op -> Call]
  /\ \A o \in Op : CallOK(o)

StateInv == ReplicasOK /\ CallsOK

\* Those whose word counts in a round: who answered, and who asked.
Counted(o) == call[o].heard \cup {call[o].at}

\* Until a write ends, all of these that still run hold it.
WritesHeld ==
  \A w \in Raises : pc[w] = "writing" => \A h \in Counted(w) \cap up : Has(map[h], w)

\* A holder has the write, or lost it and is not ready, and then all that other
\* holders told it has the write.
HolderOK(w, H, h) ==
  \/ Has(map[h], w)
  \/ h \notin ready /\ \A s \in DOMAIN sync[h].told \cap H : Has(sync[h].told[s], w)

\* A read that began after the write and heard a holder has the write.
ReaderOK(w, H, o) ==
  /\ pc[o] = "reading" /\ w \in call[o].before /\ call[o].path = call[w].path
  /\ Counted(o) \cap H # {}
  => call[w].nodes \subseteq call[o].view

Holders(w, H) ==
  /\ Cardinality(H) >= Majority
  /\ \A h \in H \cap up : HolderOK(w, H, h)
  /\ \A o \in Reads : ReaderOK(w, H, o)

\* An acknowledged write has a majority of holders, whoever is lost since.
AckedHeld == \A w \in Acked : \E H \in SUBSET Replica : Holders(w, H)

IInv == StateInv /\ WritesHeld /\ AckedHeld /\ ReadMeetsAckedWrites

\* The types of the run are part of it.
LEMMA StateTypes == StateInv => TypeOK
BY DEF StateInv, ReplicasOK, CallsOK, CallOK, TypeOK

\* A map that keeps its limits and what replica r kept.
Grown(r, m) == m \in CounterMap /\ Fits(m) /\ Below(map[r], m)

\* The merges of the actions.
LEMMA MergesGrow ==
  ASSUME StateInv, NEW r \in Replica
  PROVE  /\ Grown(r, map[r])
         /\ \A p \in Paths, nodes \in SUBSET Node :
              LET got == MergeCluster(map[r], p, nodes) IN
              /\ Grown(r, got.map)
              /\ got.ok => p \in DOMAIN got.map /\ nodes \subseteq NodesOf(got.map, p)
         /\ \A order \in Orders(sync[r].told) :
              LET got == MergeMaps(map[r], sync[r].told, order) IN
              /\ Grown(r, got.map)
              /\ got.ok => \A s \in DOMAIN sync[r].told : Below(sync[r].told[s], got.map)
<1>1. map[r] \in CounterMap /\ Fits(map[r]) /\ sync[r].told \in Told
  BY DEF StateInv, ReplicasOK
<1>2. ASSUME NEW got, Grows(map[r], got) PROVE Grown(r, got.map)
  BY <1>1, <1>2 DEF Grows, Grown, Merged
<1>3. Grown(r, map[r])
  BY <1>1, BelowOrder DEF Grown
<1>4. ASSUME NEW p \in Paths, NEW nodes \in SUBSET Node
      PROVE  LET got == MergeCluster(map[r], p, nodes) IN
             /\ Grown(r, got.map)
             /\ got.ok => p \in DOMAIN got.map /\ nodes \subseteq NodesOf(got.map, p)
  BY <1>1, <1>2, ClusterMerges DEF NodesOf
<1>5. ASSUME NEW order \in Orders(sync[r].told)
      PROVE  LET got == MergeMaps(map[r], sync[r].told, order) IN
             /\ Grown(r, got.map)
             /\ got.ok => \A s \in DOMAIN sync[r].told : Below(sync[r].told[s], got.map)
  BY <1>1, <1>2, MapsMerge
<1>6. QED
  BY <1>3, <1>4, <1>5

\* Where a replica's map is replaced by a grown one, all maps grow.
LEMMA MapGrows ==
  ASSUME StateInv, NEW r \in Replica, NEW m, Grown(r, m), map' = [map EXCEPT ![r] = m]
  PROVE  /\ map' \in [Replica -> CounterMap] /\ \A x \in Replica : Fits(map'[x])
         /\ \A x \in Replica : Below(map[x], map'[x])
<1>1. map \in [Replica -> CounterMap] /\ \A x \in Replica : Fits(map[x])
  BY DEF StateInv, ReplicasOK
<1>2. ASSUME NEW x \in Replica
      PROVE  map'[x] \in CounterMap /\ Fits(map'[x]) /\ Below(map[x], map'[x])
  <2>1. CASE x = r
    BY <1>1, <2>1 DEF Grown
  <2>2. CASE x # r
    BY <1>1, <2>2, BelowOrder
  <2>3. QED
    BY <2>1, <2>2
<1>3. QED
  BY <1>1, <1>2

\* Where one call that had not ended moves on, and no ready replica is lost, calls
\* stay what they are, and those that ended stay as they ended.
LEMMA CallMoves ==
  ASSUME StateInv, NEW o \in Op, NEW stage, NEW c \in Call,
         stage \in {"idle", "acked", "failed"} \cup Running,
         pc[o] \notin {"acked", "failed"},
         pc' = [pc EXCEPT ![o] = stage], call' = [call EXCEPT ![o] = c],
         ready \subseteq ready',
         stage = "reading" => o \in Reads,
         stage \in {"merging", "writing"} => o \in Raises,
         stage = "merging" => c.heard = {},
         stage \in Running \cup {"acked"} => c.path \in Paths,
         stage \in Running => c.at \in ready \ c.heard,
         c.before \subseteq Ended
  PROVE  /\ CallsOK'
         /\ \A w \in Ended : pc'[w] = pc[w] /\ call'[w] = call[w]
<1>1. pc \in [Op -> {"idle", "acked", "failed"} \cup Running] /\ call \in [Op -> Call]
  BY DEF StateInv, CallsOK
<1>2. pc' \in [Op -> {"idle", "acked", "failed"} \cup Running] /\ call' \in [Op -> Call]
  BY <1>1
<1>3. \A w \in Ended : pc'[w] = pc[w] /\ call'[w] = call[w]
  BY <1>1 DEF Ended
<1>4. Ended \subseteq Ended'
  BY <1>3 DEF Ended
<1>5. ASSUME NEW x \in Op PROVE CallOK(x)'
  <2>1. CASE x = o
    <3>1. pc'[x] = stage /\ call'[x] = c
      BY <1>1, <2>1
    <3>2. QED
      BY <1>4, <2>1, <3>1 DEF CallOK
  <2>2. CASE x # o
    <3>1. pc'[x] = pc[x] /\ call'[x] = call[x]
      BY <1>1, <2>2
    <3>2. CallOK(x)
      BY DEF StateInv, CallsOK
    <3>3. QED
      BY <1>4, <3>1, <3>2 DEF CallOK
  <2>3. QED
    BY <2>1, <2>2
<1>6. QED
  BY <1>2, <1>3, <1>5 DEF CallsOK

\* Where no call moves and no ready replica is lost, calls stay what they are.
LEMMA CallsStay ==
  ASSUME StateInv, UNCHANGED <<pc, call>>, ready \subseteq ready'
  PROVE  /\ CallsOK'
         /\ \A w \in Ended : pc'[w] = pc[w] /\ call'[w] = call[w]
BY DEF StateInv, CallsOK, CallOK, Ended

-----------------------------------------------------------------------------
(* Every step keeps types; maps grow, and calls that ended stay.           *)

MapsGrow == \A r \in up \cap up' : Below(map[r], map'[r])

EndedStay == \A w \in Ended : pc'[w] = pc[w] /\ call'[w] = call[w]

Progress == StateInv' /\ MapsGrow /\ EndedStay

\* Nothing has been told to a replica that runs no sync.
LEMMA NoSyncType ==
  /\ NoSync \in [running : BOOLEAN, told : Told]
  /\ [NoSync EXCEPT !.running = TRUE] \in [running : BOOLEAN, told : Told]
  /\ DOMAIN NoSync.told = {} /\ ~NoSync.running
<1>1. <<>> \in Told
  <2>1. <<>> \in [{} -> CounterMap]
    OBVIOUS
  <2>2. QED
    BY <2>1 DEF Told
<1>2. DOMAIN <<>> = {}
  OBVIOUS
<1>3. QED
  BY <1>1, <1>2 DEF NoSync

\* The empty map is a map, in its limits, and the empty call a call.
LEMMA EmptyTypes ==
  /\ <<>> \in CounterMap /\ Fits(<<>>)
  /\ NoCall \in Call /\ NoCall.before = {}
<1>1. DOMAIN <<>> = {} /\ <<>> \in [{} -> SUBSET Node]
  OBVIOUS
<1>2. <<>> \in CounterMap /\ Fits(<<>>)
  BY <1>1, FS_EmptySet, LimitsAssumption DEF CounterMap, Fits
<1>3. QED
  BY <1>2 DEF NoCall, Call

LEMMA InitState == Init => StateInv
<1>1. ASSUME Init PROVE StateInv
  <2>1. ReplicasOK
    BY <1>1, NoSyncType, EmptyTypes DEF Init, ReplicasOK
  <2>2. CallsOK
    BY <1>1, EmptyTypes DEF Init, CallsOK, CallOK, Running
  <2>3. QED
    BY <2>1, <2>2 DEF StateInv
<1>2. QED
  BY <1>1

LEMMA CrashProgress ==
  ASSUME StateInv, NEW r \in Replica, Crash(r)
  PROVE  Progress
<1>1. ReplicasOK /\ CallsOK
  BY DEF StateInv
<1>2. ReplicasOK'
  BY <1>1, NoSyncType, EmptyTypes DEF Crash, ReplicasOK
<1>3. EndedStay
  BY <1>1 DEF Crash, EndedStay, CallsOK, Ended, Running
<1>4. Ended \subseteq Ended'
  BY <1>3 DEF EndedStay, Ended
<1>5. ASSUME NEW o \in Op PROVE CallOK(o)'
  <2>1. CASE pc[o] \in Running /\ call[o].at = r
    <3>1. pc'[o] = "failed" /\ call'[o] = NoCall
      BY <2>1 DEF Crash
    <3>2. QED
      BY <3>1, EmptyTypes DEF CallOK, Running
  <2>2. CASE ~(pc[o] \in Running /\ call[o].at = r)
    <3>1. pc'[o] = pc[o] /\ call'[o] = call[o] /\ ready' = ready \ {r}
      BY <1>1, <2>2 DEF Crash, CallsOK
    <3>2. QED
      BY <1>1, <1>4, <2>2, <3>1 DEF CallsOK, CallOK
  <2>3. QED
    BY <2>1, <2>2
<1>6. CallsOK'
  <2>1. pc' \in [Op -> {"idle", "acked", "failed"} \cup Running]
    BY <1>1 DEF Crash, CallsOK
  <2>2. call' \in [Op -> Call]
    BY <1>1, EmptyTypes DEF Crash, CallsOK
  <2>3. QED
    BY <1>5, <2>1, <2>2 DEF CallsOK
<1>7. MapsGrow
  BY <1>1, BelowOrder DEF Crash, MapsGrow, ReplicasOK
<1>8. QED
  BY <1>2, <1>3, <1>6, <1>7 DEF Progress, StateInv

LEMMA JoinProgress ==
  ASSUME StateInv, NEW r \in Replica, Join(r)
  PROVE  Progress
<1>1. ReplicasOK'
  BY DEF Join, StateInv, ReplicasOK
<1>2. CallsOK' /\ EndedStay
  BY CallsStay DEF Join, EndedStay
<1>3. MapsGrow
  BY BelowOrder DEF Join, MapsGrow, StateInv, ReplicasOK
<1>4. QED
  BY <1>1, <1>2, <1>3 DEF Progress, StateInv

LEMMA StartSyncProgress ==
  ASSUME StateInv, NEW r \in Replica, StartSync(r) \/ SyncAgain(r)
  PROVE  Progress
<1>1. ReplicasOK'
  BY NoSyncType DEF StartSync, SyncAgain, StateInv, ReplicasOK, NoSync
<1>2. CallsOK' /\ EndedStay
  BY CallsStay DEF StartSync, SyncAgain, EndedStay
<1>3. MapsGrow
  BY BelowOrder DEF StartSync, SyncAgain, MapsGrow, StateInv, ReplicasOK
<1>4. QED
  BY <1>1, <1>2, <1>3 DEF Progress, StateInv

\* An answer is added to those of a running sync.
LEMMA AnswerTold ==
  ASSUME StateInv, NEW r \in Replica, NEW s \in Replica, AnswerSync(r, s)
  PROVE  /\ sync' \in [Replica -> [running : BOOLEAN, told : Told]]
         /\ \A x \in Replica : x # r => sync'[x] = sync[x]
         /\ sync'[r].running
         /\ DOMAIN sync'[r].told = DOMAIN sync[r].told \cup {s}
         /\ sync'[r].told[s] = map[s]
         /\ \A x \in DOMAIN sync[r].told : sync'[r].told[x] = sync[r].told[x]
<1>1. sync \in [Replica -> [running : BOOLEAN, told : Told]] /\ map[s] \in CounterMap
  BY DEF StateInv, ReplicasOK
<1>2. s \notin DOMAIN sync[r].told /\ sync[r].running
  BY DEF AnswerSync
<1> DEFINE told == sync[r].told
           new == Put(told, s, map[s])
<1>3. told \in Told /\ DOMAIN told \in SUBSET Replica /\ \A x \in DOMAIN told : told[x] \in CounterMap
  BY <1>1 DEF Told
<1>4. /\ new = [x \in DOMAIN told \cup {s} |-> IF x = s THEN map[s] ELSE told[x]]
      /\ new \in [DOMAIN told \cup {s} -> CounterMap]
  BY <1>1, <1>3 DEF Put
<1>5. new \in Told
  BY <1>3, <1>4 DEF Told
<1>6. sync' = [sync EXCEPT ![r].told = new]
  BY DEF AnswerSync
<1>7. DOMAIN new = DOMAIN told \cup {s} /\ new[s] = map[s] /\ \A x \in DOMAIN told : new[x] = told[x]
  BY <1>2, <1>4
<1> HIDE DEF new
<1>8. /\ sync'[r] = [sync[r] EXCEPT !.told = new]
      /\ \A x \in Replica : x # r => sync'[x] = sync[x]
  BY <1>1, <1>6
<1>9. sync'[r].told = new /\ sync'[r].running
  BY <1>1, <1>2, <1>8
<1>10. sync' \in [Replica -> [running : BOOLEAN, told : Told]]
  BY <1>1, <1>5, <1>6
<1>11. QED
  BY <1>7, <1>8, <1>9, <1>10

LEMMA AnswerSyncProgress ==
  ASSUME StateInv, NEW r \in Replica, NEW s \in Replica, AnswerSync(r, s)
  PROVE  Progress
<1>1. ASSUME NEW x \in Replica
      PROVE  IF sync'[x].running THEN x \in up' \ ready' ELSE DOMAIN sync'[x].told = {}
  BY AnswerTold DEF AnswerSync, StateInv, ReplicasOK
<1>2. ReplicasOK'
  BY <1>1, AnswerTold DEF AnswerSync, StateInv, ReplicasOK
<1>3. CallsOK' /\ EndedStay
  BY CallsStay DEF AnswerSync, EndedStay
<1>4. MapsGrow
  BY BelowOrder DEF AnswerSync, MapsGrow, StateInv, ReplicasOK
<1>5. QED
  BY <1>2, <1>3, <1>4 DEF Progress, StateInv

\* The sync that ends: the map it leaves, and whether the replica is ready.
LEMMA SyncEnds ==
  ASSUME StateInv, NEW r \in Replica, SyncMerges(r)
  PROVE  \E order \in Orders(sync[r].told) :
           LET got == MergeMaps(map[r], sync[r].told, order) IN
           /\ Grown(r, got.map)
           /\ map' = [map EXCEPT ![r] = got.map]
           /\ ready' = IF got.ok THEN ready \cup {r} ELSE ready
           /\ got.ok => \A s \in DOMAIN sync[r].told : Below(sync[r].told[s], got.map)
<1>1. PICK order \in Orders(sync[r].told) :
        LET got == MergeMaps(map[r], sync[r].told, order) IN
        /\ map' = [map EXCEPT ![r] = got.map]
        /\ ready' = IF got.ok THEN ready \cup {r} ELSE ready
  BY DEF SyncMerges, Synced, Orders
<1>2. QED
  BY <1>1, MergesGrow

LEMMA SyncMergesProgress ==
  ASSUME StateInv, NEW r \in Replica, SyncMerges(r)
  PROVE  Progress
<1>1. PICK m : Grown(r, m) /\ map' = [map EXCEPT ![r] = m]
  BY SyncEnds
<1>2. ready' \in {ready, ready \cup {r}} /\ r \in up
  BY SyncEnds DEF SyncMerges, StateInv, ReplicasOK
<1>3. /\ map' \in [Replica -> CounterMap] /\ \A x \in Replica : Fits(map'[x])
      /\ \A x \in Replica : Below(map[x], map'[x])
  BY <1>1, MapGrows
<1>4. sync' = [sync EXCEPT ![r] = NoSync] /\ UNCHANGED <<up, pc, call, net>>
  BY DEF SyncMerges
<1>5. ReplicasOK'
  BY <1>2, <1>3, <1>4, NoSyncType DEF StateInv, ReplicasOK
<1>6. CallsOK' /\ EndedStay
  BY <1>2, <1>4, CallsStay DEF EndedStay
<1>7. MapsGrow
  BY <1>3 DEF MapsGrow, StateInv, ReplicasOK
<1>8. QED
  BY <1>5, <1>6, <1>7 DEF Progress, StateInv

LEMMA LateMergeProgress ==
  ASSUME StateInv, NEW s \in Replica, LateMerge(s)
  PROVE  Progress
<1>1. PICK m \in net : map' = [map EXCEPT ![s] = MergeCluster(map[s], m.path, m.nodes).map]
  BY DEF LateMerge, StateInv, ReplicasOK
<1>2. m.path \in Paths /\ m.nodes \in SUBSET Node
  BY DEF StateInv, ReplicasOK
<1>3. Grown(s, MergeCluster(map[s], m.path, m.nodes).map)
  BY <1>2, MergesGrow
<1>4. /\ map' \in [Replica -> CounterMap] /\ \A x \in Replica : Fits(map'[x])
      /\ \A x \in Replica : Below(map[x], map'[x])
  BY <1>1, <1>3, MapGrows
<1>5. ReplicasOK'
  BY <1>4 DEF LateMerge, StateInv, ReplicasOK
<1>6. CallsOK' /\ EndedStay
  BY CallsStay DEF LateMerge, EndedStay
<1>7. MapsGrow
  BY <1>4 DEF MapsGrow, StateInv, ReplicasOK
<1>8. QED
  BY <1>5, <1>6, <1>7 DEF Progress, StateInv

\* Where nothing changes but calls.
LEMMA OnlyCalls ==
  ASSUME StateInv, CallsOK', EndedStay, UNCHANGED <<up, ready, map, sync>>,
         net' \subseteq [path : Paths, nodes : SUBSET Node]
  PROVE  Progress
<1>1. ReplicasOK'
  BY DEF StateInv, ReplicasOK
<1>2. MapsGrow
  BY BelowOrder DEF MapsGrow, StateInv, ReplicasOK
<1>3. QED
  BY <1>1, <1>2 DEF Progress, StateInv

\* Where one map grows and calls move on.
LEMMA CallsAndMap ==
  ASSUME StateInv, CallsOK', EndedStay, UNCHANGED <<up, ready, sync>>,
         net' \subseteq [path : Paths, nodes : SUBSET Node],
         NEW r \in Replica, NEW m, Grown(r, m), map' = [map EXCEPT ![r] = m]
  PROVE  Progress
<1>1. /\ map' \in [Replica -> CounterMap] /\ \A x \in Replica : Fits(map'[x])
      /\ \A x \in Replica : Below(map[x], map'[x])
  BY MapGrows
<1>2. ReplicasOK'
  BY <1>1 DEF StateInv, ReplicasOK
<1>3. MapsGrow
  BY <1>1 DEF MapsGrow, StateInv, ReplicasOK
<1>4. QED
  BY <1>2, <1>3 DEF Progress, StateInv

\* A call inside a round: its types.
LEMMA InRound ==
  ASSUME StateInv, NEW o \in Op, pc[o] \in Running
  PROVE  /\ call[o] \in Call /\ call[o].path \in Paths
         /\ call[o].at \in Replica /\ call[o].at \in ready \ call[o].heard
         /\ call[o].before \subseteq Ended /\ pc[o] \notin {"acked", "failed"}
         /\ call[o].nodes \in SUBSET Node /\ call[o].view \in SUBSET Node
         /\ call[o].heard \in SUBSET Replica
BY DEF StateInv, ReplicasOK, CallsOK, CallOK, Call, Running

\* How a call finishes.
LEMMA FinishMoves ==
  ASSUME StateInv, NEW o \in Op, pc[o] \in Running, NEW as \in {"acked", "failed"},
         Finish(o, as), ready \subseteq ready'
  PROVE  CallsOK' /\ EndedStay
<1> DEFINE c == IF as = "acked" THEN [call[o] EXCEPT !.at = "none", !.heard = {}] ELSE NoCall
<1>1. c \in Call /\ c.before \subseteq Ended /\ (as = "acked" => c.path \in Paths)
  BY InRound, EmptyTypes DEF Call
<1>2. pc' = [pc EXCEPT ![o] = as] /\ call' = [call EXCEPT ![o] = c]
  BY DEF Finish
<1> HIDE DEF c
<1>3. QED
  BY <1>1, <1>2, InRound, CallMoves DEF EndedStay, Running

LEMMA BeginProgress ==
  ASSUME StateInv, NEW o \in Op, NEW r \in Replica, NEW p \in Paths, NEW nodes \in SUBSET Node,
         Begin(o, r, p, nodes)
  PROVE  Progress
<1> DEFINE c == [at |-> r, path |-> p, nodes |-> nodes, heard |-> {}, view |-> NodesOf(map[r], p),
                 before |-> IF o \in Reads THEN Ended ELSE {}]
           stage == IF o \in Reads THEN "reading" ELSE "merging"
<1>1. c \in Call
  <2>1. NodesOf(map[r], p) \in SUBSET Node
    BY MapType DEF StateInv, ReplicasOK
  <2>2. Ended \in SUBSET Op
    BY DEF Ended
  <2>3. QED
    BY <2>1, <2>2 DEF Call
<1>2. pc[o] = "idle" /\ r \in ready
  BY DEF Begin
<1>3. pc' = [pc EXCEPT ![o] = stage] /\ call' = [call EXCEPT ![o] = c]
  BY DEF Begin
<1>4. CallsOK' /\ EndedStay
  <2>1. c.path \in Paths /\ c.heard = {} /\ c.at \in ready \ c.heard /\ c.before \subseteq Ended
    BY <1>2
  <2>2. stage \in Running /\ (stage = "reading" => o \in Reads)
        /\ (stage \in {"merging", "writing"} => o \in Raises)
    BY DEF Running, Op
  <2>3. ready \subseteq ready'
    BY DEF Begin
  <2> HIDE DEF c, stage
  <2>4. QED
    BY <1>1, <1>2, <1>3, <2>1, <2>2, <2>3, CallMoves DEF EndedStay
<1>5. QED
  BY <1>4, OnlyCalls DEF Begin, StateInv, ReplicasOK

LEMMA AnswerReadProgress ==
  ASSUME StateInv, NEW o \in Op, NEW s \in Replica, AnswerRead(o, s)
  PROVE  Progress
<1> DEFINE c == [call[o] EXCEPT !.heard = @ \cup {s}, !.view = @ \cup NodesOf(map[s], call[o].path)]
<1>1. pc[o] = "reading" /\ pc[o] \in Running
  BY DEF AnswerRead, Running
<1>2. NodesOf(map[s], call[o].path) \in SUBSET Node
  BY <1>1, InRound, MapType DEF StateInv, ReplicasOK
<1>3. c \in Call /\ c.at = call[o].at /\ c.heard = call[o].heard \cup {s}
      /\ c.path = call[o].path /\ c.before = call[o].before
  BY <1>1, <1>2, InRound DEF Call
<1>4. pc' = [pc EXCEPT ![o] = "reading"] /\ call' = [call EXCEPT ![o] = c]
  BY <1>1 DEF AnswerRead, StateInv, CallsOK
<1>5. c.at \in ready \ c.heard
  BY <1>1, <1>3, InRound DEF AnswerRead
<1>6. o \in Reads /\ ready \subseteq ready'
  BY <1>1 DEF AnswerRead, StateInv, CallsOK, CallOK
<1> HIDE DEF c
<1>7. CallsOK' /\ EndedStay
  BY <1>1, <1>3, <1>4, <1>5, <1>6, InRound, CallMoves DEF EndedStay
<1>8. QED
  BY <1>7, OnlyCalls DEF AnswerRead, StateInv, ReplicasOK

LEMMA RefusedProgress ==
  ASSUME StateInv, NEW o \in Op, TooFew(o) \/ ViewRefused(o)
  PROVE  Progress
<1>1. pc[o] \in Running /\ Finish(o, "failed") /\ UNCHANGED <<ready, up, map, sync, net>>
  BY DEF TooFew, ViewRefused, Running
<1>2. CallsOK' /\ EndedStay
  BY <1>1, FinishMoves
<1>3. QED
  BY <1>1, <1>2, OnlyCalls DEF StateInv, ReplicasOK

LEMMA ViewKeptProgress ==
  ASSUME StateInv, NEW o \in Op, ViewKept(o)
  PROVE  Progress
<1> DEFINE r == call[o].at
           got == MergeCluster(map[r], call[o].path, call[o].view)
<1>1. pc[o] \in Running /\ UNCHANGED <<ready, up, sync, net>>
  BY DEF ViewKept, Running
<1>2. map' = [map EXCEPT ![r] = got.map] /\ Finish(o, IF got.ok THEN "acked" ELSE "failed")
  BY DEF ViewKept
<1>3. r \in Replica /\ Grown(r, got.map)
  BY <1>1, InRound, MergesGrow
<1>4. CallsOK' /\ EndedStay
  BY <1>1, <1>2, FinishMoves
<1> HIDE DEF r, got
<1>5. QED
  BY <1>1, <1>2, <1>3, <1>4, CallsAndMap DEF StateInv, ReplicasOK

LEMMA StartWriteProgress ==
  ASSUME StateInv, NEW o \in Op, StartWrite(o)
  PROVE  Progress
<1> DEFINE r == call[o].at
           got == MergeCluster(map[r], call[o].path, call[o].nodes)
           c == [call[o] EXCEPT !.view = got.map[call[o].path]]
<1>1. pc[o] = "merging" /\ pc[o] \in Running /\ UNCHANGED <<ready, up, sync>>
      /\ map' = [map EXCEPT ![r] = got.map]
  BY DEF StartWrite, Running
<1>2. r \in Replica /\ Grown(r, got.map) /\ (got.ok => call[o].path \in DOMAIN got.map)
  BY <1>1, InRound, MergesGrow
<1>3. net' \subseteq [path : Paths, nodes : SUBSET Node]
  BY <1>1, InRound DEF StartWrite, StateInv, ReplicasOK
<1>4. CallsOK' /\ EndedStay
  <2>1. CASE got.ok
    <3>1. got.map[call[o].path] \in SUBSET Node
      BY <1>2, <2>1, MapType DEF Grown
    <3>2. c \in Call /\ c.at = call[o].at /\ c.heard = call[o].heard
          /\ c.path = call[o].path /\ c.before = call[o].before
      BY <1>1, <3>1, InRound DEF Call
    <3>3. pc' = [pc EXCEPT ![o] = "writing"] /\ call' = [call EXCEPT ![o] = c]
      BY <2>1 DEF StartWrite
    <3>4. o \in Raises /\ ready \subseteq ready'
      BY <1>1 DEF StateInv, CallsOK, CallOK
    <3> HIDE DEF c
    <3>5. QED
      BY <1>1, <3>2, <3>3, <3>4, InRound, CallMoves DEF EndedStay, Running
  <2>2. CASE ~got.ok
    BY <1>1, <2>2, FinishMoves DEF StartWrite
  <2>3. QED
    BY <2>1, <2>2
<1> HIDE DEF r, got, c
<1>5. QED
  BY <1>1, <1>2, <1>3, <1>4, CallsAndMap

LEMMA AnswerMergeProgress ==
  ASSUME StateInv, NEW o \in Op, NEW s \in Replica, AnswerMerge(o, s)
  PROVE  Progress
<1> DEFINE got == MergeCluster(map[s], call[o].path, call[o].nodes)
           c == [call[o] EXCEPT !.heard = @ \cup {s}, !.view = @ \cup NodesOf(got.map, call[o].path)]
<1>1. pc[o] = "writing" /\ pc[o] \in Running /\ UNCHANGED <<ready, up, sync, pc, net>>
      /\ map' = [map EXCEPT ![s] = got.map]
  BY DEF AnswerMerge, Running
<1>2. Grown(s, got.map)
  BY <1>1, InRound, MergesGrow
<1>3. CallsOK' /\ EndedStay
  <2>1. CASE got.ok
    <3>1. NodesOf(got.map, call[o].path) \in SUBSET Node
      BY <1>1, <1>2, InRound, MapType DEF Grown
    <3>2. c \in Call /\ c.at = call[o].at /\ c.heard = call[o].heard \cup {s}
          /\ c.path = call[o].path /\ c.before = call[o].before
      BY <1>1, <3>1, InRound DEF Call
    <3>3. pc' = [pc EXCEPT ![o] = "writing"] /\ call' = [call EXCEPT ![o] = c]
      BY <1>1, <2>1 DEF AnswerMerge, Taken, StateInv, CallsOK
    <3>4. o \in Raises /\ ready \subseteq ready'
      BY <1>1 DEF StateInv, CallsOK, CallOK
    <3>5. c.at \in ready \ c.heard
      BY <1>1, <3>2, InRound DEF AnswerMerge
    <3> HIDE DEF c
    <3>6. QED
      BY <1>1, <3>2, <3>3, <3>4, <3>5, InRound, CallMoves DEF EndedStay, Running
  <2>2. CASE ~got.ok
    <3>1. UNCHANGED <<pc, call>>
      BY <1>1, <2>2 DEF AnswerMerge, Taken
    <3>2. QED
      BY <1>1, <3>1, CallsStay DEF EndedStay
  <2>3. QED
    BY <2>1, <2>2
<1> HIDE DEF got, c
<1>4. QED
  BY <1>1, <1>2, <1>3, CallsAndMap DEF StateInv, ReplicasOK

\* The steps of Next, with the types of what they are about.
LEMMA Steps ==
  ASSUME [Next]_vars
  PROVE  \/ \E r \in Replica : Crash(r)
         \/ \E r \in Replica : Join(r)
         \/ \E r \in Replica : StartSync(r) \/ SyncAgain(r)
         \/ \E r, s \in Replica : AnswerSync(r, s)
         \/ \E r \in Replica : SyncMerges(r)
         \/ \E r \in Replica : LateMerge(r)
         \/ \E o \in Op, r \in Replica, p \in Paths, nodes \in SUBSET Node : Begin(o, r, p, nodes)
         \/ \E o \in Op, s \in Replica : AnswerRead(o, s)
         \/ \E o \in Op, s \in Replica : AnswerMerge(o, s)
         \/ \E o \in Op : TooFew(o) \/ ViewRefused(o)
         \/ \E o \in Op : ViewKept(o)
         \/ \E o \in Op : StartWrite(o)
         \/ UNCHANGED vars
<1>1. ASSUME NEW o \in Op, NEW nodes \in IF o \in Reads THEN {{}} ELSE {{n} : n \in Node}
      PROVE  nodes \in SUBSET Node
  OBVIOUS
<1>2. QED
  BY <1>1 DEF Next

LEMMA StepProgress == StateInv /\ [Next]_vars => Progress
<1> SUFFICES ASSUME StateInv, [Next]_vars PROVE Progress
  OBVIOUS
<1>1. CASE UNCHANGED vars
  <2>1. UNCHANGED <<pc, call>> /\ UNCHANGED <<up, ready, map, sync>> /\ net' = net
    BY <1>1 DEF vars
  <2>2. QED
    BY <2>1, CallsStay, OnlyCalls DEF EndedStay, StateInv, ReplicasOK
<1>2. QED
  BY <1>1, Steps, CrashProgress, JoinProgress, StartSyncProgress, AnswerSyncProgress,
     SyncMergesProgress, LateMergeProgress, BeginProgress, AnswerReadProgress,
     AnswerMergeProgress, RefusedProgress, ViewKeptProgress, StartWriteProgress

-----------------------------------------------------------------------------
(* Every step keeps what was written held.                                 *)

\* Two majorities have a replica in common.
LEMMA MajoritiesMeet ==
  ASSUME NEW S \in SUBSET Replica, NEW T \in SUBSET Replica,
         Cardinality(S) >= Majority, Cardinality(T) >= Majority
  PROVE  S \cap T # {}
<1>1. Cardinality(S) \in Nat /\ Cardinality(T) \in Nat /\ Cardinality(Replica) \in Nat
  BY FiniteSizes
<1>2. Cardinality(S) + Cardinality(T) > Cardinality(Replica)
  BY <1>1 DEF Majority
<1>3. QED
  BY <1>2, FiniteAssumption, FS_MajoritiesIntersect

\* A round that is counted was answered, its caller included, by a majority.
LEMMA RoundIsMajority ==
  ASSUME StateInv, NEW o \in Op, pc[o] \in Running, Heard(o)
  PROVE  Counted(o) \in SUBSET Replica /\ Cardinality(Counted(o)) >= Majority
<1>1. call[o].heard \in SUBSET Replica /\ call[o].at \in Replica /\ call[o].at \notin call[o].heard
  BY InRound
<1>2. IsFiniteSet(call[o].heard)
  BY <1>1, FiniteSizes
<1>3. Cardinality(Counted(o)) = Cardinality(call[o].heard) + 1
  BY <1>1, <1>2, FS_AddElement DEF Counted
<1>4. QED
  BY <1>1, <1>3 DEF Heard, Counted

\* What a replica holds of a write it holds while it runs.
LEMMA HeldStays ==
  ASSUME StateInv, Progress, NEW w \in Op, call[w].path \in Paths,
         call'[w].path = call[w].path, call'[w].nodes = call[w].nodes,
         NEW h \in up \cap up', Has(map[h], w)
  PROVE  Has(map[h], w)'
<1>1. map[h] \in CounterMap /\ map'[h] \in CounterMap /\ Below(map[h], map'[h])
  BY DEF StateInv, ReplicasOK, Progress, MapsGrow
<1>2. NodesOf(map[h], call[w].path) \subseteq NodesOf(map'[h], call[w].path)
  BY <1>1, BelowOrder
<1>3. QED
  BY <1>2 DEF Has

\* ... and so what those counted in its round hold, unless the round changes.
LEMMA WriteStays ==
  ASSUME StateInv, Progress, WritesHeld, NEW w \in Raises, pc[w] = "writing",
         call'[w].path = call[w].path, call'[w].nodes = call[w].nodes,
         NEW h \in Counted(w) \cap up \cap up'
  PROVE  Has(map[h], w)'
<1>1. w \in Op /\ call[w].path \in Paths
  BY InRound DEF Op, Running
<1>2. Has(map[h], w)
  BY DEF WritesHeld
<1>3. QED
  BY <1>1, <1>2, HeldStays

\* A step that moves no call in its write's round, and lets in none it counted.
LEMMA WritesElsewhere ==
  ASSUME StateInv, Progress, WritesHeld,
         \A w \in Raises : pc'[w] = "writing" => pc[w] = "writing" /\ call'[w] = call[w],
         \A w \in Raises : pc'[w] = "writing" => Counted(w) \cap up' \subseteq up
  PROVE  WritesHeld'
<1>1. SUFFICES ASSUME NEW w \in Raises, pc'[w] = "writing", NEW h \in Counted(w)' \cap up'
               PROVE  Has(map[h], w)'
  BY DEF WritesHeld
<1>2. pc[w] = "writing" /\ call'[w] = call[w] /\ h \in Counted(w) \cap up \cap up'
  BY <1>1 DEF Counted
<1>3. QED
  BY <1>2, WriteStays

LEMMA WritesStep ==
  ASSUME StateInv, Progress, WritesHeld, [Next]_vars
  PROVE  WritesHeld'
<1>0. /\ pc \in [Op -> {"idle", "acked", "failed"} \cup Running] /\ call \in [Op -> Call]
      /\ Raises \subseteq Op
  BY DEF StateInv, CallsOK, Op
<1>1. ASSUME NEW r \in Replica, Crash(r) PROVE WritesHeld'
  <2>1. ASSUME NEW w \in Raises, pc'[w] = "writing" PROVE pc[w] = "writing" /\ call'[w] = call[w]
    BY <1>0, <1>1, <2>1 DEF Crash
  <2>2. up' \subseteq up
    BY <1>1 DEF Crash
  <2>3. QED
    BY <2>1, <2>2, WritesElsewhere
<1>2. ASSUME NEW r \in Replica, Join(r) PROVE WritesHeld'
  <2>1. pc' = pc /\ call' = call /\ up' = up \cup {r} /\ r \notin up
        /\ \A o \in Op : pc[o] = "writing" => r \notin call[o].heard
    BY <1>2 DEF Join
  <2>2. ASSUME NEW w \in Raises, pc'[w] = "writing" PROVE Counted(w) \cap up' \subseteq up
    <3>1. pc[w] \in Running /\ w \in Op
      BY <1>0, <2>1, <2>2 DEF Running
    <3>2. call[w].at \in up
      BY <3>1, InRound DEF StateInv, ReplicasOK
    <3>3. QED
      BY <2>1, <2>2, <3>1, <3>2 DEF Counted
  <2>3. QED
    BY <2>1, <2>2, WritesElsewhere
<1>3. ASSUME UNCHANGED <<pc, call, up>> PROVE WritesHeld'
  BY <1>3, WritesElsewhere
<1>4. ASSUME NEW o \in Op, UNCHANGED up, pc'[o] # "writing",
             \A x \in Op : x # o => pc'[x] = pc[x] /\ call'[x] = call[x]
      PROVE  WritesHeld'
  <2>1. ASSUME NEW w \in Raises, pc'[w] = "writing" PROVE pc[w] = "writing" /\ call'[w] = call[w]
    BY <1>0, <1>4, <2>1
  <2>2. QED
    BY <1>4, <2>1, WritesElsewhere
<1>5. ASSUME NEW o \in Op, NEW r \in Replica, NEW p \in Paths, NEW nodes \in SUBSET Node,
             Begin(o, r, p, nodes)
      PROVE  WritesHeld'
  BY <1>0, <1>4, <1>5 DEF Begin
<1>6. ASSUME NEW o \in Op, NEW s \in Replica, AnswerRead(o, s) PROVE WritesHeld'
  BY <1>0, <1>4, <1>6 DEF AnswerRead
<1>7. ASSUME NEW o \in Op, NEW as \in {"acked", "failed"}, Finish(o, as), UNCHANGED up
      PROVE  WritesHeld'
  BY <1>0, <1>4, <1>7 DEF Finish
<1>8. ASSUME NEW o \in Op, TooFew(o) \/ ViewRefused(o) \/ ViewKept(o) PROVE WritesHeld'
  <2>1. Finish(o, "acked") \/ Finish(o, "failed")
    BY <1>8 DEF TooFew, ViewRefused, ViewKept
  <2>2. up' = up
    BY <1>8 DEF TooFew, ViewRefused, ViewKept
  <2>3. QED
    BY <1>7, <2>1, <2>2
<1>9. ASSUME NEW o \in Op, StartWrite(o) PROVE WritesHeld'
  <2> DEFINE r == call[o].at
             got == MergeCluster(map[r], call[o].path, call[o].nodes)
  <2>1. /\ pc[o] = "merging" /\ pc[o] \in Running /\ UNCHANGED up
        /\ map' = [map EXCEPT ![r] = got.map]
    BY <1>9 DEF StartWrite, Running
  <2>2. CASE got.ok
    <3>1. pc' = [pc EXCEPT ![o] = "writing"]
          /\ call' = [call EXCEPT ![o].view = got.map[call[o].path]]
      BY <1>9, <2>2 DEF StartWrite
    <3>2. /\ call'[o].at = r /\ call'[o].heard = {}
          /\ call'[o].path = call[o].path /\ call'[o].nodes = call[o].nodes
      BY <1>0, <2>1, <3>1 DEF StateInv, CallsOK, CallOK, Call
    <3>3. r \in Replica /\ call[o].nodes \subseteq NodesOf(got.map, call[o].path)
      BY <2>1, <2>2, InRound, MergesGrow
    <3>4. map'[r] = got.map
      BY <2>1, <3>3 DEF StateInv, ReplicasOK
    <3>5. ASSUME NEW w \in Raises, pc'[w] = "writing", NEW h \in Counted(w)' \cap up'
          PROVE  Has(map[h], w)'
      <4>1. CASE w = o
        <5>1. h = r
          BY <3>2, <3>5, <4>1 DEF Counted
        <5>2. QED
          BY <3>2, <3>3, <3>4, <4>1, <5>1 DEF Has
      <4>2. CASE w # o
        <5>1. pc[w] = "writing" /\ call'[w] = call[w]
          BY <1>0, <3>1, <3>5, <4>2
        <5>2. h \in Counted(w) \cap up \cap up'
          BY <2>1, <3>5, <5>1 DEF Counted
        <5>3. QED
          BY <5>1, <5>2, WriteStays
      <4>3. QED
        BY <4>1, <4>2
    <3>6. QED
      BY <3>5 DEF WritesHeld
  <2>3. CASE ~got.ok
    BY <1>7, <1>9, <2>1, <2>3 DEF StartWrite
  <2>4. QED
    BY <2>2, <2>3
<1>10. ASSUME NEW o \in Op, NEW s \in Replica, AnswerMerge(o, s) PROVE WritesHeld'
  <2> DEFINE got == MergeCluster(map[s], call[o].path, call[o].nodes)
  <2>1. /\ pc[o] = "writing" /\ pc[o] \in Running /\ UNCHANGED <<up, pc>>
        /\ map' = [map EXCEPT ![s] = got.map]
    BY <1>10 DEF AnswerMerge, Running
  <2>2. CASE got.ok
    <3>1. call' = [call EXCEPT ![o].heard = @ \cup {s},
                               ![o].view = @ \cup NodesOf(got.map, call[o].path)]
      BY <1>10, <2>2 DEF AnswerMerge, Taken
    <3>2. /\ call'[o].at = call[o].at /\ call'[o].heard = call[o].heard \cup {s}
          /\ call'[o].path = call[o].path /\ call'[o].nodes = call[o].nodes
      BY <1>0, <3>1 DEF Call
    <3>3. call[o].nodes \subseteq NodesOf(got.map, call[o].path)
      BY <2>1, <2>2, InRound, MergesGrow
    <3>4. map'[s] = got.map
      BY <2>1 DEF StateInv, ReplicasOK
    <3>5. ASSUME NEW w \in Raises, pc'[w] = "writing", NEW h \in Counted(w)' \cap up'
          PROVE  Has(map[h], w)'
      <4>1. pc[w] = "writing" /\ h \in up \cap up'
        BY <2>1, <3>5
      <4>2. CASE w = o /\ h = s
        BY <3>2, <3>3, <3>4, <4>2 DEF Has
      <4>3. CASE w = o /\ h # s
        <5>1. h \in Counted(w) \cap up \cap up'
          BY <3>2, <3>5, <4>1, <4>3 DEF Counted
        <5>2. QED
          BY <3>2, <4>1, <4>3, <5>1, WriteStays
      <4>4. CASE w # o
        <5>1. call'[w] = call[w]
          BY <1>0, <3>1, <4>4
        <5>2. h \in Counted(w) \cap up \cap up'
          BY <3>5, <4>1, <5>1 DEF Counted
        <5>3. QED
          BY <4>1, <5>1, <5>2, WriteStays
      <4>5. QED
        BY <4>2, <4>3, <4>4
    <3>6. QED
      BY <3>5 DEF WritesHeld
  <2>3. CASE ~got.ok
    BY <1>3, <1>10, <2>1, <2>3 DEF AnswerMerge, Taken
  <2>4. QED
    BY <2>2, <2>3
<1>11. ASSUME NEW r \in Replica, StartSync(r) \/ SyncAgain(r) \/ SyncMerges(r) \/ LateMerge(r)
       PROVE  WritesHeld'
  BY <1>3, <1>11 DEF StartSync, SyncAgain, SyncMerges, LateMerge
<1>12. ASSUME NEW r \in Replica, NEW s \in Replica, AnswerSync(r, s) PROVE WritesHeld'
  BY <1>3, <1>12 DEF AnswerSync
<1>13. CASE UNCHANGED vars
  BY <1>3, <1>13 DEF vars
<1>14. QED
  BY <1>1, <1>2, <1>5, <1>6, <1>8, <1>9, <1>10, <1>11, <1>12, <1>13, Steps

\* Only what was read and written before a call ended is changed by its end.
LEMMA FinishKeeps ==
  ASSUME StateInv, NEW o \in Op, Finish(o, "acked")
  PROVE  /\ pc'[o] = "acked"
         /\ call'[o].path = call[o].path /\ call'[o].nodes = call[o].nodes
         /\ call'[o].view = call[o].view /\ call'[o].before = call[o].before
         /\ \A x \in Op : x # o => pc'[x] = pc[x] /\ call'[x] = call[x]
BY DEF Finish, StateInv, CallsOK, Call

\* A write that was acknowledged stays as it was.
LEMMA AckedStays ==
  ASSUME StateInv, Progress, NEW w \in Acked
  PROVE  w \in Acked' /\ w \in Op /\ call'[w] = call[w] /\ call[w].path \in Paths
BY DEF Progress, EndedStay, Acked, Ended, Op, StateInv, CallsOK, CallOK

\* A holder that did not lose the write stays one.
LEMMA HolderKeeps ==
  ASSUME StateInv, Progress, NEW w \in Acked, NEW H \in SUBSET Replica,
         NEW h \in H \cap up \cap up', Has(map[h], w)
  PROVE  HolderOK(w, H, h)'
BY AckedStays, HeldStays DEF HolderOK

\* Where no sync moves and no replica becomes ready, holders stay holders.
LEMMA HoldersElsewhere ==
  ASSUME StateInv, Progress, NEW w \in Acked, NEW H \in SUBSET Replica,
         NEW h \in H \cap up \cap up', HolderOK(w, H, h),
         sync'[h] = sync[h], h \in ready' => h \in ready
  PROVE  HolderOK(w, H, h)'
<1>1. CASE Has(map[h], w)
  BY <1>1, HolderKeeps
<1>2. CASE ~Has(map[h], w)
  <2>1. h \notin ready' /\ \A s \in DOMAIN sync'[h].told \cap H : Has(sync[h].told[s], w)
    BY <1>2 DEF HolderOK
  <2>2. call'[w] = call[w]
    BY AckedStays
  <2>3. QED
    BY <2>1, <2>2 DEF HolderOK, Has
<1>3. QED
  BY <1>1, <1>2

\* A replica that was told nothing and is not ready may be a holder that lost it.
LEMMA ToldNothing ==
  ASSUME NEW w, NEW H, NEW h, h \notin ready', DOMAIN sync'[h].told = {}
  PROVE  HolderOK(w, H, h)'
BY DEF HolderOK

LEMMA HolderStep ==
  ASSUME StateInv, Progress, [Next]_vars, NEW w \in Acked, NEW H \in SUBSET Replica,
         Holders(w, H), NEW h \in H \cap up'
  PROVE  HolderOK(w, H, h)'
<1>1. /\ h \in Replica /\ sync \in [Replica -> [running : BOOLEAN, told : Told]]
      /\ call'[w] = call[w] /\ call[w].path \in Paths
  BY AckedStays DEF StateInv, ReplicasOK
<1>2. h \in up => HolderOK(w, H, h)
  BY DEF Holders
<1>3. ASSUME NEW r \in Replica, Crash(r) PROVE HolderOK(w, H, h)'
  <2>1. h \in up /\ h # r /\ (h \in ready' => h \in ready) /\ sync'[h] = sync[h]
    BY <1>1, <1>3 DEF Crash
  <2>2. QED
    BY <1>2, <2>1, HoldersElsewhere
<1>4. ASSUME NEW r \in Replica, Join(r) PROVE HolderOK(w, H, h)'
  <2>1. sync' = sync /\ ready' = ready /\ up' = up \cup {r} /\ r \notin up
    BY <1>4 DEF Join
  <2>2. CASE h \in up
    BY <1>2, <2>1, <2>2, HoldersElsewhere
  <2>3. CASE h \notin up
    <3>1. h \notin ready' /\ DOMAIN sync'[h].told = {}
      BY <1>1, <2>1, <2>3 DEF StateInv, ReplicasOK
    <3>2. QED
      BY <3>1, ToldNothing
  <2>4. QED
    BY <2>2, <2>3
<1>5. ASSUME UNCHANGED <<up, ready, sync>> PROVE HolderOK(w, H, h)'
  BY <1>2, <1>5, HoldersElsewhere
<1>6. ASSUME NEW r \in Replica, StartSync(r) \/ SyncAgain(r) PROVE HolderOK(w, H, h)'
  <2>1. UNCHANGED <<up, ready>> /\ r \notin ready
    BY <1>6 DEF StartSync, SyncAgain, StateInv, ReplicasOK
  <2>2. CASE h = r
    <3>1. DOMAIN sync'[h].told = {}
      BY <1>1, <1>6, <2>2, NoSyncType DEF StartSync, SyncAgain, NoSync
    <3>2. QED
      BY <2>1, <2>2, <3>1, ToldNothing
  <2>3. CASE h # r
    <3>1. sync'[h] = sync[h]
      BY <1>1, <1>6, <2>3 DEF StartSync, SyncAgain
    <3>2. QED
      BY <1>2, <2>1, <3>1, HoldersElsewhere
  <2>4. QED
    BY <2>2, <2>3
<1>7. ASSUME NEW r \in Replica, NEW s \in Replica, AnswerSync(r, s) PROVE HolderOK(w, H, h)'
  <2>1. UNCHANGED <<up, ready, map>> /\ s \in ready /\ s \in up
    BY <1>7 DEF AnswerSync, StateInv, ReplicasOK
  <2>2. CASE h = r /\ ~Has(map[h], w)
    <3>1. h \notin ready' /\ \A x \in DOMAIN sync[h].told \cap H : Has(sync[h].told[x], w)
      BY <1>2, <2>1, <2>2 DEF HolderOK
    <3>2. s \in H => Has(map[s], w)
      BY <2>1 DEF Holders, HolderOK
    <3>3. ASSUME NEW x \in DOMAIN sync'[h].told \cap H PROVE Has(sync'[h].told[x], w)
      BY <1>7, <2>2, <3>1, <3>2, AnswerTold
    <3>4. QED
      BY <1>1, <3>1, <3>3 DEF HolderOK, Has
  <2>3. CASE h = r /\ Has(map[h], w)
    BY <2>1, <2>3, HolderKeeps
  <2>4. CASE h # r
    <3>1. sync'[h] = sync[h]
      BY <1>1, <1>7, <2>4, AnswerTold
    <3>2. QED
      BY <1>2, <2>1, <3>1, HoldersElsewhere
  <2>5. QED
    BY <2>2, <2>3, <2>4
<1>8. ASSUME NEW r \in Replica, SyncMerges(r) PROVE HolderOK(w, H, h)'
  <2>1. UNCHANGED up /\ sync' = [sync EXCEPT ![r] = NoSync] /\ r \in up \ ready
        /\ Cardinality(DOMAIN sync[r].told) >= Majority
    BY <1>8 DEF SyncMerges, StateInv, ReplicasOK
  <2>2. PICK got : /\ Grown(r, got.map)
                   /\ map' = [map EXCEPT ![r] = got.map]
                   /\ ready' = IF got.ok THEN ready \cup {r} ELSE ready
                   /\ got.ok => \A s \in DOMAIN sync[r].told : Below(sync[r].told[s], got.map)
    BY <1>8, SyncEnds
  <2>3. CASE h # r
    <3>1. sync'[h] = sync[h] /\ (h \in ready' => h \in ready)
      BY <1>1, <2>1, <2>2, <2>3
    <3>2. QED
      BY <1>2, <2>1, <3>1, HoldersElsewhere
  <2>4. CASE h = r /\ Has(map[h], w)
    BY <2>1, <2>4, HolderKeeps
  <2>5. CASE h = r /\ ~Has(map[h], w) /\ got.ok
    <3>1. DOMAIN sync[r].told \in SUBSET Replica /\ \A s \in DOMAIN sync[r].told : sync[r].told[s] \in CounterMap
      BY <1>1 DEF Told
    <3>2. PICK s \in DOMAIN sync[r].told : s \in H
      BY <2>1, <3>1, MajoritiesMeet DEF Holders
    <3>3. Has(sync[r].told[s], w)
      BY <1>2, <2>1, <2>5, <3>2 DEF HolderOK
    <3>4. NodesOf(sync[r].told[s], call[w].path) \subseteq NodesOf(got.map, call[w].path)
      BY <1>1, <2>2, <2>5, <3>1, BelowOrder DEF Grown
    <3>5. map'[h] = got.map
      BY <1>1, <2>2, <2>5 DEF StateInv, ReplicasOK
    <3>6. QED
      BY <1>1, <3>3, <3>4, <3>5 DEF HolderOK, Has
  <2>6. CASE h = r /\ ~got.ok
    <3>1. h \notin ready' /\ DOMAIN sync'[h].told = {}
      BY <1>1, <2>1, <2>2, <2>6, NoSyncType
    <3>2. QED
      BY <3>1, ToldNothing
  <2>7. QED
    BY <2>3, <2>4, <2>5, <2>6
<1>9. ASSUME NEW r \in Replica, LateMerge(r) PROVE HolderOK(w, H, h)'
  BY <1>5, <1>9 DEF LateMerge
<1>10. ASSUME NEW o \in Op, NEW r \in Replica, NEW p \in Paths, NEW nodes \in SUBSET Node,
              Begin(o, r, p, nodes)
       PROVE  HolderOK(w, H, h)'
  BY <1>5, <1>10 DEF Begin
<1>11. ASSUME NEW o \in Op, NEW s \in Replica, AnswerRead(o, s) \/ AnswerMerge(o, s)
       PROVE  HolderOK(w, H, h)'
  BY <1>5, <1>11 DEF AnswerRead, AnswerMerge
<1>12. ASSUME NEW o \in Op, TooFew(o) \/ ViewRefused(o) \/ ViewKept(o) \/ StartWrite(o)
       PROVE  HolderOK(w, H, h)'
  BY <1>5, <1>12 DEF TooFew, ViewRefused, ViewKept, StartWrite
<1>13. CASE UNCHANGED vars
  BY <1>5, <1>13 DEF vars
<1>14. QED
  BY <1>3, <1>4, <1>6, <1>7, <1>8, <1>9, <1>10, <1>11, <1>12, <1>13, Steps

\* Where a call does not move, nor begins to read, what it is to have read is the same.
LEMMA ReaderElsewhere ==
  ASSUME StateInv, Progress, NEW w \in Acked, NEW H, NEW o \in Reads, ReaderOK(w, H, o),
         pc'[o] = "reading" => pc[o] = "reading" /\ call'[o] = call[o]
  PROVE  ReaderOK(w, H, o)'
BY AckedStays DEF ReaderOK, Counted

LEMMA ReaderStep ==
  ASSUME StateInv, Progress, [Next]_vars, NEW w \in Acked, NEW H \in SUBSET Replica,
         Holders(w, H), NEW o \in Reads
  PROVE  ReaderOK(w, H, o)'
<1>1. /\ pc \in [Op -> {"idle", "acked", "failed"} \cup Running] /\ call \in [Op -> Call]
      /\ o \in Op /\ call'[w] = call[w] /\ call[w].path \in Paths /\ ready \in SUBSET up
  BY AckedStays DEF StateInv, CallsOK, ReplicasOK, Op
<1>2. ReaderOK(w, H, o) /\ \A h \in H \cap ready : Has(map[h], w)
  BY <1>1 DEF Holders, HolderOK
<1>3. ASSUME pc'[o] = "reading" => pc[o] = "reading" /\ call'[o] = call[o]
      PROVE  ReaderOK(w, H, o)'
  BY <1>2, <1>3, ReaderElsewhere
<1>4. ASSUME UNCHANGED <<pc, call>> PROVE ReaderOK(w, H, o)'
  BY <1>3, <1>4
<1>5. ASSUME NEW r \in Replica, Crash(r) PROVE ReaderOK(w, H, o)'
  BY <1>1, <1>3, <1>5 DEF Crash
<1>6. ASSUME NEW x \in Op, NEW r \in Replica, NEW p \in Paths, NEW nodes \in SUBSET Node,
             Begin(x, r, p, nodes)
      PROVE  ReaderOK(w, H, o)'
  <2>1. CASE x = o
    <3>1. /\ call'[o].at = r /\ call'[o].heard = {} /\ call'[o].path = p
          /\ call'[o].view = NodesOf(map[r], p) /\ r \in ready
      BY <1>1, <1>6, <2>1 DEF Begin
    <3>2. QED
      BY <1>1, <1>2, <3>1 DEF ReaderOK, Counted, Has
  <2>2. CASE x # o
    BY <1>1, <1>3, <1>6, <2>2 DEF Begin
  <2>3. QED
    BY <2>1, <2>2
<1>7. ASSUME NEW x \in Op, NEW s \in Replica, AnswerRead(x, s) PROVE ReaderOK(w, H, o)'
  <2>1. CASE x = o
    <3>1. /\ pc' = pc /\ pc[o] = "reading" /\ s \in ready
          /\ call' = [call EXCEPT ![o].heard = @ \cup {s},
                                  ![o].view = @ \cup NodesOf(map[s], call[o].path)]
      BY <1>7, <2>1 DEF AnswerRead
    <3>2. /\ call'[o].at = call[o].at /\ call'[o].heard = call[o].heard \cup {s}
          /\ call'[o].path = call[o].path /\ call'[o].before = call[o].before
          /\ call'[o].view = call[o].view \cup NodesOf(map[s], call[o].path)
      BY <1>1, <3>1 DEF Call
    <3>3. SUFFICES ASSUME w \in call[o].before, call[o].path = call[w].path,
                          (Counted(o) \cup {s}) \cap H # {}
                   PROVE  call[w].nodes \subseteq call'[o].view
      BY <1>1, <3>2 DEF ReaderOK, Counted
    <3>4. CASE Counted(o) \cap H # {}
      BY <1>2, <3>1, <3>2, <3>3, <3>4 DEF ReaderOK
    <3>5. CASE s \in H
      BY <1>2, <3>1, <3>2, <3>3, <3>5 DEF Has
    <3>6. QED
      BY <3>3, <3>4, <3>5
  <2>2. CASE x # o
    BY <1>1, <1>3, <1>7, <2>2 DEF AnswerRead
  <2>3. QED
    BY <2>1, <2>2
<1>8. ASSUME NEW x \in Op, NEW s \in Replica, AnswerMerge(x, s) PROVE ReaderOK(w, H, o)'
  <2>1. pc[x] = "writing" /\ pc' = pc /\ \A y \in Op : y # x => call'[y] = call[y]
    BY <1>1, <1>8 DEF AnswerMerge
  <2>2. QED
    BY <1>1, <1>3, <2>1
<1>9. ASSUME NEW x \in Op, NEW as \in {"acked", "failed"}, Finish(x, as) PROVE ReaderOK(w, H, o)'
  BY <1>1, <1>3, <1>9 DEF Finish
<1>10. ASSUME NEW x \in Op, TooFew(x) \/ ViewRefused(x) \/ ViewKept(x) PROVE ReaderOK(w, H, o)'
  <2>1. Finish(x, "acked") \/ Finish(x, "failed")
    BY <1>10 DEF TooFew, ViewRefused, ViewKept
  <2>2. QED
    BY <1>9, <2>1
<1>11. ASSUME NEW x \in Op, StartWrite(x) PROVE ReaderOK(w, H, o)'
  <2>1. CASE Finish(x, "failed")
    BY <1>9, <2>1
  <2>2. CASE pc' = [pc EXCEPT ![x] = "writing"] /\ \A y \in Op : y # x => call'[y] = call[y]
    BY <1>1, <1>3, <2>2
  <2>3. QED
    BY <1>1, <1>11, <2>1, <2>2 DEF StartWrite
<1>12. ASSUME NEW r \in Replica,
              Join(r) \/ StartSync(r) \/ SyncAgain(r) \/ SyncMerges(r) \/ LateMerge(r)
       PROVE  ReaderOK(w, H, o)'
  BY <1>4, <1>12 DEF Join, StartSync, SyncAgain, SyncMerges, LateMerge
<1>13. ASSUME NEW r \in Replica, NEW s \in Replica, AnswerSync(r, s) PROVE ReaderOK(w, H, o)'
  BY <1>4, <1>13 DEF AnswerSync
<1>14. CASE UNCHANGED vars
  BY <1>4, <1>14 DEF vars
<1>15. QED
  BY <1>5, <1>6, <1>7, <1>8, <1>10, <1>11, <1>12, <1>13, <1>14, Steps

\* A call is acknowledged by the view that its caller keeps, and by nothing else.
LEMMA OnlyKeptAcks ==
  ASSUME StateInv, [Next]_vars, NEW o \in Op, pc[o] # "acked", pc'[o] = "acked"
  PROVE  /\ ViewKept(o) /\ Finish(o, "acked") /\ Heard(o)
         /\ pc[o] \in {"reading", "writing"}
<1>1. pc \in [Op -> {"idle", "acked", "failed"} \cup Running]
  BY DEF StateInv, CallsOK
<1>2. ViewKept(o)
  <2>1. ASSUME NEW x \in Op, Finish(x, "failed") PROVE FALSE
    BY <1>1, <2>1 DEF Finish
  <2>2. ASSUME NEW x \in Op, TooFew(x) \/ ViewRefused(x) PROVE FALSE
    BY <2>1, <2>2 DEF TooFew, ViewRefused
  <2>3. ASSUME NEW x \in Op, StartWrite(x) PROVE FALSE
    BY <1>1, <2>1, <2>3 DEF StartWrite
  <2>4. ASSUME NEW x \in Op, ViewKept(x) PROVE x = o
    BY <1>1, <2>4 DEF ViewKept, Finish
  <2>5. ASSUME NEW r \in Replica, Crash(r) PROVE FALSE
    BY <1>1, <2>5 DEF Crash
  <2>6. ASSUME UNCHANGED pc PROVE FALSE
    BY <2>6
  <2>7. ASSUME NEW r \in Replica,
               Join(r) \/ StartSync(r) \/ SyncAgain(r) \/ SyncMerges(r) \/ LateMerge(r)
        PROVE  FALSE
    BY <2>6, <2>7 DEF Join, StartSync, SyncAgain, SyncMerges, LateMerge
  <2>8. ASSUME NEW x \in Op \cup Replica, NEW s \in Replica,
               AnswerSync(x, s) \/ AnswerRead(x, s) \/ AnswerMerge(x, s)
        PROVE  FALSE
    BY <2>6, <2>8 DEF AnswerSync, AnswerRead, AnswerMerge
  <2>9. ASSUME NEW x \in Op, NEW r \in Replica, NEW p \in Paths, NEW nodes \in SUBSET Node,
               Begin(x, r, p, nodes)
        PROVE  FALSE
    BY <1>1, <2>9 DEF Begin
  <2>10. CASE UNCHANGED vars
    BY <2>6, <2>10 DEF vars
  <2>11. QED
    BY <2>2, <2>3, <2>4, <2>5, <2>7, <2>8, <2>9, <2>10, Steps
<1>3. Finish(o, "acked")
  BY <1>1, <1>2 DEF ViewKept, Finish
<1>4. QED
  BY <1>2, <1>3 DEF ViewKept

LEMMA AckedStep ==
  ASSUME StateInv, Progress, WritesHeld, AckedHeld, [Next]_vars
  PROVE  AckedHeld'
<1>1. SUFFICES ASSUME NEW w \in Acked' PROVE \E H \in SUBSET Replica : Holders(w, H)'
  BY DEF AckedHeld
<1>2. w \in Raises /\ w \in Op /\ pc'[w] = "acked"
  BY DEF Acked, Op
<1>3. CASE w \in Acked
  <2>1. PICK H \in SUBSET Replica : Holders(w, H)
    BY <1>3 DEF AckedHeld
  <2>2. Cardinality(H) >= Majority
    BY <2>1 DEF Holders
  <2>3. \A h \in H \cap up' : HolderOK(w, H, h)'
    BY <1>3, <2>1, HolderStep
  <2>4. \A o \in Reads : ReaderOK(w, H, o)'
    BY <1>3, <2>1, ReaderStep
  <2>5. Holders(w, H)'
    BY <2>2, <2>3, <2>4 DEF Holders, Majority
  <2>6. QED
    BY <2>5
<1>4. CASE w \notin Acked
  <2>1. pc[w] # "acked"
    BY <1>2, <1>4 DEF Acked
  <2>2. Finish(w, "acked") /\ Heard(w) /\ pc[w] = "writing" /\ ViewKept(w)
    BY <1>2, <2>1, OnlyKeptAcks, CallsAssumption DEF StateInv, CallsOK, CallOK
  <2>3. PICK H : H = Counted(w)
    OBVIOUS
  <2>4. H \in SUBSET Replica /\ Cardinality(H) >= Majority
    BY <1>2, <2>2, <2>3, RoundIsMajority DEF Running
  <2>5. /\ call'[w].path = call[w].path /\ call'[w].nodes = call[w].nodes
        /\ \A x \in Op : x # w => pc'[x] = pc[x] /\ call'[x] = call[x]
    BY <1>2, <2>2, FinishKeeps
  <2>6. ASSUME NEW h \in H \cap up' PROVE HolderOK(w, H, h)'
    <3>1. h \in Counted(w) \cap up \cap up'
      BY <2>2, <2>3 DEF ViewKept
    <3>2. Has(map[h], w)'
      BY <1>2, <2>2, <2>5, <3>1, WriteStays
    <3>3. QED
      BY <3>2 DEF HolderOK
  <2>7. ASSUME NEW o \in Reads PROVE ReaderOK(w, H, o)'
    <3>1. SUFFICES ASSUME pc'[o] = "reading", w \in call'[o].before PROVE FALSE
      BY DEF ReaderOK
    <3>2. o \in Op /\ o # w /\ call'[o] = call[o]
      BY <1>2, <2>5, <3>1 DEF Op
    <3>3. w \in Ended
      BY <3>1, <3>2 DEF StateInv, CallsOK, CallOK
    <3>4. QED
      BY <2>2, <3>3 DEF Ended
  <2>8. Holders(w, H)'
    BY <2>4, <2>6, <2>7 DEF Holders, Majority
  <2>9. QED
    BY <2>4, <2>8
<1>5. QED
  BY <1>3, <1>4

LEMMA ReadsStep ==
  ASSUME StateInv, Progress, AckedHeld, ReadMeetsAckedWrites, [Next]_vars
  PROVE  ReadMeetsAckedWrites'
<1>1. SUFFICES ASSUME NEW o \in Reads, pc'[o] = "acked",
                      NEW w \in call'[o].before, w \in Acked', call'[w].path = call'[o].path
               PROVE  call'[w].nodes \subseteq call'[o].view
  BY DEF ReadMeetsAckedWrites
<1>2. o \in Op /\ w \in Raises
  BY <1>1 DEF Op, Acked
<1>3. ASSUME w \in Ended PROVE w \in Acked /\ call'[w] = call[w]
  BY <1>1, <1>3 DEF Acked, Progress, EndedStay
<1>4. CASE pc[o] = "acked"
  <2>1. call'[o] = call[o]
    BY <1>2, <1>4 DEF Progress, EndedStay, Ended
  <2>2. w \in Ended
    BY <1>1, <1>2, <2>1 DEF StateInv, CallsOK, CallOK
  <2>3. QED
    BY <1>1, <1>3, <1>4, <2>1, <2>2 DEF ReadMeetsAckedWrites
<1>5. CASE pc[o] # "acked"
  <2>1. Finish(o, "acked") /\ Heard(o) /\ pc[o] = "reading"
    BY <1>1, <1>2, <1>5, OnlyKeptAcks, CallsAssumption DEF StateInv, CallsOK, CallOK
  <2>2. /\ call'[o].path = call[o].path /\ call'[o].view = call[o].view
        /\ call'[o].before = call[o].before
    BY <1>2, <2>1, FinishKeeps
  <2>3. w \in Ended
    BY <1>1, <1>2, <2>2 DEF StateInv, CallsOK, CallOK
  <2>4. PICK H \in SUBSET Replica : Holders(w, H)
    BY <1>3, <2>3 DEF AckedHeld
  <2>5. Counted(o) \cap H # {}
    BY <1>2, <2>1, <2>4, RoundIsMajority, MajoritiesMeet DEF Holders, Running
  <2>6. ReaderOK(w, H, o)
    BY <2>4 DEF Holders
  <2>7. call[w].nodes \subseteq call[o].view
    BY <1>1, <1>3, <2>1, <2>2, <2>3, <2>5, <2>6 DEF ReaderOK
  <2>8. QED
    BY <1>3, <2>2, <2>3, <2>7
<1>6. QED
  BY <1>4, <1>5

LEMMA Invariant == Spec => []IInv
<1>1. Init => IInv
  BY InitState DEF Init, IInv, WritesHeld, AckedHeld, Acked, ReadMeetsAckedWrites, Op
<1>2. IInv /\ [Next]_vars => IInv'
  BY StepProgress, WritesStep, AckedStep, ReadsStep DEF IInv, Progress
<1>3. QED
  BY <1>1, <1>2, PTL DEF Spec

-----------------------------------------------------------------------------
(* The theorems.                                                           *)

\* Types: every map is in its limits, whatever merges were refused half way.
THEOREM TypeCorrect == Spec => []TypeOK
<1>1. IInv => TypeOK
  BY StateTypes DEF IInv
<1>2. QED
  BY <1>1, Invariant, PTL

\* Every read meets every write acknowledged before it began, at any limits.
THEOREM ReadsMeetWrites == Spec => []ReadMeetsAckedWrites
<1>1. IInv => ReadMeetsAckedWrites
  BY DEF IInv
<1>2. QED
  BY <1>1, Invariant, PTL

\* The ready replicas without an acknowledged write are never a majority.
THEOREM NoMajorityEverForgets == Spec => []NoMajorityForgets
<1>1. ASSUME IInv, NEW w \in Acked
      PROVE  Cardinality({r \in ready : ~Has(map[r], w)}) < Majority
  <2> DEFINE without == {r \in ready : ~Has(map[r], w)}
  <2>1. PICK H \in SUBSET Replica : Holders(w, H)
    BY <1>1 DEF IInv, AckedHeld
  <2>2. ready \subseteq up /\ without \in SUBSET Replica
    BY <1>1 DEF IInv, StateInv, ReplicasOK
  <2>3. without \cap H = {}
    BY <2>1, <2>2 DEF Holders, HolderOK
  <2>4. ~(Cardinality(without) >= Majority)
    BY <2>1, <2>2, <2>3, MajoritiesMeet DEF Holders
  <2>5. Cardinality(without) \in Nat /\ Majority \in Nat
    BY <2>2, FiniteSizes DEF Majority
  <2> HIDE DEF without
  <2>6. QED
    BY <2>4, <2>5 DEF without
<1>2. IInv => NoMajorityForgets
  BY <1>1 DEF NoMajorityForgets
<1>3. QED
  BY <1>2, Invariant, PTL

\* Several maps together keep what each keeps.
LEMMA TogetherAbove ==
  ASSUME NEW maps \in SUBSET CounterMap
  PROVE  /\ Together(maps) \in CounterMap
         /\ \A m \in maps : Below(m, Together(maps))
<1> DEFINE paths == UNION {DOMAIN m : m \in maps}
           t == Together(maps)
<1>1. t = [p \in paths |-> UNION {NodesOf(m, p) : m \in maps}]
  BY DEF Together
<1>2. paths \in SUBSET Paths
  BY MapType
<1>3. ASSUME NEW p \in paths PROVE UNION {NodesOf(m, p) : m \in maps} \in SUBSET Node
  BY <1>2, MapType
<1>4. t \in [paths -> SUBSET Node]
  BY <1>1, <1>3
<1>5. t \in CounterMap
  BY <1>2, <1>4, MapType
<1>6. ASSUME NEW m \in maps, NEW p \in DOMAIN m PROVE p \in DOMAIN t /\ m[p] \subseteq t[p]
  <2>1. p \in paths /\ m[p] = NodesOf(m, p)
    BY DEF NodesOf
  <2>2. QED
    BY <1>1, <2>1
<1>7. QED
  BY <1>5, <1>6 DEF Below

\* A joiner is turned away only when what it kept and was told has no room in one replica.
THEOREM JoinersRefusedOnlyWhenFull == Spec => JoinerRefusedWhenFull
<1>1. ASSUME IInv, NEW r \in Replica, SyncMerges(r), r \notin ready'
      PROVE  ~Fits(Together({map[r]} \cup Range(sync[r].told)))
  <2> DEFINE maps == {map[r]} \cup Range(sync[r].told)
             t == Together(maps)
  <2>1. StateInv /\ map[r] \in CounterMap /\ sync[r].told \in Told
    BY <1>1 DEF IInv, StateInv, ReplicasOK
  <2>2. maps \in SUBSET CounterMap
    BY <2>1 DEF Told, Range
  <2>3. SUFFICES ASSUME Fits(t) PROVE FALSE
    OBVIOUS
  <2>4. t \in CounterMap /\ Below(map[r], t) /\ \A s \in DOMAIN sync[r].told : Below(sync[r].told[s], t)
    BY <2>2, TogetherAbove DEF Range
  <2>5. PICK order \in Orders(sync[r].told) :
          LET got == MergeMaps(map[r], sync[r].told, order) IN
          ready' = IF got.ok THEN ready \cup {r} ELSE ready
    BY <1>1, <2>1, SyncEnds
  <2> HIDE DEF t
  <2>6. MergeMaps(map[r], sync[r].told, order).ok
    BY <2>1, <2>3, <2>4, MapsFit
  <2>7. QED
    BY <1>1, <2>5, <2>6
<1>2. IInv /\ [Next]_vars => [\A r \in Replica : SyncMerges(r) /\ r \notin ready' =>
                                ~Fits(Together({map[r]} \cup Range(sync[r].told)))]_vars
  BY <1>1
<1>3. QED
  BY <1>2, Invariant, PTL DEF Spec, JoinerRefusedWhenFull
=============================================================================
