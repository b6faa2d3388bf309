---------------------------- MODULE CounterLimits ----------------------------
(***************************************************************************)
(* The replicated counters at their limits (mero-kms/src/counters.rs): a   *)
(* replica keeps at most MaxClusters clusters and MaxNodes node ids of     *)
(* each.  Counters has one cluster, no limit and every order of events;    *)
(* here are several clusters of a formed KMS, and each merge may refuse.   *)
(* What is kept of a cluster is the set of its node ids: a merge refuses   *)
(* by them alone, whatever the epochs, generations and marks.              *)
(***************************************************************************)
EXTENDS Naturals, Sequences, FiniteSets, Functions

CONSTANTS
  Replica,      \* the replicas, MERO_KMS_REPLICAS of them
  Path,         \* cluster key paths, in the order a map is walked
  Node,         \* node ids
  Reads,        \* client calls, each made at most once
  Raises,
  MaxClusters,  \* MAX_COUNTER_CLUSTERS
  MaxNodes,     \* MAX_COUNTER_NODES_PER_CLUSTER
  MaxCrashes    \* bound on replica losses

Paths == Range(Path)
Op == Reads \cup Raises

ASSUME LimitsAssumption == {MaxClusters, MaxNodes} \subseteq Nat \ {0}
ASSUME CallsAssumption == Reads \cap Raises = {}
ASSUME FiniteAssumption == IsFiniteSet(Replica) /\ IsFiniteSet(Node) /\ Path \in Seq(Paths)

VARIABLES
  ready,    \* Inner.ready
  up,       \* replicas that run and hold the root
  map,      \* Inner.map of each
  sync,     \* the round of each replica inside sync_once
  pc,       \* where each call is
  call,     \* its arguments and its current round; once acknowledged, its result
  net,      \* every merge request sent
  crashes

vars == <<ready, up, map, sync, pc, call, net, crashes>>

-----------------------------------------------------------------------------
\* CounterMap: the clusters kept, and of each its node ids.
CounterMap == UNION {[S -> SUBSET Node] : S \in SUBSET Paths}

\* or_default
NodesOf(m, p) == IF p \in DOMAIN m THEN m[p] ELSE {}

Put(f, x, value) == [y \in DOMAIN f \cup {x} |-> IF y = x THEN value ELSE f[y]]

Fits(m) ==
  /\ Cardinality(DOMAIN m) <= MaxClusters
  /\ \A p \in DOMAIN m : Cardinality(m[p]) <= MaxNodes

\* ClusterCounters::merge refuses otherwise.
RoomForNodes(mine, theirs) == Cardinality(mine \cup theirs) <= MaxNodes

\* Mutant: a full replica takes nothing, for the clusters it has either.
RoomForClusterOnce(m, p) == Cardinality(DOMAIN m) < MaxClusters

RoomForCluster(m, p) == p \in DOMAIN m \/ Cardinality(DOMAIN m) < MaxClusters

\* merge_cluster: whether it merged, and the map it leaves.  One refused for its
\* nodes leaves a new cluster's entry, empty.
MergeCluster(m, p, counts) ==
  IF ~RoomForCluster(m, p) THEN [ok |-> FALSE, map |-> m]
  ELSE IF ~RoomForNodes(NodesOf(m, p), counts)
    THEN [ok |-> FALSE, map |-> Put(m, p, NodesOf(m, p))]
    ELSE [ok |-> TRUE, map |-> Put(m, p, NodesOf(m, p) \cup counts)]

\* merge_map: up to the first cluster that is refused.
MergeMap(m, from) ==
  LET got[i \in 0 .. Len(Path)] ==
        IF i = 0 THEN [ok |-> TRUE, map |-> m]
        ELSE LET last == got[i - 1] IN
             IF last.ok /\ Path[i] \in DOMAIN from
             THEN MergeCluster(last.map, Path[i], from[Path[i]]) ELSE last
  IN  got[Len(Path)]

\* What a sync was told, one answer after the other, up to the first refused.
MergeMaps(m, told, order) ==
  LET got[i \in 0 .. Cardinality(DOMAIN told)] ==
        IF i = 0 THEN [ok |-> TRUE, map |-> m]
        ELSE LET last == got[i - 1] IN
             IF last.ok THEN MergeMap(last.map, told[order[i]]) ELSE last
  IN  got[Cardinality(DOMAIN told)]

-----------------------------------------------------------------------------
Majority == (Cardinality(Replica) \div 2) + 1

Ended == {o \in Op : pc[o] \in {"acked", "failed"}}
Running == {"reading", "merging", "writing"}

NoSync == [running |-> FALSE, told |-> <<>>]
NoCall == [at |-> "none", path |-> "none", nodes |-> {}, heard |-> {}, view |-> {}, before |-> {}]

TypeOK ==
  /\ up \in SUBSET Replica /\ ready \in SUBSET up
  /\ map \in [Replica -> CounterMap]
  /\ \A r \in Replica : Fits(map[r])
  /\ \A r \in Replica : sync[r].running => r \in up \ ready
  /\ pc \in [Op -> {"idle", "acked", "failed"} \cup Running]
  /\ \A o \in Op : pc[o] \in Running => call[o].at \in ready
  /\ net \subseteq [path : Paths, nodes : SUBSET Node]

\* A formed cluster before its first counter.
Init ==
  /\ up = Replica /\ ready = Replica
  /\ map = [r \in Replica |-> <<>>]
  /\ sync = [r \in Replica |-> NoSync]
  /\ pc = [o \in Op |-> "idle"]
  /\ call = [o \in Op |-> NoCall]
  /\ net = {}
  /\ crashes = 0

-----------------------------------------------------------------------------
Crash(r) ==
  /\ r \in up
  /\ crashes < MaxCrashes
  /\ crashes' = crashes + 1
  /\ up' = up \ {r}
  /\ ready' = ready \ {r}
  /\ map' = [map EXCEPT ![r] = <<>>]
  /\ sync' = [sync EXCEPT ![r] = NoSync]
  /\ LET lost == {o \in Op : pc[o] \in Running /\ call[o].at = r}
     IN  /\ pc' = [o \in Op |-> IF o \in lost THEN "failed" ELSE pc[o]]
         /\ call' = [o \in Op |-> IF o \in lost THEN NoCall ELSE call[o]]
  /\ UNCHANGED net

\* A replacement, with the root and no counters; never inside a write's round
\* that its predecessor answered.
Join(r) ==
  /\ r \notin up /\ up # {}
  /\ \A o \in Op : pc[o] = "writing" => r \notin call[o].heard
  /\ up' = up \cup {r}
  /\ UNCHANGED <<ready, map, sync, pc, call, net, crashes>>

\* sync_once asks for every cluster's counters.
StartSync(r) ==
  /\ r \in up \ ready
  /\ ~sync[r].running
  /\ sync' = [sync EXCEPT ![r] = [NoSync EXCEPT !.running = TRUE]]
  /\ UNCHANGED <<ready, up, map, pc, call, net, crashes>>

\* answer_read: only a ready replica's counters are kept, and counted.
AnswerSync(r, s) ==
  /\ sync[r].running
  /\ s \in ready \ DOMAIN sync[r].told
  /\ sync' = [sync EXCEPT ![r].told = Put(@, s, map[s])]
  /\ UNCHANGED <<ready, up, map, pc, call, net, crashes>>

\* Too few ready replicas answered: another attempt follows.
SyncAgain(r) ==
  /\ sync[r].running
  /\ Cardinality(DOMAIN sync[r].told) < Majority
  /\ sync' = [sync EXCEPT ![r] = NoSync]
  /\ UNCHANGED <<ready, up, map, pc, call, net, crashes>>

\* Mutant: what does not fit is left out.
SyncedAnyway(r, got) == TRUE

Synced(r, got) == got.ok

\* The answers are merged in the order of the peers' URLs, which may be any; a
\* refusal leaves what was merged before it, and another attempt follows.
SyncMerges(r) ==
  /\ sync[r].running
  /\ Cardinality(DOMAIN sync[r].told) >= Majority
  /\ \E order \in Bijection(1 .. Cardinality(DOMAIN sync[r].told), DOMAIN sync[r].told) :
       LET got == MergeMaps(map[r], sync[r].told, order) IN
       /\ map' = [map EXCEPT ![r] = got.map]
       /\ ready' = IF Synced(r, got) THEN ready \cup {r} ELSE ready
  /\ sync' = [sync EXCEPT ![r] = NoSync]
  /\ UNCHANGED <<up, pc, call, net, crashes>>

-----------------------------------------------------------------------------
(* Client calls.                                                           *)

\* require_ready, and what a read starts from; nodes is what a raise writes.
Begin(o, r, p, nodes) ==
  /\ pc[o] = "idle"
  /\ r \in ready
  /\ pc' = [pc EXCEPT ![o] = IF o \in Reads THEN "reading" ELSE "merging"]
  /\ call' = [call EXCEPT ![o] = [at |-> r, path |-> p, nodes |-> nodes,
                                 heard |-> {}, view |-> NodesOf(map[r], p),
                                 before |-> IF o \in Reads THEN Ended ELSE {}]]
  /\ UNCHANGED <<ready, up, map, sync, net, crashes>>

\* A peer that is not ready is not counted.
AnswerRead(o, s) ==
  /\ pc[o] = "reading"
  /\ s \in ready \ (call[o].heard \cup {call[o].at})
  /\ call' = [call EXCEPT ![o].heard = @ \cup {s}, ![o].view = @ \cup NodesOf(map[s], call[o].path)]
  /\ UNCHANGED <<ready, up, map, sync, pc, net, crashes>>

\* A failed call keeps nothing.
Finish(o, as) ==
  /\ pc' = [pc EXCEPT ![o] = as]
  /\ call' = [call EXCEPT ![o] = IF as = "acked" THEN [@ EXCEPT !.at = "none", !.heard = {}] ELSE NoCall]

\* A round ends whoever has answered by then.
Heard(o) == Cardinality(call[o].heard) + 1 >= Majority

TooFew(o) ==
  /\ pc[o] \in {"reading", "writing"}
  /\ ~Heard(o)
  /\ Finish(o, "failed")
  /\ UNCHANGED <<ready, up, map, sync, net, crashes>>

\* The answers do not fit in one view: refused, and nothing is kept of them.
ViewRefused(o) ==
  /\ pc[o] \in {"reading", "writing"}
  /\ Heard(o)
  /\ ~RoomForNodes({}, call[o].view)
  /\ Finish(o, "failed")
  /\ UNCHANGED <<ready, up, map, sync, net, crashes>>

\* read and write keep the view, or refuse the call if there is no room for it.
ViewKept(o) ==
  LET got == MergeCluster(map[call[o].at], call[o].path, call[o].view) IN
  /\ pc[o] \in {"reading", "writing"}
  /\ Heard(o)
  /\ RoomForNodes({}, call[o].view)
  /\ map' = [map EXCEPT ![call[o].at] = got.map]
  /\ Finish(o, IF got.ok THEN "acked" ELSE "failed")
  /\ UNCHANGED <<ready, up, sync, net, crashes>>

\* write merges here first: refused here, it is sent to nobody.
StartWrite(o) ==
  LET got == MergeCluster(map[call[o].at], call[o].path, call[o].nodes) IN
  /\ pc[o] = "merging"
  /\ map' = [map EXCEPT ![call[o].at] = got.map]
  /\ IF got.ok
     THEN /\ pc' = [pc EXCEPT ![o] = "writing"]
          /\ call' = [call EXCEPT ![o].view = got.map[call[o].path]]
          /\ net' = net \cup {[path |-> call[o].path, nodes |-> call[o].nodes]}
     ELSE Finish(o, "failed") /\ UNCHANGED net
  /\ UNCHANGED <<ready, up, sync, crashes>>

\* Mutant: a refusal is an answer.
TakenAnyway(got) == TRUE

\* answer_merge answers only what it merged.
Taken(got) == got.ok

AnswerMerge(o, s) ==
  LET got == MergeCluster(map[s], call[o].path, call[o].nodes) IN
  /\ pc[o] = "writing"
  /\ s \in up \ (call[o].heard \cup {call[o].at})
  /\ map' = [map EXCEPT ![s] = got.map]
  /\ call' = IF Taken(got)
              THEN [call EXCEPT ![o].heard = @ \cup {s}, ![o].view = @ \cup NodesOf(got.map, call[o].path)]
              ELSE call
  /\ UNCHANGED <<ready, up, sync, pc, net, crashes>>

\* A merge request handled outside its round.
LateMerge(s) ==
  /\ s \in up
  /\ \E m \in net : map' = [map EXCEPT ![s] = MergeCluster(@, m.path, m.nodes).map]
  /\ UNCHANGED <<ready, up, sync, pc, call, net, crashes>>

-----------------------------------------------------------------------------
Next ==
  \/ \E r \in Replica :
       \/ Crash(r) \/ Join(r) \/ StartSync(r) \/ SyncAgain(r) \/ SyncMerges(r) \/ LateMerge(r)
       \/ \E s \in Replica : AnswerSync(r, s)
  \/ \E o \in Op :
       \/ \E r \in Replica, p \in Paths :
            \E nodes \in IF o \in Reads THEN {{}} ELSE {{n} : n \in Node} : Begin(o, r, p, nodes)
       \/ \E s \in Replica : AnswerRead(o, s) \/ AnswerMerge(o, s)
       \/ TooFew(o) \/ ViewRefused(o) \/ ViewKept(o) \/ StartWrite(o)

Spec == Init /\ [][Next]_vars

-----------------------------------------------------------------------------
(* Properties.                                                             *)

Acked == {w \in Raises : pc[w] = "acked"}

Has(m, w) == call[w].nodes \subseteq NodesOf(m, call[w].path)

\* A read still returns every write acknowledged before it began: a replica at
\* its limit refuses, and what it refuses is never acknowledged on its word
\* (Counters::read, write, sync_once).
ReadMeetsAckedWrites ==
  \A o \in Reads : pc[o] = "acked" =>
    \A w \in call[o].before \cap Acked :
      call[w].path = call[o].path => call[w].nodes \subseteq call[o].view

\* Whatever is refused, lost and turned away, no majority of ready replicas is
\* without an acknowledged write: any round that is counted meets one that has it
\* (Counters::write, sync_once).
NoMajorityForgets ==
  \A w \in Acked : Cardinality({r \in ready : ~Has(map[r], w)}) < Majority

\* Several maps in one without limits.
Together(maps) ==
  [p \in UNION {DOMAIN m : m \in maps} |-> UNION {NodesOf(m, p) : m \in maps}]

\* A joiner is turned away only when what it kept and was told has no room in one
\* replica, whatever the order of the answers and of earlier attempts (sync_once).
JoinerRefusedWhenFull ==
  [][\A r \in Replica :
       SyncMerges(r) /\ r \notin ready' =>
         ~Fits(Together({map[r]} \cup Range(sync[r].told)))]_vars
=============================================================================
