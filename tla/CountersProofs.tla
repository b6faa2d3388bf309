--------------------------- MODULE CountersProofs ---------------------------
(***************************************************************************)
(* Proofs about the replicated rollback counters of module Counters, for   *)
(* every set of replicas, calls, nodes and marks: types; what a replica    *)
(* holds only grows while it runs; and, from the inductive invariant IInv  *)
(* of CountersInductive, every read meets every acknowledged write, forced *)
(* rollbacks climb and a joiner syncs every acknowledged write.  Last, the *)
(* refinement: each step of Counters is a step of Register under the       *)
(* mapping of CountersRegister, or changes none of its state.              *)
(***************************************************************************)
EXTENDS CountersRegister, CounterViewsProofs, FiniteSetTheorems

-----------------------------------------------------------------------------
(* Types.                                                                  *)

\* Counting an answer in a round gives a round; what it changes.
LEMMA CountedRound ==
  ASSUME NEW rd \in Round, NEW s \in Replica, NEW v \in View,
         NEW f \in BOOLEAN, NEW keep \in BOOLEAN
  PROVE  /\ Counted(rd, s, v, f, keep) \in Round
         /\ Counted(rd, s, v, f, keep).heard = rd.heard \cup {s}
         /\ Counted(rd, s, v, f, keep).ready = IF s \in ready THEN rd.ready \cup {s} ELSE rd.ready
         /\ Counted(rd, s, v, f, keep).before = rd.before
         /\ Counted(rd, s, v, f, keep).view = IF keep THEN Merge(rd.view, v) ELSE rd.view
         /\ Counted(rd, s, v, f, keep).genesis =>
              rd.genesis /\ (s \in ready => s \in genesis /\ ~f)
<1>1. Merge(rd.view, v) \in View
  BY MergeType DEF Round
<1>2. QED
  BY <1>1 DEF Counted, Round

\* The empty round is a round.
LEMMA NoRoundType == NoRound \in Round
BY ViewTypes DEF NoRound, Round

\* The rounds a call or a sync starts with.
LEMMA StartRounds ==
  ASSUME NEW r \in Replica, NEW v \in View
  PROVE  /\ ReadRound(r, v) \in Round
         /\ ReadRound(r, v).view = v
         /\ ReadRound(r, v).ready = {}
         /\ ReadRound(r, v).heard = {}
         /\ ReadRound(r, v).before = Ended
<1>1. NoRound \in Round /\ Ended \in SUBSET Op
  BY NoRoundType DEF Ended
<1>2. ReadRound(r, v) \in Round
  BY <1>1 DEF ReadRound, Round
<1>3. /\ ReadRound(r, v).view = v
      /\ ReadRound(r, v).ready = {}
      /\ ReadRound(r, v).heard = {}
      /\ ReadRound(r, v).before = Ended
  BY DEF ReadRound
<1>4. QED
  BY <1>1, <1>2, <1>3

\* The round a write starts with.
LEMMA WriteRound ==
  ASSUME NEW v \in View, NEW b \in SUBSET Op
  PROVE  LET rd == [NoRound EXCEPT !.view = v, !.before = b]
         IN  /\ rd \in Round /\ rd.view = v /\ rd.before = b
             /\ rd.heard = {} /\ rd.ready = {}
BY NoRoundType DEF Round, NoRound

\* A read request is a request.
LEMMA SendReadType ==
  ASSUME NEW r \in Replica, net \in SUBSET Request, SendRead(r)
  PROVE  net' \in SUBSET Request
<1> DEFINE m == [type |-> "read", formed |-> r \in formed]
<1>1. m \in [type : {"read"}, formed : BOOLEAN]
  OBVIOUS
<1>2. m \in Request
  BY <1>1 DEF Request
<1>3. net' = net \/ net' = net \cup {m}
  BY DEF SendRead
<1> HIDE DEF m
<1>4. QED
  BY <1>2, <1>3

\* Init puts every variable in its type.
LEMMA InitType == Init => TypeOK
<1> SUFFICES ASSUME Init PROVE TypeOK
  OBVIOUS
<1>1. PICK b \in Replica, n \in Node :
        /\ up = {b} /\ ready = {b}
        /\ formed = IF Replicas = 1 THEN {b} ELSE {}
        /\ genesis = IF Replicas = 1 THEN {} ELSE {b}
        /\ op = [o \in Op |-> ReadCall(b, n)]
  BY DEF Init
<1>2. op \in [Op -> Call]
  BY <1>1, ViewTypes DEF ReadCall, Call
<1>3. QED
  BY <1>1, <1>2, ViewTypes, NoRoundType DEF Init, TypeOK, Phase, Running

\* A replica's own steps keep the types.
LEMMA ReplicaType ==
  ASSUME TypeOK, NEW r \in Replica, ReplicaStep(r)
  PROVE  TypeOK'
<1> USE DEF TypeOK
<1>1. CASE Join(r)
  BY <1>1 DEF Join
<1>2. CASE Crash(r)
  <2>1. /\ up' \in SUBSET Replica /\ ready' \in SUBSET up' /\ formed' \in SUBSET up'
        /\ genesis' \in SUBSET up' /\ syncing' \in SUBSET up' /\ net' \in SUBSET Request
        /\ op' \in [Op -> Call] /\ crashes' \in Nat
    BY <1>2 DEF Crash
  <2>2. /\ map' \in [Replica -> View] /\ sync' \in [Replica -> Round]
        /\ pc' \in [Op -> Phase] /\ round' \in [Op -> Round]
    BY <1>2, ViewTypes, NoRoundType DEF Crash, Phase
  <2>3. \A o \in Op : pc'[o] \in Running => op'[o].at \in ready'
    BY <1>2 DEF Crash, Running
  <2>4. QED
    BY <2>1, <2>2, <2>3
<1>3. CASE GenesisExpires(r)
  BY <1>3 DEF GenesisExpires
<1>4. CASE SyncAlone(r)
  BY <1>4 DEF SyncAlone
<1>5. CASE StartSync(r)
  <2>1. ReadRound(r, EmptyView) \in Round
    BY ViewTypes, StartRounds
  <2>2. net' \in SUBSET Request
    BY <1>5, SendReadType DEF StartSync
  <2>3. QED
    BY <1>5, <2>1, <2>2 DEF StartSync
<1>6. ASSUME NEW s \in Replica, AnswerSync(r, s)
      PROVE  TypeOK'
  <2> DEFINE f == s \in formed \/ sync[r].told
             k == s \in ready
  <2>0. f \in BOOLEAN /\ k \in BOOLEAN /\ sync[r] \in Round /\ map[s] \in View
    OBVIOUS
  <2>1. Counted(sync[r], s, map[s], f, k) \in Round
    BY <2>0, CountedRound
  <2>2. QED
    BY <1>6, <2>1 DEF AnswerSync, Learn
<1>7. CASE SyncFromMajority(r)
  <2>1. Merge(map[r], sync[r].view) \in View
    BY MergeType DEF Round
  <2>2. QED
    BY <1>7, <2>1, NoRoundType DEF SyncFromMajority, EndSync, Learn
<1>8. CASE SyncInGenesis(r)
  BY <1>8, NoRoundType DEF SyncInGenesis, EndSync
<1>9. CASE SyncAgain(r)
  BY <1>9, NoRoundType DEF SyncAgain, EndSync
<1>10. CASE LateRead(r)
  BY <1>10 DEF LateRead, Learn
<1>11. CASE LateMerge(r)
  <2>1. PICK m \in net : m.type = "merge" /\ map' = [map EXCEPT ![r] = Merge(@, m.counters)]
    BY <1>11 DEF LateMerge
  <2>2. m.counters \in View
    BY <2>1 DEF Request
  <2>3. Merge(map[r], m.counters) \in View
    BY <2>2, MergeType
  <2>4. QED
    BY <1>11, <2>1, <2>3 DEF LateMerge, Learn
<1>12. QED
  BY <1>1, <1>2, <1>3, <1>4, <1>5, <1>6, <1>7, <1>8, <1>9, <1>10, <1>11 DEF ReplicaStep, BeginSync

\* A call's steps keep the types.
LEMMA CallType ==
  ASSUME TypeOK, NEW o \in Op, CallStep(o)
  PROVE  TypeOK'
<1> USE DEF TypeOK
<1>1. ASSUME NEW r \in Replica, NEW n \in Node, BeginRead(o, r, n)
      PROVE  TypeOK'
  <2>1. ReadRound(r, map[r]) \in Round /\ ReadCall(r, n) \in Call
    BY StartRounds, ViewTypes DEF ReadCall, Call
  <2>2. net' \in SUBSET Request
    BY <1>1, SendReadType DEF BeginRead
  <2>3. op' \in [Op -> Call] /\ round' \in [Op -> Round] /\ pc' \in [Op -> Phase]
    BY <1>1, <2>1 DEF BeginRead, Begin, Phase
  <2>4. \A p \in Op : pc'[p] \in Running => op'[p].at \in ready'
    BY <1>1 DEF BeginRead, Begin, ReadCall
  <2>5. QED
    BY <1>1, <2>2, <2>3, <2>4 DEF BeginRead, Begin
<1>2. ASSUME NEW r \in Replica, NEW n \in Node, NEW m \in Mark, BeginRaise(o, r, n, m)
      PROVE  TypeOK'
  <2>1. PICK g \in Told(n) :
          LET call == [at |-> r, node |-> n, mark |-> m,
                       update |-> Update(0, n, [generation |-> g, mark |-> m])]
          IN  \/ r \in formed /\ Begin(o, r, "merging", call) /\ UNCHANGED net
              \/ r \notin formed /\ Begin(o, r, "reading", call) /\ SendRead(r)
    BY <1>2 DEF BeginRaise
  <2>2. g \in Nat
    BY KnownEntries DEF Told, GenerationOf, Round, Entry, Known
  <2>3. [at |-> r, node |-> n, mark |-> m,
         update |-> Update(0, n, [generation |-> g, mark |-> m])] \in Call
    BY <2>2, ViewTypes, BoundAssumption DEF Call, Entry
  <2>4. ReadRound(r, map[r]) \in Round
    BY StartRounds
  <2>5. net' \in SUBSET Request
    BY <2>1, SendReadType
  <2>6. QED
    BY <2>1, <2>3, <2>4, <2>5 DEF Begin, Phase
<1>3. ASSUME NEW r \in Replica, NEW n \in Node, NEW m \in Mark, BeginReset(o, r, n, m)
      PROVE  TypeOK'
  <2>1. [at |-> r, node |-> n, mark |-> m, update |-> EmptyView] \in Call
    BY ViewTypes, BoundAssumption DEF Call
  <2>2. ReadRound(r, map[r]) \in Round
    BY StartRounds
  <2>3. net' \in SUBSET Request
    BY <1>3, SendReadType DEF BeginReset
  <2>4. QED
    BY <1>3, <2>1, <2>2, <2>3 DEF BeginReset, Begin, Phase
<1>4. ASSUME NEW s \in Replica, AnswerRead(o, s)
      PROVE  TypeOK'
  <2> DEFINE f == s \in formed \/ round[o].told
             k == s \in ready
  <2>0. f \in BOOLEAN /\ k \in BOOLEAN /\ round[o] \in Round /\ map[s] \in View
    OBVIOUS
  <2>1. Counted(round[o], s, map[s], f, k) \in Round
    BY <2>0, CountedRound
  <2>2. QED
    BY <1>4, <2>1 DEF AnswerRead, Learn
<1>5. ASSUME ReadEnds(o)
      PROVE  /\ op[o].at \in ready /\ op[o].at \in Replica
             /\ formed' \in SUBSET up' /\ genesis' \in SUBSET up'
             /\ UNCHANGED <<up, ready, syncing, sync, net, crashes>>
  BY <1>5 DEF ReadEnds, Learn, Running
<1>6. ASSUME KeepView(o)
      PROVE  map' \in [Replica -> View]
  <2>1. Merge(map[op[o].at], round[o].view) \in View
    BY MergeType DEF Round, Call
  <2>2. QED
    BY <1>6, <2>1 DEF KeepView
<1>7. ASSUME Fail(o)
      PROVE  /\ pc' \in [Op -> Phase] /\ round' \in [Op -> Round]
             /\ \A p \in Op : pc'[p] \in Running => pc[p] \in Running
  BY <1>7, NoRoundType DEF Fail, Phase, Running
<1>8. CASE ReadRefused(o)
  BY <1>5, <1>7, <1>8 DEF ReadRefused
<1>9. CASE ReadReturns(o)
  BY <1>5, <1>6, <1>9 DEF ReadReturns, Phase, Running
<1>10. CASE ReadThenRaise(o)
  BY <1>5, <1>6, <1>10 DEF ReadThenRaise, Phase, Running
<1>11. CASE ReadThenReset(o)
  <2> DEFINE epoch == round[o].view.epoch + 1
             u == Update(epoch, op[o].node, [generation |-> epoch, mark |-> op[o].mark])
  <2>1. op[o] \in Call /\ epoch \in Nat
    BY DEF Round, View
  <2>2. u \in View
    BY <2>1, ViewTypes DEF Call, Entry
  <2>3. op' = [op EXCEPT ![o].update = u]
    BY <1>11 DEF ReadThenReset, NextEpoch
  <2> HIDE DEF u
  <2>4. op' \in [Op -> Call] /\ \A p \in Op : op'[p].at = op[p].at
    BY <2>2, <2>3 DEF Call
  <2>5. QED
    BY <1>5, <1>6, <1>11, <2>4 DEF ReadThenReset, Phase, Running
<1>12. CASE ResetAtMaximum(o)
  BY <1>5, <1>6, <1>7, <1>12 DEF ResetAtMaximum
<1>13. CASE StartWrite(o)
  <2> DEFINE u == op[o].update
             v == Merge(map[op[o].at], u)
             m == [type |-> "merge", counters |-> u]
  <2>1. v \in View /\ u \in View
    BY MergeType DEF Call
  <2>2. m \in Request
    BY <2>1 DEF Request
  <2>3. [NoRound EXCEPT !.view = v, !.before = round[o].before] \in Round
    <3>1. op[o].at \in Replica /\ round[o].before \in SUBSET Op
      BY DEF Round, Call
    <3>2. QED
      BY <2>1, <3>1, WriteRound
  <2>4. net' = net \/ net' = net \cup {m}
    BY <1>13 DEF StartWrite
  <2> HIDE DEF v, m
  <2>5. map' \in [Replica -> View] /\ pc' \in [Op -> Phase] /\ net' \in SUBSET Request
    BY <1>13, <2>1, <2>2, <2>4 DEF StartWrite, Phase, v
  <2>6. round' \in [Op -> Round]
    BY <1>13, <2>3 DEF StartWrite, v
  <2>7. QED
    BY <1>13, <2>5, <2>6 DEF StartWrite, Running
<1>14. ASSUME NEW s \in Replica, AnswerMerge(o, s)
       PROVE  TypeOK'
  <2> DEFINE v == Merge(map[s], op[o].update)
  <2>1. v \in View
    BY MergeType DEF Call
  <2>2. Counted(round[o], s, v, TRUE, TRUE) \in Round
    BY <2>1, CountedRound
  <2>3. QED
    BY <1>14, <2>1, <2>2 DEF AnswerMerge, Learn
<1>15. CASE WriteRefused(o)
  BY <1>7, <1>15 DEF WriteRefused
<1>16. CASE WriteAcked(o)
  BY <1>6, <1>16 DEF WriteAcked, Phase, Running
<1>17. QED
  BY <1>1, <1>2, <1>3, <1>4, <1>8, <1>9, <1>10, <1>11, <1>12, <1>13, <1>14, <1>15, <1>16
     DEF CallStep

\* Every step keeps the types.
LEMMA TypeStep == TypeOK /\ [Next]_vars => TypeOK'
<1> SUFFICES ASSUME TypeOK, [Next]_vars PROVE TypeOK'
  OBVIOUS
<1>1. CASE UNCHANGED vars
  BY <1>1 DEF vars, TypeOK
<1>2. CASE Next
  BY <1>2, ReplicaType, CallType DEF Next
<1>3. QED
  BY <1>1, <1>2

\* TypeOK holds in every state, whatever the cluster's size and faults.
THEOREM TypeCorrect == Spec => []TypeOK
BY InitType, TypeStep, PTL DEF Spec

-----------------------------------------------------------------------------
(* What a step never takes back.                                           *)

\* A merge keeps what a view held.
LEMMA Kept ==
  ASSUME NEW u \in View, NEW v \in View, NEW w \in View, Leq(u, v)
  PROVE  Leq(u, Merge(v, w)) /\ Leq(u, Merge(w, v))
BY MergeUpper, MergeType, LeqOrder

\* Between two steps a running replica's view grows.
Grows ==
  \A r \in up \cap up' :
    /\ Leq(map[r], map'[r])
    /\ r \in ready => r \in ready'
    /\ r \in formed => r \in formed'

LEMMA SameMapGrows ==
  ASSUME TypeOK, map' = map, ready \subseteq ready', formed \subseteq formed'
  PROVE  Grows
BY LeqOrder DEF TypeOK, Grows

LEMMA MergedMapGrows ==
  ASSUME TypeOK, ready \subseteq ready', formed \subseteq formed',
         NEW s \in Replica, NEW v \in View, map' = [map EXCEPT ![s] = Merge(@, v)]
  PROVE  Grows
BY LeqOrder, MergeUpper DEF TypeOK, Grows

LEMMA StepGrows ==
  ASSUME TypeOK, [Next]_vars
  PROVE  Grows
<1>1. CASE UNCHANGED vars
  BY <1>1, SameMapGrows DEF vars
<1>2. ASSUME NEW r \in Replica, ReplicaStep(r)
      PROVE  Grows
  <2>1. CASE Crash(r)
    BY <2>1, LeqOrder DEF Crash, TypeOK, Grows
  <2>2. CASE Join(r) \/ GenesisExpires(r) \/ SyncAlone(r) \/ StartSync(r)
    BY <2>2, SameMapGrows DEF Join, GenesisExpires, SyncAlone, StartSync
  <2>3. ASSUME NEW s \in Replica, AnswerSync(r, s)
        PROVE  Grows
    BY <2>3, SameMapGrows DEF AnswerSync, Learn
  <2>4. CASE SyncFromMajority(r)
    <3>1. sync[r].view \in View
      BY DEF TypeOK, Round
    <3>2. QED
      BY <2>4, <3>1, MergedMapGrows DEF SyncFromMajority, Learn
  <2>5. CASE SyncInGenesis(r) \/ SyncAgain(r)
    BY <2>5, SameMapGrows DEF SyncInGenesis, SyncAgain
  <2>6. CASE LateRead(r)
    BY <2>6, SameMapGrows DEF LateRead, Learn
  <2>7. CASE LateMerge(r)
    <3>1. PICK m \in net : m.type = "merge" /\ map' = [map EXCEPT ![r] = Merge(@, m.counters)]
      BY <2>7 DEF LateMerge
    <3>2. m.counters \in View
      BY <3>1 DEF TypeOK, Request
    <3>3. QED
      BY <2>7, <3>1, <3>2, MergedMapGrows DEF LateMerge, Learn
  <2>8. QED
    BY <1>2, <2>1, <2>2, <2>3, <2>4, <2>5, <2>6, <2>7 DEF ReplicaStep, BeginSync
<1>3. ASSUME NEW o \in Op, CallStep(o)
      PROVE  Grows
  <2>1. op[o].at \in Replica /\ op[o].update \in View /\ round[o].view \in View
    BY DEF TypeOK, Round, Call
  <2>2. ASSUME NEW r \in Replica, NEW p, NEW call, Begin(o, r, p, call)
        PROVE  Grows
    BY <2>2, SameMapGrows DEF Begin
  <2>3. ASSUME NEW s \in Replica, AnswerRead(o, s)
        PROVE  Grows
    BY <2>3, SameMapGrows DEF AnswerRead, Learn
  <2>4. CASE ReadRefused(o)
    BY <2>4, SameMapGrows DEF ReadRefused, ReadEnds, Learn
  <2>5. ASSUME KeepView(o), ready \subseteq ready', formed \subseteq formed'
        PROVE  Grows
    BY <2>1, <2>5, MergedMapGrows DEF KeepView
  <2>6. CASE ReadReturns(o) \/ ReadThenRaise(o) \/ ReadThenReset(o) \/ ResetAtMaximum(o)
    BY <2>5, <2>6
       DEF ReadReturns, ReadThenRaise, ReadThenReset, ResetAtMaximum, ReadEnds, Learn
  <2>7. CASE StartWrite(o)
    BY <2>1, <2>7, MergedMapGrows DEF StartWrite
  <2>8. ASSUME NEW s \in Replica, AnswerMerge(o, s)
        PROVE  Grows
    BY <2>1, <2>8, MergedMapGrows DEF AnswerMerge, Learn
  <2>9. CASE WriteRefused(o)
    BY <2>9, SameMapGrows DEF WriteRefused
  <2>10. CASE WriteAcked(o)
    BY <2>5, <2>10 DEF WriteAcked
  <2>11. QED
    BY <1>3, <2>2, <2>3, <2>4, <2>6, <2>7, <2>8, <2>9, <2>10
       DEF CallStep, BeginRead, BeginRaise, BeginReset
<1>4. QED
  BY <1>1, <1>2, <1>3 DEF Next

\* While a replica runs, what it holds only grows and it stays ready and
\* formed, for every cluster and every fault (property OnlyGrows).
THEOREM ViewsOnlyGrow == Spec => OnlyGrows
<1>1. ASSUME TypeOK, [Next]_vars
      PROVE  [\A r \in up \cap up' : /\ Leq(map[r], map'[r])
                                     /\ r \in ready => r \in ready'
                                     /\ r \in formed => r \in formed']_vars
  BY <1>1, StepGrows DEF Grows
<1>2. QED
  BY <1>1, TypeCorrect, PTL DEF Spec, OnlyGrows

-----------------------------------------------------------------------------
(* Majorities.                                                             *)

\* Two majorities of MERO_KMS_REPLICAS share a replica, if there are no more
\* replicas than it says.
LEMMA MajoritiesMeet ==
  ASSUME Sized, NEW S \in SUBSET Replica, NEW T \in SUBSET Replica,
         Cardinality(S) >= Majority, Cardinality(T) >= Majority
  PROVE  S \cap T # {}
<1>1. /\ Cardinality(S) \in Nat /\ Cardinality(T) \in Nat
      /\ Cardinality(Replica) \in Nat
  BY ReplicaAssumption, FS_Subset, FS_CardinalityType
<1>2. 2 * Majority > Replicas /\ Majority \in Nat
  BY ReplicasAssumption DEF Majority
<1>3. Cardinality(S) + Cardinality(T) > Cardinality(Replica)
  BY <1>1, <1>2, ReplicasAssumption DEF Sized
<1>4. QED
  BY <1>3, ReplicaAssumption, FS_MajoritiesIntersect

\* A lone replica is the only one.
LEMMA LoneReplica ==
  ASSUME Sized, Replicas = 1, NEW r \in Replica, NEW s \in Replica
  PROVE  r = s
<1>1. Cardinality(Replica) \in Nat
  BY ReplicaAssumption, FS_CardinalityType
<1>2. Cardinality({r, s}) <= 1 /\ IsFiniteSet({r, s}) /\ Cardinality({r, s}) \in Nat
  BY <1>1, ReplicaAssumption, FS_Subset, FS_CardinalityType DEF Sized
<1>3. Cardinality({r, s}) = 0 \/ Cardinality({r, s}) = 1
  BY <1>2
<1>4. QED
  BY <1>2, <1>3, FS_EmptySet, FS_Singleton

-----------------------------------------------------------------------------
(* What one step does to a call, and to a joiner's round.                  *)

\* A step leaves a call alone, fails it, or is one of its own.
LEMMA CallMoves ==
  ASSUME TypeOK, [Next]_vars, NEW o \in Op
  PROVE  \/ pc'[o] = pc[o] /\ op'[o] = op[o] /\ round'[o] = round[o]
         \/ pc[o] \in Running /\ pc'[o] = "failed" /\ op'[o] = op[o] /\ round'[o] = NoRound
         \/ CallStep(o)
<1>1. CASE UNCHANGED vars
  BY <1>1 DEF vars
<1>2. ASSUME NEW r \in Replica, ReplicaStep(r)
      PROVE  \/ pc'[o] = pc[o] /\ op'[o] = op[o] /\ round'[o] = round[o]
             \/ pc[o] \in Running /\ pc'[o] = "failed" /\ op'[o] = op[o] /\ round'[o] = NoRound
  <2>1. CASE Crash(r)
    BY <2>1 DEF Crash, TypeOK
  <2>2. CASE ~Crash(r)
    BY <1>2, <2>2
       DEF ReplicaStep, BeginSync, Join, GenesisExpires, SyncAlone, StartSync, AnswerSync, EndSync,
           SyncFromMajority, SyncInGenesis, SyncAgain, LateRead, LateMerge
  <2>3. QED
    BY <2>1, <2>2
<1>3. ASSUME NEW p \in Op, p # o, CallStep(p)
      PROVE  pc'[o] = pc[o] /\ op'[o] = op[o] /\ round'[o] = round[o]
  <2>1. CASE \/ ReadRefused(p) \/ ReadReturns(p) \/ ReadThenRaise(p)
             \/ ReadThenReset(p) \/ ResetAtMaximum(p)
    BY <1>3, <2>1
       DEF TypeOK, ReadRefused, ReadReturns, ReadThenRaise, ReadThenReset, ResetAtMaximum, Fail
  <2>2. CASE \/ StartWrite(p) \/ WriteRefused(p) \/ WriteAcked(p)
             \/ \E s \in Replica : AnswerRead(p, s) \/ AnswerMerge(p, s)
    BY <1>3, <2>2
       DEF TypeOK, StartWrite, WriteRefused, WriteAcked, AnswerRead, AnswerMerge, Fail
  <2>3. ASSUME NEW r, NEW phase, NEW call, Begin(p, r, phase, call)
        PROVE  pc'[o] = pc[o] /\ op'[o] = op[o] /\ round'[o] = round[o]
    BY <1>3, <2>3 DEF TypeOK, Begin
  <2>4. QED
    BY <1>3, <2>1, <2>2, <2>3 DEF CallStep, BeginRead, BeginRaise, BeginReset
<1>4. QED
  BY <1>1, <1>2, <1>3 DEF Next

\* What a call's own step starts from.
LEMMA CallStarts ==
  ASSUME TypeOK, NEW o \in Op, CallStep(o)
  PROVE  pc[o] \in {"idle"} \cup Running
BY DEF CallStep, BeginRead, BeginRaise, BeginReset, Begin, AnswerRead, ReadEnds, ReadRefused,
       ReadReturns, ReadThenRaise, ReadThenReset, ResetAtMaximum, StartWrite, AnswerMerge,
       WriteRefused, WriteAcked, Running

\* A call that ended stays as it is.
LEMMA EndedStays ==
  ASSUME TypeOK, [Next]_vars
  PROVE  /\ Ended \subseteq Ended'
         /\ \A w \in Ended : pc'[w] = pc[w] /\ op'[w] = op[w] /\ round'[w] = round[w]
<1>1. ASSUME NEW w \in Ended
      PROVE  pc'[w] = pc[w] /\ op'[w] = op[w] /\ round'[w] = round[w]
  BY CallMoves, CallStarts DEF Ended, Running
<1>2. QED
  BY <1>1 DEF Ended

\* What can move a joiner, a replica's readiness and its genesis window.
LEMMA JoinerMoves ==
  ASSUME TypeOK, [Next]_vars, NEW r \in Replica
  PROVE  /\ r \in syncing' => \/ r \in syncing /\ sync'[r] = sync[r]
                              \/ StartSync(r)
                              \/ \E s \in Replica : AnswerSync(r, s)
         /\ sync'[r] = sync[r] \/ StartSync(r) \/ sync'[r] = NoRound
              \/ \E s \in Replica : AnswerSync(r, s)
         /\ r \in ready' => \/ r \in ready
                            \/ SyncAlone(r) \/ SyncFromMajority(r) \/ SyncInGenesis(r)
         /\ r \in genesis' => r \in genesis \/ SyncInGenesis(r)
         /\ r \in up' => r \in up \/ Join(r)
<1>1. CASE UNCHANGED vars
  BY <1>1 DEF vars
<1>2. ASSUME NEW q \in Replica, ReplicaStep(q)
      PROVE  /\ r \in syncing' => \/ r \in syncing /\ sync'[r] = sync[r]
                                  \/ StartSync(r)
                                  \/ \E s \in Replica : AnswerSync(r, s)
             /\ sync'[r] = sync[r] \/ StartSync(r) \/ sync'[r] = NoRound
                  \/ \E s \in Replica : AnswerSync(r, s)
             /\ r \in ready' => \/ r \in ready
                                \/ SyncAlone(r) \/ SyncFromMajority(r) \/ SyncInGenesis(r)
             /\ r \in genesis' => r \in genesis \/ SyncInGenesis(r)
             /\ r \in up' => r \in up \/ Join(r)
  <2>1. CASE Join(q) \/ GenesisExpires(q) \/ SyncAlone(q) \/ LateRead(q) \/ LateMerge(q)
    BY <2>1 DEF Join, GenesisExpires, SyncAlone, LateRead, LateMerge, Learn
  <2>2. CASE Crash(q)
    BY <2>2 DEF Crash, TypeOK
  <2>3. CASE StartSync(q)
    BY <2>3 DEF StartSync, TypeOK
  <2>4. ASSUME NEW s \in Replica, AnswerSync(q, s)
        PROVE  /\ r \in syncing' => \/ r \in syncing /\ sync'[r] = sync[r]
                                    \/ AnswerSync(r, s)
               /\ sync'[r] = sync[r] \/ AnswerSync(r, s)
               /\ ready' = ready /\ genesis' \subseteq genesis /\ up' = up
    BY <2>4 DEF AnswerSync, Learn, TypeOK
  <2>5. CASE SyncFromMajority(q) \/ SyncInGenesis(q) \/ SyncAgain(q)
    BY <2>5 DEF SyncFromMajority, SyncInGenesis, SyncAgain, EndSync, Learn, TypeOK
  <2>6. QED
    BY <1>2, <2>1, <2>2, <2>3, <2>4, <2>5 DEF ReplicaStep, BeginSync
<1>3. ASSUME NEW o \in Op, CallStep(o)
      PROVE  /\ syncing' = syncing /\ sync' = sync /\ ready' = ready /\ up' = up
             /\ genesis' \subseteq genesis
  BY <1>3
     DEF CallStep, BeginRead, BeginRaise, BeginReset, Begin, AnswerRead, ReadEnds, ReadRefused,
         ReadReturns, ReadThenRaise, ReadThenReset, ResetAtMaximum, StartWrite, AnswerMerge,
         WriteRefused, WriteAcked, Learn
<1>4. QED
  BY <1>1, <1>2, <1>3 DEF Next

\* Once nobody can be let in on an empty replica's word, nobody ever can.
LEMMA BringUpEnds ==
  ASSUME TypeOK, TypeOK', InvShape, [Next]_vars, ~BringUp
  PROVE  ~BringUp'
<1>1. ASSUME NEW s \in up', InGenesis(s)'
      PROVE  FALSE
  <2>1. s \in Replica
    BY <1>1 DEF TypeOK
  <2>2. CASE s \in genesis
    <3>1. s \in ready /\ s \in up
      BY <2>2 DEF InvShape, TypeOK
    <3>2. s \notin formed
      BY <1>1, <3>1, StepGrows DEF Grows, InGenesis
    <3>3. QED
      BY <2>2, <3>1, <3>2 DEF BringUp, InGenesis
  <2>3. CASE SyncInGenesis(s)
    BY <2>3 DEF SyncInGenesis, EndSync, SyncHasGenesis, BringUp
  <2>4. QED
    BY <1>1, <2>1, <2>2, <2>3, JoinerMoves DEF InGenesis
<1>2. ASSUME NEW r \in syncing', sync'[r].ready # {}, sync'[r].genesis
      PROVE  FALSE
  <2>1. r \in Replica
    BY <1>2 DEF TypeOK
  <2>2. CASE r \in syncing /\ sync'[r] = sync[r]
    BY <1>2, <2>2 DEF BringUp
  <2>3. CASE StartSync(r)
    BY <1>2, <2>1, <2>3 DEF StartSync, ReadRound, TypeOK
  <2>4. ASSUME NEW s \in Replica, AnswerSync(r, s)
        PROVE  FALSE
    <3> DEFINE told == sync[r].told
    <3>0. /\ sync[r] \in Round /\ r \in syncing /\ s \in up
          /\ sync'[r] = Counted(sync[r], s, map[s], s \in formed \/ told, s \in ready)
      BY <2>1, <2>4 DEF AnswerSync, TypeOK
    <3>1. /\ sync'[r].ready = IF s \in ready THEN sync[r].ready \cup {s} ELSE sync[r].ready
          /\ sync'[r].genesis => sync[r].genesis
          /\ sync'[r].genesis /\ s \in ready => s \in genesis /\ s \notin formed
      BY <3>0 DEF Counted, Round
    <3>2. QED
      BY <1>2, <3>0, <3>1 DEF BringUp, InGenesis
  <2>5. QED
    BY <1>2, <2>1, <2>2, <2>3, <2>4, JoinerMoves
<1>3. QED
  BY <1>1, <1>2 DEF BringUp

\* Requests stay in the network.
LEMMA NetGrows ==
  ASSUME [Next]_vars
  PROVE  net \subseteq net'
<1>1. CASE UNCHANGED vars
  BY <1>1 DEF vars
<1>2. ASSUME NEW r \in Replica, ReplicaStep(r)
      PROVE  net \subseteq net'
  BY <1>2
     DEF ReplicaStep, BeginSync, Join, Crash, GenesisExpires, SyncAlone, StartSync, SendRead, AnswerSync,
         EndSync, SyncFromMajority, SyncInGenesis, SyncAgain, LateRead, LateMerge
<1>3. ASSUME NEW o \in Op, CallStep(o)
      PROVE  net \subseteq net'
  BY <1>3
     DEF CallStep, BeginRead, BeginRaise, BeginReset, SendRead, AnswerRead, ReadEnds, ReadRefused,
         ReadReturns, ReadThenRaise, ReadThenReset, ResetAtMaximum, StartWrite, AnswerMerge,
         WriteRefused, WriteAcked
<1>4. QED
  BY <1>1, <1>2, <1>3 DEF Next

\* Where a call's own step can take it, and how it got there.
LEMMA CallPhases ==
  ASSUME TypeOK, NEW o \in Op, CallStep(o)
  PROVE  /\ pc'[o] = "reading" =>
              \/ \E s \in Replica : AnswerRead(o, s)
              \/ /\ op'[o].at \in ready
                 /\ round'[o] = ReadRound(op'[o].at, map[op'[o].at])
                 /\ UNCHANGED <<map, ready>>
         /\ pc'[o] = "merging" => o \in Writes
         /\ pc'[o] = "writing" => StartWrite(o) \/ \E s \in Replica : AnswerMerge(o, s)
         /\ pc'[o] = "acked" => ReadReturns(o) \/ WriteAcked(o)
         /\ o \in Resets /\ pc'[o] \in {"merging", "writing", "acked"} =>
              \/ ReadThenReset(o)
              \/ /\ pc[o] \in {"merging", "writing"}
                 /\ op'[o] = op[o] /\ round'[o].before = round[o].before
         /\ round'[o].before \subseteq Ended \cup round[o].before
<1> DEFINE Goal ==
      /\ pc'[o] = "reading" =>
           \/ \E s \in Replica : AnswerRead(o, s)
           \/ /\ op'[o].at \in ready
              /\ round'[o] = ReadRound(op'[o].at, map[op'[o].at])
              /\ UNCHANGED <<map, ready>>
      /\ pc'[o] = "merging" => o \in Writes
      /\ pc'[o] = "writing" => StartWrite(o) \/ \E s \in Replica : AnswerMerge(o, s)
      /\ pc'[o] = "acked" => ReadReturns(o) \/ WriteAcked(o)
      /\ o \in Resets /\ pc'[o] \in {"merging", "writing", "acked"} =>
           \/ ReadThenReset(o)
           \/ /\ pc[o] \in {"merging", "writing"}
              /\ op'[o] = op[o] /\ round'[o].before = round[o].before
      /\ round'[o].before \subseteq Ended \cup round[o].before
<1> SUFFICES Goal
  OBVIOUS
<1>1. ASSUME NEW r \in Replica, NEW p \in {"reading", "merging"}, NEW call, call.at = r,
             Begin(o, r, p, call), p = "merging" => o \in Raises
      PROVE  Goal
  <2>1. pc'[o] = p /\ op'[o] = call /\ round'[o] = ReadRound(r, map[r]) /\ UNCHANGED <<map, ready>>
    BY <1>1 DEF Begin, TypeOK
  <2>2. round'[o].before = Ended
    BY <2>1 DEF ReadRound
  <2>3. r \in ready
    BY <1>1 DEF Begin
  <2>4. QED
    BY <1>1, <2>1, <2>2, <2>3, OpAssumption DEF Writes
<1>2. ASSUME NEW s \in Replica, AnswerRead(o, s)
      PROVE  Goal
  <2>1. pc'[o] = "reading"
    BY <1>2 DEF AnswerRead
  <2>2. round'[o].before = round[o].before
    BY <1>2 DEF AnswerRead, Counted, TypeOK, Round
  <2>3. QED
    BY <1>2, <2>1, <2>2
<1>3. ASSUME NEW s \in Replica, AnswerMerge(o, s)
      PROVE  Goal
  <2>1. pc[o] = "writing" /\ pc'[o] = "writing" /\ op'[o] = op[o]
    BY <1>3 DEF AnswerMerge
  <2>2. round'[o].before = round[o].before
    BY <1>3 DEF AnswerMerge, Counted, TypeOK, Round
  <2>3. QED
    BY <1>3, <2>1, <2>2
<1>4. ASSUME Fail(o)
      PROVE  Goal
  BY <1>4 DEF Fail, NoRound, TypeOK
<1>5. CASE ReadReturns(o)
  BY <1>5, OpAssumption DEF ReadReturns, TypeOK, Writes
<1>6. CASE ReadThenRaise(o)
  BY <1>6, OpAssumption DEF ReadThenRaise, TypeOK, Writes
<1>7. CASE ReadThenReset(o)
  BY <1>7 DEF ReadThenReset, TypeOK, Writes
<1>8. CASE StartWrite(o)
  <2>1. round'[o].before = round[o].before
    BY <1>8 DEF StartWrite, TypeOK, NoRound
  <2>2. pc[o] = "merging" /\ pc'[o] = "writing" /\ op'[o] = op[o]
    BY <1>8 DEF StartWrite, TypeOK
  <2>3. QED
    BY <1>8, <2>1, <2>2
<1>9. CASE WriteAcked(o)
  BY <1>9 DEF WriteAcked, TypeOK
<1>10. ASSUME NEW r \in Replica, NEW n \in Node, BeginRead(o, r, n)
       PROVE  Goal
  <2>1. Begin(o, r, "reading", ReadCall(r, n)) /\ ReadCall(r, n).at = r
    BY <1>10 DEF BeginRead, ReadCall
  <2>2. QED
    BY <1>1, <2>1
<1>11. ASSUME NEW r \in Replica, NEW n \in Node, NEW m \in Mark, BeginRaise(o, r, n, m)
       PROVE  Goal
  <2>1. PICK g \in Told(n) :
          LET call == [at |-> r, node |-> n, mark |-> m,
                       update |-> Update(0, n, [generation |-> g, mark |-> m])]
          IN  Begin(o, r, "merging", call) \/ Begin(o, r, "reading", call)
    BY <1>11 DEF BeginRaise
  <2> DEFINE call == [at |-> r, node |-> n, mark |-> m,
                      update |-> Update(0, n, [generation |-> g, mark |-> m])]
  <2>2. call.at = r /\ o \in Raises
    BY <1>11 DEF BeginRaise
  <2>3. Begin(o, r, "merging", call) \/ Begin(o, r, "reading", call)
    BY <2>1
  <2> HIDE DEF call, Goal
  <2>4. QED
    BY <1>1, <2>2, <2>3
<1>12. ASSUME NEW r \in Replica, NEW n \in Node, NEW m \in Mark, BeginReset(o, r, n, m)
       PROVE  Goal
  <2> DEFINE call == [at |-> r, node |-> n, mark |-> m, update |-> EmptyView]
  <2>1. Begin(o, r, "reading", call) /\ call.at = r
    BY <1>12 DEF BeginReset
  <2> HIDE DEF call, Goal
  <2>2. QED
    BY <1>1, <2>1
<1> HIDE DEF Goal
<1>13. CASE ReadRefused(o) \/ ResetAtMaximum(o) \/ WriteRefused(o)
  BY <1>4, <1>13 DEF ReadRefused, ResetAtMaximum, WriteRefused
<1>14. QED
  BY <1>2, <1>3, <1>5, <1>6, <1>7, <1>8, <1>9, <1>10, <1>11, <1>12, <1>13 DEF CallStep

\* What an answer changes in the round that counts it.
LEMMA AnswersCounted ==
  ASSUME TypeOK, NEW s \in Replica
  PROVE  /\ \A r \in Replica : AnswerSync(r, s) =>
              /\ sync'[r].before = sync[r].before
              /\ sync'[r].ready = IF s \in ready THEN sync[r].ready \cup {s} ELSE sync[r].ready
              /\ sync'[r].view = IF s \in ready THEN Merge(sync[r].view, map[s]) ELSE sync[r].view
         /\ \A o \in Op : AnswerRead(o, s) =>
              /\ round'[o].heard = round[o].heard \cup {s}
              /\ round'[o].before = round[o].before
              /\ round'[o].ready = IF s \in ready THEN round[o].ready \cup {s} ELSE round[o].ready
              /\ round'[o].view = IF s \in ready THEN Merge(round[o].view, map[s])
                                  ELSE round[o].view
         /\ \A o \in Op : AnswerMerge(o, s) =>
              /\ round'[o].heard = round[o].heard \cup {s}
              /\ round'[o].before = round[o].before
              /\ round'[o].ready \subseteq round[o].ready \cup {s}
              /\ round'[o].view = Merge(round[o].view, Merge(map[s], op[o].update))
<1>1. ASSUME NEW r \in Replica, AnswerSync(r, s)
      PROVE  /\ sync'[r].before = sync[r].before
             /\ sync'[r].ready = IF s \in ready THEN sync[r].ready \cup {s} ELSE sync[r].ready
             /\ sync'[r].view = IF s \in ready THEN Merge(sync[r].view, map[s]) ELSE sync[r].view
  <2> DEFINE f == s \in formed \/ sync[r].told
  <2>1. sync[r] \in Round /\ map[s] \in View
    BY DEF TypeOK
  <2>2. sync'[r] = Counted(sync[r], s, map[s], f, s \in ready)
    BY <1>1 DEF AnswerSync, TypeOK
  <2> HIDE DEF f
  <2>3. QED
    BY <2>1, <2>2 DEF Counted, Round
<1>2. ASSUME NEW o \in Op, AnswerRead(o, s)
      PROVE  /\ round'[o].heard = round[o].heard \cup {s}
             /\ round'[o].before = round[o].before
             /\ round'[o].ready = IF s \in ready THEN round[o].ready \cup {s} ELSE round[o].ready
             /\ round'[o].view = IF s \in ready THEN Merge(round[o].view, map[s])
                                 ELSE round[o].view
  <2> DEFINE f == s \in formed \/ round[o].told
  <2>1. round[o] \in Round /\ map[s] \in View
    BY DEF TypeOK
  <2>2. round'[o] = Counted(round[o], s, map[s], f, s \in ready)
    BY <1>2 DEF AnswerRead, TypeOK
  <2> HIDE DEF f
  <2>3. QED
    BY <2>1, <2>2 DEF Counted, Round
<1>3. ASSUME NEW o \in Op, AnswerMerge(o, s)
      PROVE  /\ round'[o].heard = round[o].heard \cup {s}
             /\ round'[o].before = round[o].before
             /\ round'[o].ready \subseteq round[o].ready \cup {s}
             /\ round'[o].view = Merge(round[o].view, Merge(map[s], op[o].update))
  <2> DEFINE v == Merge(map[s], op[o].update)
  <2>1. round[o] \in Round /\ map[s] \in View /\ op[o].update \in View
    BY DEF TypeOK, Call
  <2>2. v \in View
    BY <2>1, MergeType
  <2>3. round'[o] = Counted(round[o], s, v, TRUE, TRUE)
    BY <1>3 DEF AnswerMerge, TypeOK
  <2> HIDE DEF v
  <2>4. /\ round'[o].heard = round[o].heard \cup {s}
        /\ round'[o].before = round[o].before
        /\ round'[o].ready \subseteq round[o].ready \cup {s}
        /\ round'[o].view = Merge(round[o].view, v)
    BY <2>1, <2>2, <2>3 DEF Counted, Round
  <2>5. QED
    BY <2>4 DEF v
<1>4. QED
  BY <1>1, <1>2, <1>3

-----------------------------------------------------------------------------
(* The parts of the inductive invariant, each preserved by every step.     *)

LEMMA ShapeKept ==
  ASSUME Sized, TypeOK, TypeOK', InvShape, [Next]_vars
  PROVE  InvShape'
<1>1. genesis' \subseteq ready'
  <2>1. ASSUME NEW r \in genesis'
        PROVE  r \in ready'
    <3>1. r \in Replica /\ r \in up'
      BY DEF TypeOK
    <3>2. CASE r \in genesis
      <4>1. r \in ready /\ r \in up
        BY <3>2 DEF InvShape, TypeOK
      <4>2. QED
        BY <3>1, <4>1, StepGrows DEF Grows
    <3>3. CASE SyncInGenesis(r)
      BY <3>3 DEF SyncInGenesis
    <3>4. QED
      BY <2>1, <3>1, <3>2, <3>3, JoinerMoves
  <2>2. QED
    BY <2>1
<1>2. syncing' \cap ready' = {}
  <2>1. SUFFICES ASSUME NEW r \in Replica, r \in syncing', r \in ready'
                 PROVE  FALSE
    BY DEF TypeOK
  <2>2. \A s \in Replica : ~SyncAlone(s)
    BY DEF SyncAlone, InvShape, TypeOK
  <2>3. r \notin ready
    <3>1. CASE r \in syncing
      BY <3>1 DEF InvShape
    <3>2. CASE r \notin syncing
      BY <2>1, <3>2, JoinerMoves DEF StartSync, AnswerSync
    <3>3. QED
      BY <3>1, <3>2
  <2>4. SyncFromMajority(r) \/ SyncInGenesis(r)
    BY <2>1, <2>2, <2>3, JoinerMoves
  <2>5. QED
    BY <2>1, <2>4 DEF SyncFromMajority, SyncInGenesis, EndSync
<1>3. Replicas = 1 => up' \subseteq ready'
  <2>1. SUFFICES ASSUME Replicas = 1, NEW r \in Replica, r \in up'
                 PROVE  r \in ready'
    BY DEF TypeOK
  <2>2. ~Join(r)
    <3>1. SUFFICES ASSUME Join(r) PROVE FALSE
      OBVIOUS
    <3>2. PICK s \in up : s # r
      BY <3>1 DEF Join
    <3>3. QED
      BY <2>1, <3>2, LoneReplica DEF TypeOK
  <2>3. r \in up /\ r \in ready
    BY <2>1, <2>2, JoinerMoves DEF InvShape
  <2>4. QED
    BY <2>1, <2>3, StepGrows DEF Grows
<1>4. \A r \in Replica : sync'[r].before \subseteq Ended'
  <2>1. SUFFICES ASSUME NEW r \in Replica
                 PROVE  sync'[r].before \subseteq Ended
    BY EndedStays
  <2>2. CASE sync'[r] = sync[r]
    BY <2>2 DEF InvShape
  <2>3. CASE StartSync(r)
    BY <2>3 DEF StartSync, ReadRound, TypeOK
  <2>4. CASE sync'[r] = NoRound
    BY <2>4 DEF NoRound
  <2>5. ASSUME NEW s \in Replica, AnswerSync(r, s)
        PROVE  sync'[r].before \subseteq Ended
    <3>1. sync'[r].before = sync[r].before
      BY <2>5, AnswersCounted
    <3>2. QED
      BY <3>1 DEF InvShape
  <2>6. QED
    BY <2>2, <2>3, <2>4, <2>5, JoinerMoves
<1>5. \A o \in Op : round'[o].before \subseteq Ended'
  <2>1. SUFFICES ASSUME NEW o \in Op
                 PROVE  round'[o].before \subseteq Ended
    BY EndedStays
  <2>2. round[o].before \subseteq Ended
    BY DEF InvShape
  <2>3. CASE round'[o] = NoRound
    BY <2>3 DEF NoRound
  <2>4. CASE CallStep(o)
    BY <2>2, <2>4, CallPhases
  <2>5. QED
    BY <2>2, <2>3, <2>4, CallMoves
<1>6. \A o \in Op : pc'[o] \in {"reading", "writing"} =>
        op'[o].at \notin round'[o].heard \cup round'[o].ready
  <2>1. SUFFICES ASSUME NEW o \in Op, pc'[o] \in {"reading", "writing"}
                 PROVE  op'[o].at \notin round'[o].heard \cup round'[o].ready
    OBVIOUS
  <2>2. CASE pc'[o] = pc[o] /\ op'[o] = op[o] /\ round'[o] = round[o]
    BY <2>1, <2>2 DEF InvShape
  <2>3. ASSUME NEW s \in Replica, AnswerRead(o, s) \/ AnswerMerge(o, s)
        PROVE  op'[o].at \notin round'[o].heard \cup round'[o].ready
    <3>1. /\ pc[o] \in {"reading", "writing"} /\ op' = op /\ s # op[o].at
          /\ round'[o].heard = round[o].heard \cup {s}
          /\ round'[o].ready \subseteq round[o].ready \cup {s}
      BY <2>3, AnswersCounted DEF AnswerRead, AnswerMerge
    <3>2. QED
      BY <3>1 DEF InvShape
  <2>4. CASE round'[o] = ReadRound(op'[o].at, map[op'[o].at])
    BY <2>4 DEF ReadRound
  <2>5. CASE StartWrite(o)
    BY <2>5 DEF StartWrite, NoRound, TypeOK
  <2>6. QED
    BY <2>1, <2>2, <2>3, <2>4, <2>5, CallMoves, CallPhases
<1>7. \A o \in Reads : pc'[o] \notin {"merging", "writing"}
  <2>1. SUFFICES ASSUME NEW o \in Reads, CallStep(o)
                 PROVE  pc'[o] \notin {"merging", "writing"}
    BY CallMoves DEF InvShape, Op
  <2>2. o \in Op /\ o \notin Writes
    BY OpAssumption DEF Op
  <2>3. QED
    BY <2>1, <2>2, CallPhases DEF StartWrite, AnswerMerge, InvShape
<1>8. \A w \in Writes : pc'[w] \in {"writing", "acked"} => Replicas = 1 \/ Written'
  <2>1. SUFFICES ASSUME NEW w \in Writes, pc'[w] \in {"writing", "acked"}, Replicas # 1
                 PROVE  Written'
    OBVIOUS
  <2>2. w \in Op /\ w \notin Reads
    BY OpAssumption DEF Op
  <2>3. CASE pc[w] \in {"writing", "acked"}
    BY <2>1, <2>3, NetGrows DEF InvShape, Written
  <2>4. CASE StartWrite(w)
    <3> DEFINE m == [type |-> "merge", counters |-> op[w].update]
    <3>1. m \in net' /\ m.type = "merge"
      BY <2>1, <2>4 DEF StartWrite
    <3>2. QED
      BY <3>1 DEF Written
  <2>5. QED
    BY <2>1, <2>2, <2>3, <2>4, CallMoves, CallPhases
       DEF AnswerMerge, WriteAcked, ReadReturns
<1>9. QED
  BY <1>1, <1>2, <1>3, <1>4, <1>5, <1>6, <1>7, <1>8 DEF InvShape

\* A replica that stays up keeps the writes it holds.
LEMMA HoldsKept ==
  ASSUME TypeOK, TypeOK', [Next]_vars, NEW h \in up, h \in up',
         NEW w \in Op, op'[w] = op[w], Holds(h, w)
  PROVE  Holds(h, w)'
<1>1. Leq(map[h], map'[h])
  BY StepGrows DEF Grows
<1>2. op[w].update \in View /\ map[h] \in View /\ map'[h] \in View
  BY DEF TypeOK, Call
<1>3. QED
  BY <1>1, <1>2, LeqOrder DEF Holds

LEMMA WritingKept ==
  ASSUME NoFastReplacement, TypeOK, TypeOK', InvWriting, [Next]_vars
  PROVE  InvWriting'
<1>1. SUFFICES ASSUME NEW w \in Writes, pc'[w] = "writing", NEW h \in Replica,
                      h \in Holders(w)', h \in up'
               PROVE  Holds(h, w)'
  BY DEF InvWriting, TypeOK
<1>2. w \in Op /\ op[w].update \in View /\ \A r \in Replica : map[r] \in View
  BY DEF Op, TypeOK, Call
<1>3. CASE pc'[w] = pc[w] /\ op'[w] = op[w] /\ round'[w] = round[w]
  <2>1. h \in Holders(w) /\ pc[w] = "writing"
    BY <1>1, <1>3 DEF Holders
  <2>2. h \in up
    <3>1. ~Join(h)
      BY <1>2, <2>1 DEF Join, Holders, NoFastReplacement, TypeOK, Running
    <3>2. QED
      BY <1>1, <3>1, JoinerMoves
  <2>3. Holds(h, w)
    BY <2>1, <2>2 DEF InvWriting
  <2>4. QED
    BY <1>1, <1>2, <1>3, <2>2, <2>3, HoldsKept
<1>4. CASE StartWrite(w)
  <2>1. /\ op' = op /\ h = op[w].at
        /\ map'[h] = Merge(map[h], op[w].update)
    BY <1>1, <1>2, <1>4 DEF StartWrite, Holders, NoRound, TypeOK
  <2>2. QED
    BY <1>2, <2>1, MergeUpper DEF Holds
<1>5. ASSUME NEW s \in Replica, AnswerMerge(w, s)
      PROVE  Holds(h, w)'
  <2>1. /\ h \in Holders(w) \cup {s} /\ op' = op /\ up' = up /\ pc[w] = "writing"
        /\ map'[s] = Merge(map[s], op[w].update)
    <3>1. op' = op /\ up' = up /\ pc[w] = "writing" /\ map' = [map EXCEPT ![s] = Merge(@, op[w].update)]
      BY <1>5 DEF AnswerMerge
    <3>2. round'[w].heard = round[w].heard \cup {s}
      BY <1>2, <1>5, AnswersCounted
    <3>3. QED
      BY <1>1, <3>1, <3>2 DEF Holders, TypeOK
  <2>2. CASE h = s
    BY <1>2, <2>1, <2>2, MergeUpper DEF Holds
  <2>3. CASE h # s
    <3>1. Holds(h, w) /\ h \in up
      BY <1>1, <2>1, <2>3 DEF InvWriting
    <3>2. QED
      BY <1>1, <1>2, <2>1, <3>1, HoldsKept
  <2>4. QED
    BY <2>2, <2>3
<1>6. QED
  BY <1>1, <1>2, <1>3, <1>4, <1>5, CallMoves, CallPhases

\* What a joiner with a majority heard holds every write acknowledged before
\* its round.
LEMMA MajoritySynced ==
  ASSUME Sized, TypeOK, InvAcked, InvSyncing, NEW r \in Replica, SyncFromMajority(r),
         NEW w \in sync[r].before, AckedWrite(w)
  PROVE  Leq(op[w].update, sync[r].view)
<1>1. r \in syncing /\ Cardinality(sync[r].ready) >= Majority
  BY DEF SyncFromMajority, EndSync, SyncHasMajority
<1>2. w \in Op /\ sync[r].ready \in SUBSET Replica /\ Holders(w) \in SUBSET Replica
  BY DEF TypeOK, Round, Call, Holders, AckedWrite, Op
<1>3. Cardinality(Holders(w)) >= Majority
  BY DEF InvAcked, AckedWrite
<1>4. sync[r].ready \cap Holders(w) # {}
  BY <1>1, <1>2, <1>3, MajoritiesMeet
<1>5. QED
  BY <1>1, <1>4 DEF InvSyncing, Meets

LEMMA AckedKept ==
  ASSUME Sized, NoFastReplacement, TypeOK, TypeOK', InvShape, InvWriting, InvAcked, InvSyncing,
         [Next]_vars
  PROVE  InvAcked'
<1>1. SUFFICES ASSUME NEW w \in Writes, pc'[w] = "acked"
               PROVE  /\ Cardinality(Holders(w)') >= Majority
                      /\ \A h \in Holders(w)' \cap up' : Holds(h, w)' \/ Recovering(h, w)'
  BY DEF InvAcked
<1>2. /\ w \in Op /\ w \notin Reads
      /\ op[w].update \in View /\ \A r \in Replica : map[r] \in View
  BY OpAssumption DEF Op, TypeOK, Call
<1>3. CASE pc'[w] = pc[w] /\ op'[w] = op[w] /\ round'[w] = round[w]
  <2>1. AckedWrite(w) /\ w \in Ended /\ Holders(w)' = Holders(w)
    BY <1>1, <1>2, <1>3 DEF AckedWrite, Ended, Holders
  <2>2. ASSUME NEW h \in Replica, h \in Holders(w), h \in up'
        PROVE  Holds(h, w)' \/ Recovering(h, w)'
    <3>1. CASE h \notin up
      <4>1. Join(h)
        BY <2>2, <3>1, JoinerMoves
      <4>2. h \notin ready' /\ h \notin syncing'
        BY <3>1, <4>1 DEF Join, TypeOK
      <4>3. Replicas # 1
        <5>1. PICK s \in up : s # h
          BY <4>1 DEF Join
        <5>2. QED
          BY <5>1, LoneReplica DEF TypeOK
      <4>4. ~BringUp
        BY <2>1, <4>1, <4>3 DEF Join, NoFastReplacement, InvShape, AckedWrite
      <4>5. QED
        BY <4>2, <4>4, BringUpEnds DEF Recovering
    <3>2. CASE h \in up /\ Holds(h, w)
      BY <1>2, <1>3, <2>2, <3>2, HoldsKept
    <3>3. CASE h \in up /\ Recovering(h, w) /\ h \notin ready'
      <4>1. ~BringUp'
        BY <3>3, BringUpEnds DEF Recovering
      <4>2. ASSUME h \in syncing'
            PROVE  w \in sync'[h].before
        <5>1. CASE h \in syncing /\ sync'[h] = sync[h]
          BY <3>3, <5>1 DEF Recovering
        <5>2. CASE StartSync(h)
          BY <2>1, <5>2 DEF StartSync, ReadRound, TypeOK
        <5>3. ASSUME NEW s \in Replica, AnswerSync(h, s)
              PROVE  w \in sync'[h].before
          <6>1. h \in syncing
            BY <5>3 DEF AnswerSync
          <6>2. sync'[h].before = sync[h].before
            BY <5>3, AnswersCounted
          <6>3. QED
            BY <3>3, <6>1, <6>2 DEF Recovering
        <5>4. QED
          BY <4>2, <5>1, <5>2, <5>3, JoinerMoves
      <4>3. QED
        BY <3>3, <4>1, <4>2 DEF Recovering
    <3>4. CASE h \in up /\ Recovering(h, w) /\ h \in ready'
      <4>1. h \notin ready /\ ~BringUp
        BY <3>4 DEF Recovering
      <4>2. ~SyncAlone(h)
        BY <3>4, <4>1 DEF SyncAlone, InvShape
      <4>3. ~SyncInGenesis(h)
        BY <4>1 DEF SyncInGenesis, EndSync, SyncHasGenesis, BringUp
      <4>4. SyncFromMajority(h)
        BY <3>4, <4>1, <4>2, <4>3, JoinerMoves
      <4>5. w \in sync[h].before
        BY <3>4, <4>4 DEF SyncFromMajority, EndSync, Recovering
      <4>6. Leq(op[w].update, sync[h].view)
        BY <2>1, <4>4, <4>5, MajoritySynced
      <4>7. sync[h].view \in View /\ map'[h] = Merge(map[h], sync[h].view) /\ map'[h] \in View
        BY <4>4 DEF SyncFromMajority, TypeOK, Round
      <4>8. Leq(op[w].update, map'[h])
        BY <1>2, <4>6, <4>7, MergeUpper, LeqOrder
      <4>9. QED
        BY <1>3, <4>8 DEF Holds
    <3>5. QED
      BY <2>1, <2>2, <3>1, <3>2, <3>3, <3>4 DEF InvAcked, AckedWrite
  <2>3. \A h \in Holders(w)' \cap up' : h \in Replica
    BY DEF TypeOK
  <2>4. QED
    BY <2>1, <2>2, <2>3 DEF InvAcked, AckedWrite
<1>4. CASE WriteAcked(w)
  <2>1. /\ pc[w] = "writing" /\ op' = op /\ round' = round /\ up' = up
        /\ Cardinality(round[w].heard) + 1 >= Majority
    BY <1>4 DEF WriteAcked, WriteHeld
  <2>2. Holders(w)' = Holders(w)
    BY <2>1 DEF Holders
  <2>3. round[w].heard \in SUBSET Replica /\ op[w].at \notin round[w].heard
    BY <1>2, <2>1 DEF InvShape, TypeOK, Round
  <2>4. Cardinality(Holders(w)) = Cardinality(round[w].heard) + 1
    <3>1. IsFiniteSet(round[w].heard)
      BY <2>3, ReplicaAssumption, FS_Subset
    <3>2. QED
      BY <2>3, <3>1, FS_AddElement DEF Holders
  <2>5. ASSUME NEW h \in Holders(w), h \in up
        PROVE  Holds(h, w)'
    <3>1. Holds(h, w)
      BY <2>1, <2>5 DEF InvWriting
    <3>2. QED
      BY <1>2, <2>1, <2>5, <3>1, HoldsKept
  <2>6. QED
    BY <2>1, <2>2, <2>4, <2>5
<1>5. ~ReadReturns(w)
  BY <1>2 DEF ReadReturns
<1>6. QED
  BY <1>1, <1>2, <1>3, <1>4, <1>5, CallMoves, CallPhases

LEMMA SyncingKept ==
  ASSUME TypeOK, TypeOK', InvShape, InvAcked, InvSyncing, [Next]_vars
  PROVE  InvSyncing'
<1>1. SUFFICES ASSUME NEW r \in Replica, r \in syncing', NEW w \in Op, w \in sync'[r].before,
                      AckedWrite(w)', sync'[r].ready \cap Holders(w)' # {}
               PROVE  Leq(op'[w].update, sync'[r].view)
  BY DEF InvSyncing, Meets, TypeOK, Round
<1>2. ASSUME w \in sync[r].before
      PROVE  AckedWrite(w) /\ op'[w] = op[w] /\ Holders(w)' = Holders(w)
  <2>1. w \in Ended
    BY <1>2 DEF InvShape
  <2>2. QED
    BY <1>1, <2>1, EndedStays DEF AckedWrite, Holders
<1>3. CASE r \in syncing /\ sync'[r] = sync[r]
  BY <1>1, <1>2, <1>3 DEF InvSyncing, Meets
<1>4. CASE StartSync(r)
  BY <1>1, <1>4 DEF StartSync, ReadRound, TypeOK
<1>5. ASSUME NEW s \in Replica, AnswerSync(r, s)
      PROVE  Leq(op'[w].update, sync'[r].view)
  <2>1. /\ sync'[r].before = sync[r].before
        /\ sync'[r].ready = IF s \in ready THEN sync[r].ready \cup {s} ELSE sync[r].ready
        /\ sync'[r].view = IF s \in ready THEN Merge(sync[r].view, map[s]) ELSE sync[r].view
    BY <1>5, AnswersCounted
  <2>2. AckedWrite(w) /\ op'[w] = op[w] /\ Holders(w)' = Holders(w)
    BY <1>1, <1>2, <2>1
  <2>3. op[w].update \in View /\ sync[r].view \in View /\ map[s] \in View
    BY DEF TypeOK, Call, Round
  <2>4. CASE sync[r].ready \cap Holders(w) # {}
    <3>1. Leq(op[w].update, sync[r].view)
      BY <1>1, <1>5, <2>1, <2>2, <2>4 DEF AnswerSync, InvSyncing, Meets
    <3>2. QED
      BY <2>1, <2>2, <2>3, <3>1, Kept
  <2>5. CASE s \in ready /\ s \in Holders(w)
    <3>1. Leq(op[w].update, map[s])
      BY <1>5, <2>2, <2>5 DEF AnswerSync, InvAcked, AckedWrite, Recovering, Holds
    <3>2. QED
      BY <2>1, <2>2, <2>3, <2>5, <3>1, Kept
  <2>6. QED
    BY <1>1, <2>1, <2>2, <2>4, <2>5
<1>6. QED
  BY <1>1, <1>3, <1>4, <1>5, JoinerMoves

LEMMA ReadingKept ==
  ASSUME TypeOK, TypeOK', InvShape, InvAcked, InvReading, [Next]_vars
  PROVE  InvReading'
<1>1. SUFFICES ASSUME NEW o \in Op, pc'[o] = "reading", NEW w \in Op, w \in round'[o].before,
                      AckedWrite(w)', (round'[o].ready \cup {op'[o].at}) \cap Holders(w)' # {}
               PROVE  Leq(op'[w].update, round'[o].view)
  BY DEF InvReading, Meets, TypeOK, Round
<1>2. ASSUME w \in Ended
      PROVE  AckedWrite(w) /\ op'[w] = op[w] /\ Holders(w)' = Holders(w)
  BY <1>1, <1>2, EndedStays DEF AckedWrite, Holders
<1>3. round[o].before \subseteq Ended
  BY DEF InvShape
<1>4. ASSUME NEW s \in ready, AckedWrite(w), s \in Holders(w)
      PROVE  Leq(op[w].update, map[s])
  BY <1>4 DEF InvAcked, AckedWrite, Recovering, Holds, TypeOK
<1>5. CASE pc'[o] = pc[o] /\ op'[o] = op[o] /\ round'[o] = round[o]
  BY <1>1, <1>2, <1>3, <1>5 DEF InvReading, Meets
<1>6. CASE /\ op'[o].at \in ready
           /\ round'[o] = ReadRound(op'[o].at, map[op'[o].at])
           /\ UNCHANGED <<map, ready>>
  <2>1. /\ round'[o].before = Ended /\ round'[o].ready = {}
        /\ round'[o].view = map[op'[o].at]
    BY <1>6 DEF ReadRound
  <2>2. op'[o].at \in Holders(w)
    BY <1>1, <1>2, <2>1
  <2>3. QED
    BY <1>1, <1>2, <1>4, <1>6, <2>1, <2>2
<1>7. ASSUME NEW s \in Replica, AnswerRead(o, s)
      PROVE  Leq(op'[w].update, round'[o].view)
  <2>1. /\ round'[o].before = round[o].before
        /\ round'[o].ready = IF s \in ready THEN round[o].ready \cup {s} ELSE round[o].ready
        /\ round'[o].view = IF s \in ready THEN Merge(round[o].view, map[s]) ELSE round[o].view
    BY <1>7, AnswersCounted
  <2>2. op' = op /\ pc[o] = "reading"
    BY <1>7 DEF AnswerRead
  <2>3. AckedWrite(w) /\ Holders(w)' = Holders(w) /\ w \in round[o].before
    BY <1>1, <1>2, <1>3, <2>1
  <2>4. op[w].update \in View /\ round[o].view \in View /\ map[s] \in View
    BY DEF TypeOK, Call, Round
  <2>5. CASE (round[o].ready \cup {op[o].at}) \cap Holders(w) # {}
    <3>1. Leq(op[w].update, round[o].view)
      BY <2>2, <2>3, <2>5 DEF InvReading, Meets
    <3>2. QED
      BY <2>1, <2>2, <2>4, <3>1, Kept
  <2>6. CASE s \in ready /\ s \in Holders(w)
    <3>1. Leq(op[w].update, map[s])
      BY <1>4, <2>3, <2>6
    <3>2. QED
      BY <2>1, <2>2, <2>4, <2>6, <3>1, Kept
  <2>7. QED
    BY <1>1, <2>1, <2>2, <2>3, <2>5, <2>6
<1>8. QED
  BY <1>1, <1>5, <1>6, <1>7, CallMoves, CallPhases

\* A read that is served has every write acknowledged before it began.
LEMMA ServedReadMeets ==
  ASSUME Sized, TypeOK, InvShape, InvAcked, InvReading, NEW o \in Op, pc[o] = "reading",
         ReadServed(o), NEW w \in round[o].before, AckedWrite(w)
  PROVE  Leq(op[w].update, round[o].view)
<1> DEFINE S == round[o].ready \cup {op[o].at}
<1>1. /\ round[o].ready \in SUBSET Replica /\ op[o].at \in Replica
      /\ w \in Op /\ Holders(w) \in SUBSET Replica
      /\ op[o].at \notin round[o].ready
  BY DEF TypeOK, Round, Call, Holders, AckedWrite, Op, InvShape
<1>2. Cardinality(S) = Cardinality(round[o].ready) + 1
  <2>1. IsFiniteSet(round[o].ready)
    BY <1>1, ReplicaAssumption, FS_Subset
  <2>2. QED
    BY <1>1, <2>1, FS_AddElement
<1>3. Cardinality(S) >= Majority /\ S \in SUBSET Replica
  BY <1>1, <1>2 DEF ReadServed
<1>4. Cardinality(Holders(w)) >= Majority
  BY DEF InvAcked, AckedWrite
<1> HIDE DEF S
<1>5. S \cap Holders(w) # {}
  BY <1>1, <1>3, <1>4, MajoritiesMeet
<1>6. QED
  BY <1>5 DEF S, InvReading, Meets

LEMMA ReadsKept ==
  ASSUME Sized, TypeOK, TypeOK', InvShape, InvAcked, InvReading, ReadMeetsAckedWrites, [Next]_vars
  PROVE  ReadMeetsAckedWrites'
<1>1. SUFFICES ASSUME NEW o \in Reads, pc'[o] = "acked", NEW w \in round'[o].before,
                      AckedWrite(w)'
               PROVE  Leq(op'[w].update, round'[o].view)
  BY DEF ReadMeetsAckedWrites
<1>2. o \in Op /\ round[o].before \subseteq Ended
  BY DEF Op, InvShape
<1>3. ASSUME w \in Ended
      PROVE  AckedWrite(w) /\ op'[w] = op[w]
  BY <1>1, <1>3, EndedStays DEF AckedWrite
<1>4. CASE pc'[o] = pc[o] /\ op'[o] = op[o] /\ round'[o] = round[o]
  BY <1>1, <1>2, <1>3, <1>4 DEF ReadMeetsAckedWrites
<1>5. CASE ReadReturns(o)
  <2>1. pc[o] = "reading" /\ ReadServed(o) /\ round' = round
    BY <1>5 DEF ReadReturns, ReadEnds
  <2>2. QED
    BY <1>1, <1>2, <1>3, <2>1, ServedReadMeets
<1>6. ~WriteAcked(o)
  BY DEF WriteAcked, InvShape
<1>7. QED
  BY <1>1, <1>2, <1>4, <1>5, <1>6, CallMoves, CallPhases

LEMMA ResetsKept ==
  ASSUME Sized, TypeOK, TypeOK', InvShape, InvAcked, InvReading, ResetsClimb, [Next]_vars
  PROVE  ResetsClimb'
<1>1. SUFFICES ASSUME NEW o \in Resets, pc'[o] \in {"merging", "writing", "acked"},
                      NEW w \in round'[o].before \cap Resets, pc'[w] = "acked"
               PROVE  op'[w].update.epoch < op'[o].update.epoch
  BY DEF ResetsClimb
<1>2. o \in Op /\ w \in Op /\ w \in Writes /\ round[o].before \subseteq Ended
  BY DEF Op, Writes, InvShape
<1>3. ASSUME w \in Ended
      PROVE  AckedWrite(w) /\ pc[w] = "acked" /\ op'[w] = op[w]
  BY <1>1, <1>2, <1>3, EndedStays DEF AckedWrite
<1>4. CASE /\ pc[o] \in {"merging", "writing", "acked"}
           /\ op'[o] = op[o] /\ round'[o].before = round[o].before
  BY <1>1, <1>2, <1>3, <1>4 DEF ResetsClimb
<1>5. CASE ReadThenReset(o)
  <2>1. /\ pc[o] = "reading" /\ ReadServed(o) /\ round' = round
        /\ op'[o].update.epoch = round[o].view.epoch + 1
    BY <1>2, <1>5 DEF ReadThenReset, ReadEnds, NextEpoch, Update, TypeOK, Call
  <2>2. Leq(op[w].update, round[o].view)
    BY <1>1, <1>2, <1>3, <2>1, ServedReadMeets
  <2>3. op[w].update.epoch \in Nat /\ round[o].view.epoch \in Nat
    BY <1>2 DEF TypeOK, Call, Round, View
  <2>4. QED
    BY <1>1, <1>2, <1>3, <2>1, <2>2, <2>3 DEF Leq
<1>6. QED
  BY <1>1, <1>2, <1>4, <1>5, CallMoves, CallPhases

-----------------------------------------------------------------------------
(* The theorems.                                                           *)

LEMMA InvStarts == Sized /\ Init => IInv
<1> SUFFICES ASSUME Sized, Init PROVE IInv
  OBVIOUS
<1>1. PICK b \in Replica : up = {b} /\ ready = {b} /\ genesis \subseteq {b}
  BY DEF Init
<1>2. /\ syncing = {} /\ sync = [r \in Replica |-> NoRound]
      /\ pc = [o \in Op |-> "idle"] /\ round = [o \in Op |-> NoRound]
  BY DEF Init
<1>3. \A o \in Op : pc[o] = "idle" /\ round[o].before = {}
  BY <1>2 DEF NoRound
<1>4. InvShape
  <2>1. \A r \in Replica : sync[r].before = {}
    BY <1>2 DEF NoRound
  <2>2. Reads \subseteq Op /\ Writes \subseteq Op
    BY DEF Op
  <2>3. QED
    BY <1>1, <1>2, <1>3, <2>1, <2>2 DEF InvShape
<1>5. InvSyncing
  BY <1>2 DEF InvSyncing
<1>6. Reads \subseteq Op /\ Writes \subseteq Op /\ Resets \subseteq Op
  BY DEF Op, Writes
<1>7. QED
  BY <1>3, <1>4, <1>5, <1>6
     DEF IInv, InvWriting, InvAcked, InvReading, ReadMeetsAckedWrites, ResetsClimb

\* Every step keeps the inductive invariant.
LEMMA InvStep ==
  ASSUME Sized, NoFastReplacement
  PROVE  TypeOK /\ TypeOK' /\ IInv /\ [Next]_vars => IInv'
BY ShapeKept, WritingKept, AckedKept, SyncingKept, ReadingKept, ReadsKept, ResetsKept
   DEF IInv

\* The inductive invariant: no more replicas than MERO_KMS_REPLICAS, and none
\* replaced so fast that a round or the bring-up meets both it and its
\* predecessor.
THEOREM InvHolds ==
  ASSUME Sized, NoFastReplacement
  PROVE  Spec => []IInv
BY InvStarts, InvStep, TypeCorrect, PTL DEF Spec

\* Every read meets every acknowledged write, with any number of replicas,
\* calls and losses (property ReadMeetsAckedWrites).
THEOREM ReadsMeetWrites ==
  ASSUME Sized, NoFastReplacement
  PROVE  Spec => []ReadMeetsAckedWrites
<1>1. IInv => ReadMeetsAckedWrites
  BY DEF IInv
<1>2. QED
  BY <1>1, InvHolds, PTL

\* Forced rollbacks climb, however the resets' rounds interleave with losses
\* and replacements (property ResetsClimb).
THEOREM RollbacksClimb ==
  ASSUME Sized, NoFastReplacement
  PROVE  Spec => []ResetsClimb
<1>1. IInv => ResetsClimb
  BY DEF IInv
<1>2. QED
  BY <1>1, InvHolds, PTL

\* A joiner serves only with every write acknowledged before its sync began
\* (property SyncMeetsAckedWrites).
THEOREM JoinersMeetWrites ==
  ASSUME Sized, NoFastReplacement
  PROVE  Spec => SyncMeetsAckedWrites
<1>1. ASSUME TypeOK, TypeOK', IInv, NEW r \in Replica, SyncFromMajority(r),
             NEW w \in sync[r].before, AckedWrite(w)
      PROVE  Leq(op[w].update, map'[r])
  <2>1. Leq(op[w].update, sync[r].view)
    BY <1>1, MajoritySynced DEF IInv
  <2>2. /\ w \in Op /\ op[w].update \in View /\ map[r] \in View /\ sync[r].view \in View
        /\ map'[r] \in View
    BY <1>1 DEF AckedWrite, Op, TypeOK, Call, Round
  <2>3. map'[r] = Merge(map[r], sync[r].view)
    BY <1>1 DEF SyncFromMajority, TypeOK
  <2>4. QED
    BY <2>1, <2>2, <2>3, MergeUpper, LeqOrder
<1>2. TypeOK /\ TypeOK' /\ IInv =>
        [\A r \in Replica :
           SyncFromMajority(r) =>
             \A w \in sync[r].before : AckedWrite(w) => Leq(op[w].update, map'[r])]_vars
  BY <1>1
<1>3. QED
  BY <1>2, InvHolds, TypeCorrect, PTL DEF SyncMeetsAckedWrites

-----------------------------------------------------------------------------
(* The refinement.  Views made of the calls' updates.                      *)

\* Merging takes each part from one of the two views.
LEMMA MergeFrom ==
  ASSUME NEW u \in View, NEW v \in View, NEW calls, From(u, calls), From(v, calls)
  PROVE  From(Merge(u, v), calls)
<1>1. Merge(u, v).epoch = u.epoch \/ Merge(u, v).epoch = v.epoch
  BY DEF Merge, MaxNat
<1>2. ASSUME NEW n \in Known(Merge(u, v))
      PROVE  \/ n \in Known(u) /\ Merge(u, v).nodes[n] = u.nodes[n]
             \/ n \in Known(v) /\ Merge(u, v).nodes[n] = v.nodes[n]
  <2>1. n \in Node
    BY DEF Known
  <2>2. /\ n \in Known(u) \/ n \in Known(v)
        /\ Merge(u, v).nodes[n] = MaxEntry(EntryOf(u, n), EntryOf(v, n))
    BY <2>1, MergeEntries
  <2>3. EntryOf(u, n) \in Entry /\ EntryOf(v, n) \in Entry
    BY <2>1, KnownEntries
  <2>4. CASE n \in Known(u) /\ n \in Known(v)
    BY <2>2, <2>4 DEF MaxEntry, EntryOf
  <2>5. CASE n \in Known(u) /\ n \notin Known(v)
    <3>1. EntryOf(u, n) = u.nodes[n] /\ EntryOf(v, n) = ZeroEntry
      BY <2>5 DEF EntryOf
    <3>2. EntryLeq(ZeroEntry, u.nodes[n]) /\ u.nodes[n] \in Entry /\ ZeroEntry \in Entry
      BY <2>3, <3>1, ZeroIsLeast
    <3>3. MaxEntry(u.nodes[n], ZeroEntry) = u.nodes[n]
      BY <3>2, EntryOrder DEF MaxEntry
    <3>4. QED
      BY <2>2, <2>5, <3>1, <3>3
  <2>6. CASE n \notin Known(u) /\ n \in Known(v)
    <3>1. EntryOf(v, n) = v.nodes[n] /\ EntryOf(u, n) = ZeroEntry
      BY <2>6 DEF EntryOf
    <3>2. EntryLeq(ZeroEntry, v.nodes[n])
      BY <2>3, <3>1, ZeroIsLeast
    <3>3. QED
      BY <2>2, <2>6, <3>1, <3>2 DEF MaxEntry
  <2>7. QED
    BY <2>2, <2>4, <2>5, <2>6
<1>3. QED
  BY <1>1, <1>2 DEF From

LEMMA EmptyFrom == \A calls : From(EmptyView, calls)
BY DEF From, EmptyView, Known

LEMMA UpdateFrom == \A calls : \A o \in Op : From(calls[o].update, calls)
BY DEF From

\* What was made of the calls' updates stays so: an update is set once.
LEMMA FromStays ==
  ASSUME NEW v \in View, NEW old, NEW new, From(v, old),
         \A o \in Op : new[o].update = old[o].update \/ old[o].update = EmptyView
  PROVE  From(v, new)
<1>1. v.epoch = 0 \/ \E o \in Op : v.epoch = new[o].update.epoch
  BY DEF From, EmptyView
<1>2. ASSUME NEW n \in Known(v)
      PROVE  \E o \in Op : v.nodes[n] = new[o].update.nodes[n]
  <2>1. n \in Node /\ v.nodes[n] # NoEntry
    BY DEF Known
  <2>2. PICK o \in Op : v.nodes[n] = old[o].update.nodes[n]
    BY DEF From
  <2>3. old[o].update # EmptyView
    BY <2>1, <2>2 DEF EmptyView
  <2>4. QED
    BY <2>2, <2>3
<1>3. QED
  BY <1>1, <1>2 DEF From

-----------------------------------------------------------------------------
(* Updates.                                                                *)

LEMMA UpdatesFixed ==
  ASSUME TypeOK, InvUpdates, [Next]_vars, NEW o \in Op
  PROVE  op'[o].update = op[o].update \/ op[o].update = EmptyView
<1>1. SUFFICES ASSUME CallStep(o)
               PROVE  op'[o].update = op[o].update \/ op[o].update = EmptyView
  BY CallMoves
<1>2. CASE pc[o] = "idle"
  BY <1>2 DEF InvUpdates
<1>3. CASE ReadThenReset(o)
  BY <1>3 DEF ReadThenReset, ReadEnds, InvUpdates
<1>4. CASE pc[o] # "idle" /\ ~ReadThenReset(o)
  BY <1>1, <1>4
     DEF CallStep, BeginRead, BeginRaise, BeginReset, Begin, AnswerRead, ReadRefused, ReadReturns,
         ReadThenRaise, ResetAtMaximum, StartWrite, AnswerMerge, WriteRefused, WriteAcked
<1>5. QED
  BY <1>2, <1>3, <1>4

-----------------------------------------------------------------------------
(* Nothing is invented.                                                    *)

\* The steps that change no view outside a round.
LEMMA MapMoves ==
  ASSUME TypeOK, [Next]_vars, NEW s \in Replica
  PROVE  \/ map'[s] = map[s] \/ map'[s] = EmptyView
         \/ map'[s] = Merge(map[s], sync[s].view)
         \/ \E o \in Op : \/ map'[s] = Merge(map[s], round[o].view)
                         \/ map'[s] = Merge(map[s], op[o].update)
         \/ \E m \in net : m.type = "merge" /\ map'[s] = Merge(map[s], m.counters)
<1> DEFINE Goal ==
      \/ map'[s] = map[s] \/ map'[s] = EmptyView
      \/ map'[s] = Merge(map[s], sync[s].view)
      \/ \E o \in Op : \/ map'[s] = Merge(map[s], round[o].view)
                      \/ map'[s] = Merge(map[s], op[o].update)
      \/ \E m \in net : m.type = "merge" /\ map'[s] = Merge(map[s], m.counters)
<1>1. CASE UNCHANGED vars
  BY <1>1 DEF vars
<1>2. ASSUME NEW r \in Replica, ReplicaStep(r)
      PROVE  Goal
  <2>1. CASE Crash(r) \/ SyncFromMajority(r) \/ LateMerge(r)
    BY <2>1 DEF Crash, SyncFromMajority, LateMerge, TypeOK
  <2>2. CASE ~(Crash(r) \/ SyncFromMajority(r) \/ LateMerge(r))
    <3>1. map' = map
      BY <1>2, <2>2
         DEF ReplicaStep, BeginSync, Join, GenesisExpires, SyncAlone, StartSync, AnswerSync, EndSync,
             SyncInGenesis, SyncAgain, LateRead
    <3>2. QED
      BY <3>1
  <2>3. QED
    BY <2>1, <2>2
<1>3. ASSUME NEW o \in Op, CallStep(o)
      PROVE  Goal
  <2>1. CASE KeepView(o)
    BY <2>1 DEF KeepView, TypeOK
  <2>2. CASE StartWrite(o)
    BY <2>2 DEF StartWrite, TypeOK
  <2>3. ASSUME NEW q \in Replica, AnswerMerge(o, q)
        PROVE  Goal
    BY <2>3 DEF AnswerMerge, TypeOK
  <2>4. CASE map' = map
    BY <2>4
  <2>5. QED
    BY <1>3, <2>1, <2>2, <2>3, <2>4
       DEF CallStep, BeginRead, BeginRaise, BeginReset, Begin, AnswerRead, ReadRefused, ReadReturns,
           ReadThenRaise, ReadThenReset, ResetAtMaximum, WriteRefused, WriteAcked
<1>4. QED
  BY <1>1, <1>2, <1>3 DEF Next

LEMMA SyncMoves ==
  ASSUME TypeOK, [Next]_vars, NEW r \in Replica
  PROVE  \/ sync'[r].view = sync[r].view \/ sync'[r].view = EmptyView
         \/ \E s \in Replica : sync'[r].view = Merge(sync[r].view, map[s])
<1>1. CASE sync'[r] = sync[r] \/ sync'[r] = NoRound
  BY <1>1 DEF NoRound
<1>2. CASE StartSync(r)
  BY <1>2, StartRounds, ViewTypes DEF StartSync, TypeOK
<1>3. ASSUME NEW s \in Replica, AnswerSync(r, s)
      PROVE  sync'[r].view = sync[r].view \/ sync'[r].view = Merge(sync[r].view, map[s])
  BY <1>3, AnswersCounted
<1>4. QED
  BY <1>1, <1>2, <1>3, JoinerMoves

\* The view in a call's round, and where it is known to hold the call's update.
LEMMA RoundMoves ==
  ASSUME TypeOK, [Next]_vars, NEW o \in Op
  PROVE  \/ round'[o].view = round[o].view \/ round'[o].view = EmptyView
         \/ \E s \in Replica :
              \/ round'[o].view = map[s]
              \/ round'[o].view = Merge(round[o].view, map[s])
              \/ round'[o].view = Merge(map[s], op[o].update)
              \/ round'[o].view = Merge(round[o].view, Merge(map[s], op[o].update))
<1>1. CASE round'[o] = round[o] \/ round'[o] = NoRound
  BY <1>1 DEF NoRound
<1>2. CASE CallStep(o) /\ pc'[o] = "reading"
  <2>1. CASE \E s \in Replica : AnswerRead(o, s)
    BY <2>1, AnswersCounted
  <2>2. CASE op'[o].at \in ready /\ round'[o] = ReadRound(op'[o].at, map[op'[o].at])
    <3>1. op'[o].at \in Replica
      BY <2>2 DEF TypeOK
    <3>2. QED
      BY <2>2, <3>1, StartRounds DEF TypeOK
  <2>3. QED
    BY <1>2, <2>1, <2>2, CallPhases
<1>3. ASSUME NEW r \in Replica, NEW p, NEW call, Begin(o, r, p, call)
      PROVE  round'[o].view = map[r]
  BY <1>3, StartRounds DEF Begin, TypeOK
<1>4. CASE StartWrite(o)
  <2>1. op[o].at \in Replica /\ op[o].update \in View /\ round[o].before \in SUBSET Op
    BY DEF TypeOK, Call, Round
  <2>2. Merge(map[op[o].at], op[o].update) \in View
    BY <2>1, MergeType DEF TypeOK
  <2>3. round'[o] = [NoRound EXCEPT !.view = Merge(map[op[o].at], op[o].update),
                                    !.before = round[o].before]
    BY <1>4 DEF StartWrite, TypeOK
  <2>4. round'[o].view = Merge(map[op[o].at], op[o].update)
    BY <2>1, <2>2, <2>3, WriteRound
  <2>5. QED
    BY <2>1, <2>4
<1>5. ASSUME NEW s \in Replica, AnswerMerge(o, s)
      PROVE  round'[o].view = Merge(round[o].view, Merge(map[s], op[o].update))
  BY <1>5, AnswersCounted
<1>6. CASE Fail(o)
  BY <1>6 DEF Fail, TypeOK, NoRound
<1>7. CASE CallStep(o) /\ round' # round
  BY <1>2, <1>3, <1>4, <1>5, <1>6, <1>7
     DEF CallStep, BeginRead, BeginRaise, BeginReset, AnswerRead, ReadRefused, ReadReturns,
         ReadThenRaise, ReadThenReset, ResetAtMaximum, WriteRefused, WriteAcked
<1>8. QED
  BY <1>1, <1>7, CallMoves

LEMMA NetMoves ==
  ASSUME TypeOK, [Next]_vars, NEW m \in net', m.type = "merge"
  PROVE  m \in net \/ \E o \in Op : m.counters = op[o].update
<1>1. ASSUME NEW r \in Replica, SendRead(r)
      PROVE  m \in net
  BY <1>1 DEF SendRead
<1>2. CASE UNCHANGED net
  BY <1>2
<1>3. ASSUME NEW o \in Op, StartWrite(o)
      PROVE  m \in net \/ m.counters = op[o].update
  BY <1>3 DEF StartWrite
<1>4. ASSUME NEW r \in Replica, ReplicaStep(r)
      PROVE  m \in net
  BY <1>1, <1>2, <1>4
     DEF ReplicaStep, BeginSync, Join, Crash, GenesisExpires, SyncAlone, StartSync, AnswerSync,
         EndSync, SyncFromMajority, SyncInGenesis, SyncAgain, LateRead, LateMerge
<1>5. ASSUME NEW o \in Op, CallStep(o)
      PROVE  m \in net \/ m.counters = op[o].update
  BY <1>1, <1>2, <1>3, <1>5
     DEF CallStep, BeginRead, BeginRaise, BeginReset, AnswerRead, ReadEnds, ReadRefused,
         ReadReturns, ReadThenRaise, ReadThenReset, ResetAtMaximum, AnswerMerge, WriteRefused,
         WriteAcked
<1>6. CASE UNCHANGED vars
  BY <1>6 DEF vars
<1>7. QED
  BY <1>4, <1>5, <1>6 DEF Next

LEMMA FromKept ==
  ASSUME TypeOK, TypeOK', InvUpdates, InvFrom, [Next]_vars
  PROVE  InvFrom'
<1> DEFINE Made(v) == v \in View /\ From(v, op')
<1>1. \A v \in View : From(v, op) => Made(v)
  BY FromStays, UpdatesFixed
<1>2. Made(EmptyView) /\ \A u, v : Made(u) /\ Made(v) => Made(Merge(u, v))
  BY ViewTypes, EmptyFrom, MergeFrom, MergeType
<1>3. /\ \A r \in Replica : Made(map[r]) /\ Made(sync[r].view)
      /\ \A o \in Op : Made(round[o].view) /\ Made(op[o].update)
      /\ \A m \in net : m.type = "merge" => Made(m.counters)
  <2>1. /\ \A r \in Replica : map[r] \in View /\ sync[r].view \in View
        /\ \A o \in Op : round[o].view \in View /\ op[o].update \in View
        /\ \A m \in net : m.type = "merge" => m.counters \in View
    BY DEF TypeOK, Round, Call, Request
  <2> HIDE DEF Made
  <2>2. QED
    BY <1>1, <2>1, UpdateFrom DEF InvFrom
<1>4. SUFFICES /\ \A r \in Replica : Made(map'[r]) /\ Made(sync'[r].view)
               /\ \A o \in Op : Made(round'[o].view)
               /\ \A m \in net' : m.type = "merge" => Made(m.counters)
  BY DEF InvFrom
<1> HIDE DEF Made
<1>5. QED
  BY <1>2, <1>3, MapMoves, SyncMoves, RoundMoves, NetMoves

\* An update names a node.
LEMMA UpdateKnown ==
  ASSUME NEW x \in Nat, NEW n \in Node, NEW e \in Entry
  PROVE  n \in Known(Update(x, n, e)) /\ Update(x, n, e) # EmptyView
<1>1. n \in Known(Update(x, n, e))
  BY NoEntryAssumption DEF Known, Update
<1>2. QED
  BY <1>1 DEF Known, EmptyView

\* What a call begins with.
LEMMA Begins ==
  ASSUME TypeOK, NEW o \in Op, CallStep(o), pc[o] = "idle"
  PROVE  \E r \in Replica, p \in {"reading", "merging"}, call \in Call :
           /\ Begin(o, r, p, call)
           /\ \/ o \in Reads /\ p = "reading" /\ call.update = EmptyView
              \/ o \in Resets /\ p = "reading" /\ call.update = EmptyView /\ call.mark \in Mark
              \/ /\ o \in Raises
                 /\ \E n \in Node, m \in Mark : \E g \in Told(n) :
                      call.update = Update(0, n, [generation |-> g, mark |-> m])
<1> DEFINE Goal ==
      \E r \in Replica, p \in {"reading", "merging"}, call \in Call :
        /\ Begin(o, r, p, call)
        /\ \/ o \in Reads /\ p = "reading" /\ call.update = EmptyView
           \/ o \in Resets /\ p = "reading" /\ call.update = EmptyView /\ call.mark \in Mark
           \/ /\ o \in Raises
              /\ \E n \in Node, m \in Mark : \E g \in Told(n) :
                   call.update = Update(0, n, [generation |-> g, mark |-> m])
<1>1. ASSUME NEW r \in Replica, NEW n \in Node, BeginRead(o, r, n)
      PROVE  Goal
  <2>1. ReadCall(r, n) \in Call /\ ReadCall(r, n).update = EmptyView
    BY ViewTypes DEF ReadCall, Call
  <2>2. QED
    BY <1>1, <2>1 DEF BeginRead
<1>2. ASSUME NEW r \in Replica, NEW n \in Node, NEW m \in Mark, BeginRaise(o, r, n, m)
      PROVE  Goal
  <2>1. PICK g \in Told(n) :
          LET call == [at |-> r, node |-> n, mark |-> m,
                       update |-> Update(0, n, [generation |-> g, mark |-> m])]
          IN  Begin(o, r, "merging", call) \/ Begin(o, r, "reading", call)
    BY <1>2 DEF BeginRaise
  <2> DEFINE u == Update(0, n, [generation |-> g, mark |-> m])
             call == [at |-> r, node |-> n, mark |-> m, update |-> u]
  <2>2. g \in Nat
    BY KnownEntries DEF Told, GenerationOf, TypeOK, Round, Entry, Known
  <2>3. u \in View
    BY <2>2, ViewTypes, BoundAssumption DEF Entry
  <2>4. o \in Raises /\ (Begin(o, r, "merging", call) \/ Begin(o, r, "reading", call))
    BY <1>2, <2>1 DEF BeginRaise
  <2>5. u = Update(0, n, [generation |-> g, mark |-> m])
    OBVIOUS
  <2> HIDE DEF u
  <2>6. call \in Call /\ call.update = u
    BY <2>3, BoundAssumption DEF Call
  <2> HIDE DEF call
  <2>7. QED
    BY <2>4, <2>5, <2>6
<1>3. ASSUME NEW r \in Replica, NEW n \in Node, NEW m \in Mark, BeginReset(o, r, n, m)
      PROVE  Goal
  <2> DEFINE call == [at |-> r, node |-> n, mark |-> m, update |-> EmptyView]
  <2>1. call \in Call /\ call.update = EmptyView /\ call.mark \in Mark
    BY ViewTypes, BoundAssumption DEF Call
  <2>2. o \in Resets /\ Begin(o, r, "reading", call)
    BY <1>3 DEF BeginReset
  <2> HIDE DEF call
  <2>3. QED
    BY <2>1, <2>2
<1>4. QED
  BY <1>1, <1>2, <1>3
     DEF CallStep, AnswerRead, ReadEnds, ReadRefused, ReadReturns, ReadThenRaise, ReadThenReset,
         ResetAtMaximum, StartWrite, AnswerMerge, WriteRefused, WriteAcked

LEMMA UpdatesKept ==
  ASSUME TypeOK, TypeOK', InvShape, InvUpdates, [Next]_vars
  PROVE  InvUpdates'
<1> DEFINE Fixed(o, p, call, rd) ==
      /\ p = "idle" \/ o \in Reads \/ (o \in Resets /\ p = "reading") => call.update = EmptyView
      /\ o \in Raises /\ p = "reading" => Known(call.update) # {}
      /\ p \in {"merging", "writing"} => Known(call.update) # {}
      /\ p = "writing" => Leq(call.update, rd.view)
      /\ o \in Resets /\ p = "reading" => call.mark \in Mark
<1>1. SUFFICES ASSUME NEW o \in Op PROVE Fixed(o, pc'[o], op'[o], round'[o])
  BY DEF InvUpdates
<1>2. Fixed(o, pc[o], op[o], round[o])
  BY DEF InvUpdates
<1>3. /\ op[o].update \in View /\ op[o].at \in Replica /\ round[o].view \in View
      /\ \A s \in Replica : map[s] \in View
  BY DEF TypeOK, Call, Round
<1>4. CASE pc'[o] \in {"acked", "failed"} /\ op'[o] = op[o]
  BY <1>2, <1>4
<1>5. CASE CallStep(o) /\ pc[o] = "idle"
  <2>1. PICK r \in Replica, p \in {"reading", "merging"}, call \in Call :
          /\ Begin(o, r, p, call)
          /\ \/ o \in Reads /\ p = "reading" /\ call.update = EmptyView
             \/ o \in Resets /\ p = "reading" /\ call.update = EmptyView /\ call.mark \in Mark
             \/ /\ o \in Raises
                /\ \E n \in Node, m \in Mark : \E g \in Told(n) :
                     call.update = Update(0, n, [generation |-> g, mark |-> m])
    BY <1>5, Begins
  <2>2. pc'[o] = p /\ op'[o] = call
    BY <2>1 DEF Begin, TypeOK
  <2>3. CASE o \in Reads \cup Resets
    BY <2>1, <2>2, <2>3, OpAssumption DEF Writes
  <2>4. CASE o \in Raises
    <3>1. PICK n \in Node, m \in Mark : \E g \in Told(n) :
            call.update = Update(0, n, [generation |-> g, mark |-> m])
      BY <2>1, <2>4, OpAssumption DEF Writes
    <3>2. PICK g \in Told(n) : call.update = Update(0, n, [generation |-> g, mark |-> m])
      BY <3>1
    <3>3. g \in Nat /\ m \in Nat
      BY KnownEntries, BoundAssumption DEF Told, GenerationOf, TypeOK, Round, Entry, Known
    <3>4. Known(call.update) # {}
      BY <3>2, <3>3, UpdateKnown DEF Entry
    <3>5. QED
      BY <2>2, <2>4, <3>4, OpAssumption DEF Writes
  <2>5. QED
    BY <2>3, <2>4 DEF Op, Writes
<1>6. CASE ReadThenRaise(o)
  BY <1>2, <1>6, OpAssumption DEF ReadThenRaise, ReadEnds, TypeOK, Writes
<1>7. CASE ReadThenReset(o)
  <2>1. /\ op[o] \in Call /\ round[o].view.epoch + 1 \in Nat
        /\ op[o].mark \in Nat /\ op[o].node \in Node
    BY DEF TypeOK, Call, Round, View
  <2> DEFINE epoch == round[o].view.epoch + 1
             u == Update(epoch, op[o].node, [generation |-> epoch, mark |-> op[o].mark])
  <2>2. Known(u) # {}
    BY <2>1, UpdateKnown DEF Entry
  <2>3. pc'[o] = "merging" /\ o \in Resets /\ op'[o] = [op[o] EXCEPT !.update = u]
    BY <1>7 DEF ReadThenReset, NextEpoch, TypeOK
  <2> HIDE DEF u
  <2>4. op'[o].update = u
    BY <2>1, <2>3 DEF Call
  <2>5. QED
    BY <2>2, <2>3, <2>4, OpAssumption DEF Writes
<1>8. CASE StartWrite(o)
  <2>1. pc[o] = "merging" /\ pc'[o] = "writing" /\ op'[o] = op[o]
    BY <1>8 DEF StartWrite, TypeOK
  <2>2. round'[o].view = Merge(map[op[o].at], op[o].update)
    <3>1. round'[o] = [NoRound EXCEPT !.view = Merge(map[op[o].at], op[o].update),
                                      !.before = round[o].before]
      BY <1>8 DEF StartWrite, TypeOK
    <3>2. Merge(map[op[o].at], op[o].update) \in View /\ round[o].before \in SUBSET Op
      BY <1>3, MergeType DEF TypeOK, Round
    <3>3. QED
      BY <3>1, <3>2, WriteRound
  <2>3. o \notin Reads
    BY <2>1 DEF InvShape
  <2>4. Leq(op[o].update, round'[o].view)
    BY <1>3, <2>2, MergeUpper
  <2>5. QED
    BY <1>2, <2>1, <2>3, <2>4
<1>9. ASSUME NEW s \in Replica, AnswerRead(o, s)
      PROVE  Fixed(o, pc'[o], op'[o], round'[o])
  BY <1>2, <1>9 DEF AnswerRead
<1>10. ASSUME NEW s \in Replica, AnswerMerge(o, s)
       PROVE  Fixed(o, pc'[o], op'[o], round'[o])
  <2>1. pc[o] = "writing" /\ pc'[o] = pc[o] /\ op'[o] = op[o]
    BY <1>10 DEF AnswerMerge
  <2>2. round'[o].view = Merge(round[o].view, Merge(map[s], op[o].update))
    BY <1>10, AnswersCounted
  <2>3. Leq(op[o].update, round'[o].view)
    BY <1>2, <1>3, <2>1, <2>2, MergeType, Kept
  <2>4. QED
    BY <1>2, <2>1, <2>3
<1>11. ASSUME CallStep(o), pc[o] # "idle", ~(pc'[o] \in {"acked", "failed"} /\ op'[o] = op[o])
       PROVE  \/ ReadThenRaise(o) \/ ReadThenReset(o) \/ StartWrite(o)
              \/ \E s \in Replica : AnswerRead(o, s) \/ AnswerMerge(o, s)
  BY <1>11
     DEF CallStep, BeginRead, BeginRaise, BeginReset, Begin, ReadRefused, ReadReturns,
         ResetAtMaximum, WriteRefused, WriteAcked, Fail, TypeOK
<1> HIDE DEF Fixed
<1>12. CASE CallStep(o)
  BY <1>4, <1>5, <1>6, <1>7, <1>8, <1>9, <1>10, <1>11, <1>12
<1>13. QED
  BY <1>2, <1>4, <1>12, CallMoves

-----------------------------------------------------------------------------
(* The steps.                                                              *)

LEMMA SameCalls == R!Calls = Op
BY DEF R!Calls, Op, Writes

\* The register's views are the replicas'.
LEMMA SameViews ==
  /\ R!EmptyView = EmptyView
  /\ \A x, n, e : R!Update(x, n, e) = Update(x, n, e)
  /\ \A v : R!Known(v) = Known(v)
  /\ \A v, n : R!GenerationOf(v, n) = GenerationOf(v, n)
  /\ \A u, v : R!Leq(u, v) <=> Leq(u, v)
<1>1. R!EmptyView = EmptyView
  BY DEF R!EmptyView, EmptyView
<1>2. \A x, n, e : R!Update(x, n, e) = Update(x, n, e)
  BY DEF R!Update, Update
<1>3. \A v : R!Known(v) = Known(v)
  BY DEF R!Known, Known
<1>4. \A v, n : R!GenerationOf(v, n) = GenerationOf(v, n)
  BY <1>3 DEF R!GenerationOf, GenerationOf
<1>5. \A a, b : R!EntryLeq(a, b) <=> EntryLeq(a, b)
  BY DEF R!EntryLeq, EntryLeq
<1>6. \A u, v : R!Leq(u, v) <=> Leq(u, v)
  BY <1>3, <1>5 DEF R!Leq, Leq
<1>7. QED
  BY <1>1, <1>2, <1>3, <1>4, <1>6

LEMMA BeginRefines ==
  ASSUME TypeOK, TypeOK', NEW o \in Op, CallStep(o), pc[o] = "idle"
  PROVE  R!Begin(o)
<1>1. PICK r \in Replica, p \in {"reading", "merging"}, call \in Call :
        /\ Begin(o, r, p, call)
        /\ \/ o \in Reads /\ p = "reading" /\ call.update = EmptyView
           \/ o \in Resets /\ p = "reading" /\ call.update = EmptyView /\ call.mark \in Mark
           \/ /\ o \in Raises
              /\ \E n \in Node, m \in Mark : \E g \in Told(n) :
                   call.update = Update(0, n, [generation |-> g, mark |-> m])
  BY Begins
<1>2. /\ pc' = [pc EXCEPT ![o] = p] /\ op' = [op EXCEPT ![o] = call]
      /\ round' = [round EXCEPT ![o] = ReadRound(r, map[r])]
  BY <1>1 DEF Begin
<1>3. ReadRound(r, map[r]).before = Ended
  BY StartRounds DEF TypeOK
<1>4. \A q \in Op : PhaseOf(pc[q]) \in {"acked", "failed"} <=> pc[q] \in {"acked", "failed"}
  BY DEF PhaseOf, Running
<1>5. call.update \in IF o \in Raises THEN R!RaiseOf(o) ELSE {EmptyView}
  <2>1. CASE o \in Raises
    <3>1. PICK n \in Node, m \in Mark : \E g \in Told(n) :
            call.update = Update(0, n, [generation |-> g, mark |-> m])
      BY <1>1, <2>1, OpAssumption DEF Writes
    <3>2. PICK g \in Told(n) : call.update = Update(0, n, [generation |-> g, mark |-> m])
      BY <3>1
    <3>3. g = 0 \/ \E d \in Op : pc[d] = "acked" /\ g = GenerationOf(round[d].view, n)
      BY DEF Told
    <3>4. \A d \in Op : pc[d] = "acked" => d \in R!Calls /\ R!Acked(d)
      BY SameCalls DEF R!Acked, PhaseOf, Running
    <3> DEFINE res == [q \in Op |-> IF pc[q] = "acked" THEN round[q].view ELSE EmptyView]
               gens == {0} \cup {R!GenerationOf(res[d], k) :
                                  d \in {e \in R!Calls : R!Acked(e)}, k \in Node}
    <3>5. g \in gens
      <4>1. CASE g = 0
        BY <4>1
      <4>2. ASSUME NEW d \in Op, pc[d] = "acked", g = GenerationOf(round[d].view, n)
            PROVE  g \in gens
        <5>1. g = R!GenerationOf(res[d], n)
          BY <4>2, SameViews
        <5>2. d \in {e \in R!Calls : R!Acked(e)}
          BY <3>4, <4>2
        <5> HIDE DEF res
        <5>3. QED
          BY <5>1, <5>2
      <4>3. QED
        BY <3>3, <4>1, <4>2
    <3>6. R!RaiseOf(o) = {R!Update(0, k, [generation |-> h, mark |-> l]) :
                            k \in Node, l \in Mark, h \in gens}
      BY DEF R!RaiseOf
    <3> HIDE DEF gens
    <3>7. R!Update(0, n, [generation |-> g, mark |-> m]) \in R!RaiseOf(o)
      BY <3>5, <3>6
    <3>8. QED
      BY <2>1, <3>2, <3>7, SameViews
  <2>2. CASE o \notin Raises
    BY <1>1, <2>2
  <2>3. QED
    BY <2>1, <2>2
<1>6. [q \in Op |-> PhaseOf(pc[q])]' = [[q \in Op |-> PhaseOf(pc[q])] EXCEPT ![o] = "running"]
  BY <1>2 DEF PhaseOf, Running, TypeOK
<1>7. [q \in Op |-> round[q].before]' = [[q \in Op |-> round[q].before] EXCEPT ![o] = Ended]
  BY <1>2, <1>3 DEF TypeOK
<1>8. [q \in Op |-> op[q].update]' = [[q \in Op |-> op[q].update] EXCEPT ![o] = call.update]
  BY <1>2 DEF TypeOK
<1>9. UNCHANGED [q \in Op |-> IF pc[q] = "acked" THEN round[q].view ELSE EmptyView]
  BY <1>2 DEF TypeOK
<1>10. Ended = {d \in R!Calls : [q \in Op |-> PhaseOf(pc[q])][d] \in {"acked", "failed"}}
  BY <1>4, SameCalls DEF Ended
<1>11. [q \in Op |-> PhaseOf(pc[q])][o] = "idle"
  BY DEF PhaseOf, Running
<1>12. QED
  BY <1>5, <1>6, <1>7, <1>8, <1>9, <1>10, <1>11, SameViews DEF R!Begin

\* Calls that fail together, whether their replica was lost or refused one.
LEMMA FailRefines ==
  ASSUME TypeOK, NEW S \in SUBSET Op, S # {}, \A o \in S : pc[o] \in Running,
         op' = op, pc' = [o \in Op |-> IF o \in S THEN "failed" ELSE pc[o]],
         round' = [o \in Op |-> IF o \in S THEN NoRound ELSE round[o]]
  PROVE  R!Fail(S)
<1>1. [o \in Op |-> PhaseOf(pc[o])]' =
        [o \in R!Calls |-> IF o \in S THEN "failed" ELSE [q \in Op |-> PhaseOf(pc[q])][o]]
  BY SameCalls DEF PhaseOf, Running
<1>2. [o \in Op |-> round[o].before]' =
        [o \in R!Calls |-> IF o \in S THEN {} ELSE [q \in Op |-> round[q].before][o]]
  BY SameCalls DEF NoRound
<1>3. UNCHANGED [o \in Op |-> IF pc[o] = "acked" THEN round[o].view ELSE EmptyView]
  BY DEF Running
<1>4. \A o \in S : [q \in Op |-> PhaseOf(pc[q])][o] = "running"
  BY DEF PhaseOf
<1>5. UNCHANGED [o \in Op |-> op[o].update]
  OBVIOUS
<1>6. QED
  BY <1>1, <1>2, <1>3, <1>4, <1>5 DEF R!Fail

LEMMA StepsInside ==
  ASSUME \A o \in Op :
           /\ PhaseOf(pc'[o]) = PhaseOf(pc[o])
           /\ op'[o].update = op[o].update
           /\ round'[o].before = round[o].before
           /\ pc[o] = "acked" \/ pc'[o] = "acked" =>
                pc'[o] = pc[o] /\ round'[o].view = round[o].view
  PROVE  UNCHANGED R!vars
<1>1. UNCHANGED [o \in Op |-> PhaseOf(pc[o])]
  OBVIOUS
<1>2. UNCHANGED [o \in Op |-> op[o].update]
  OBVIOUS
<1>3. UNCHANGED [o \in Op |-> round[o].before]
  OBVIOUS
<1>4. UNCHANGED [o \in Op |-> IF pc[o] = "acked" THEN round[o].view ELSE EmptyView]
  OBVIOUS
<1>5. QED
  BY <1>1, <1>2, <1>3, <1>4 DEF R!vars

LEMMA FromComposed ==
  ASSUME NEW v \in View, From(v, op)
  PROVE  v \in R!Composed
<1> DEFINE upd == [o \in Op |-> op[o].update]
<1>1. v.epoch \in {0} \cup {upd[c].epoch : c \in R!Calls}
  BY SameCalls DEF From
<1>2. \A n \in Node : R!Parts(n) = {NoEntry} \cup {upd[c].nodes[n] : c \in R!Calls}
  BY DEF R!Parts
<1>3. ASSUME NEW n \in Node
      PROVE  v.nodes[n] \in R!Parts(n)
  <2>1. v.nodes[n] = NoEntry \/ \E o \in Op : v.nodes[n] = op[o].update.nodes[n]
    BY DEF From, Known
  <2>2. QED
    BY <1>2, <2>1, SameCalls
<1>4. v.nodes \in [Node -> UNION {R!Parts(n) : n \in Node}]
  <2>1. v.nodes = [n \in Node |-> v.nodes[n]]
    BY DEF View
  <2>2. \A n \in Node : v.nodes[n] \in UNION {R!Parts(k) : k \in Node}
    BY <1>3
  <2>3. QED
    BY <2>1, <2>2
<1>5. v = [epoch |-> v.epoch, nodes |-> v.nodes]
  BY DEF View
<1>6. R!Composed =
        [epoch : {0} \cup {upd[c].epoch : c \in R!Calls},
         nodes : {f \in [Node -> UNION {R!Parts(n) : n \in Node}] :
                    \A n \in Node : f[n] \in R!Parts(n)}]
  BY DEF R!Composed
<1> HIDE DEF upd
<1>7. QED
  BY <1>1, <1>3, <1>4, <1>5, <1>6

LEMMA AckRefines ==
  ASSUME TypeOK, ReadMeetsAckedWrites', InvFrom, InvUpdates, NEW o \in Op,
         ReadReturns(o) \/ WriteAcked(o), InvShape
  PROVE  R!Ack(o)
<1>1. /\ pc[o] \in Running /\ pc' = [pc EXCEPT ![o] = "acked"]
      /\ op' = op /\ round' = round
      /\ ReadReturns(o) => o \in Reads
      /\ WriteAcked(o) => pc[o] = "writing"
  BY DEF ReadReturns, ReadEnds, WriteAcked, Running
<1> DEFINE ph == [q \in Op |-> PhaseOf(pc[q])]
           upd == [q \in Op |-> op[q].update]
           res == [q \in Op |-> IF pc[q] = "acked" THEN round[q].view ELSE EmptyView]
           sin == [q \in Op |-> round[q].before]
           v == round[o].view
<1>2. ph[o] = "running" /\ ph' = [ph EXCEPT ![o] = "acked"]
  BY <1>1 DEF PhaseOf, Running, TypeOK
<1>3. res' = [res EXCEPT ![o] = v]
  BY <1>1 DEF TypeOK
<1>4. UNCHANGED <<upd, sin>>
  BY <1>1
<1>5. v \in View /\ From(v, op)
  BY DEF TypeOK, Round, InvFrom
<1>6. v \in R!Composed
  BY <1>5, FromComposed
<1>7. ASSUME o \in Reads, NEW w \in sin[o] \ Reads, R!Acked(w)
      PROVE  R!Leq(upd[w], v)
  <2>1. w \in round[o].before /\ w \in Op /\ w \in Writes
    BY <1>7 DEF TypeOK, Round, Op
  <2>2. pc[w] = "acked"
    BY <1>7, <2>1 DEF R!Acked, PhaseOf
  <2>3. pc'[o] = "acked" /\ pc'[w] = "acked"
    BY <1>1, <2>1, <2>2 DEF TypeOK
  <2>4. Leq(op[w].update, v)
    BY <1>1, <1>7, <2>1, <2>3 DEF ReadMeetsAckedWrites, AckedWrite
  <2>5. QED
    BY <2>1, <2>4, SameViews
<1>8. ASSUME o \notin Reads
      PROVE  R!Known(upd[o]) # {} /\ R!Leq(upd[o], v)
  <2>1. pc[o] = "writing"
    BY <1>1, <1>8
  <2>2. Known(op[o].update) # {} /\ Leq(op[o].update, v)
    BY <2>1 DEF InvUpdates
  <2>3. QED
    BY <2>2, SameViews
<1>9. QED
  BY <1>2, <1>3, <1>4, <1>6, <1>7, <1>8 DEF R!Ack

LEMMA ResetRefines ==
  ASSUME TypeOK, ResetsClimb', InvUpdates, InvShape, NEW o \in Op, ReadThenReset(o)
  PROVE  R!Reset(o)
<1> DEFINE ph == [q \in Op |-> PhaseOf(pc[q])]
           upd == [q \in Op |-> op[q].update]
           res == [q \in Op |-> IF pc[q] = "acked" THEN round[q].view ELSE EmptyView]
           sin == [q \in Op |-> round[q].before]
           epoch == round[o].view.epoch + 1
           u == Update(epoch, op[o].node, [generation |-> epoch, mark |-> op[o].mark])
<1>1. /\ pc[o] = "reading" /\ o \in Resets /\ epoch <= MaxU64 /\ round' = round
      /\ pc' = [pc EXCEPT ![o] = "merging"] /\ op' = [op EXCEPT ![o].update = u]
  BY DEF ReadThenReset, ReadEnds, NextEpoch
<1>2. epoch \in 1..MaxU64 /\ op[o].node \in Node /\ op[o].mark \in Mark
  BY <1>1, BoundAssumption DEF TypeOK, Round, View, Call, InvUpdates
<1>3. upd[o] = EmptyView
  BY <1>1 DEF InvUpdates
<1>4. ph[o] = "running" /\ UNCHANGED <<ph, res, sin>>
  BY <1>1 DEF PhaseOf, Running, TypeOK
<1>5. upd' = [upd EXCEPT ![o] = u] /\ op'[o].update = u
  <2>1. op[o] \in Call
    BY DEF TypeOK
  <2> HIDE DEF u
  <2>2. QED
    BY <1>1, <2>1 DEF TypeOK, Call
<1>6. ASSUME NEW w \in sin[o] \cap Resets, R!Acked(w)
      PROVE  upd[w].epoch < epoch
  <2>1. w \in round[o].before /\ w \in Op
    BY DEF TypeOK, Round
  <2>2. pc[w] = "acked" /\ w # o
    BY <1>1, <1>6, <2>1 DEF R!Acked, PhaseOf
  <2>3. pc'[o] = "merging" /\ pc'[w] = "acked" /\ op'[w] = op[w]
    BY <1>1, <2>1, <2>2 DEF TypeOK
  <2>4. op'[w].update.epoch < op'[o].update.epoch
    BY <1>1, <1>6, <2>1, <2>3 DEF ResetsClimb
  <2>5. op'[o].update.epoch = epoch
    BY <1>5 DEF Update
  <2>6. QED
    BY <2>1, <2>3, <2>4, <2>5
<1>7. R!Update(epoch, op[o].node, [generation |-> epoch, mark |-> op[o].mark]) = u
  BY SameViews
<1> HIDE DEF u, epoch
<1>8. \E e \in 1..MaxU64, n \in Node, m \in Mark :
        /\ \A w \in sin[o] \cap Resets : R!Acked(w) => upd[w].epoch < e
        /\ upd' = [upd EXCEPT ![o] = R!Update(e, n, [generation |-> e, mark |-> m])]
  <2> HIDE DEF upd, sin
  <2>1. upd' = [upd EXCEPT ![o] =
                  R!Update(epoch, op[o].node, [generation |-> epoch, mark |-> op[o].mark])]
    BY <1>5, <1>7
  <2>2. QED
    BY <1>2, <1>6, <2>1
<1>9. QED
  BY <1>1, <1>3, <1>4, <1>8, SameViews DEF R!Reset

LEMMA ReplicaRefines ==
  ASSUME TypeOK, NEW r \in Replica, ReplicaStep(r)
  PROVE  [R!Next]_(R!vars)
<1>1. CASE Crash(r)
  <2> DEFINE lost == {o \in Op : pc[o] \in Running /\ op[o].at = r}
  <2>1. /\ pc' = [o \in Op |-> IF o \in lost THEN "failed" ELSE pc[o]]
        /\ round' = [o \in Op |-> IF o \in lost THEN NoRound ELSE round[o]]
        /\ op' = op
    BY <1>1 DEF Crash
  <2>2. CASE lost = {}
    <3>1. \A o \in Op : pc'[o] = pc[o] /\ op'[o] = op[o] /\ round'[o] = round[o]
      BY <2>1, <2>2
    <3>2. QED
      BY <3>1, StepsInside
  <2>3. CASE lost # {}
    <3>1. PICK S \in SUBSET Op : S = lost
      OBVIOUS
    <3>2. S # {} /\ \A o \in S : pc[o] \in Running
      BY <2>3, <3>1
    <3>3. /\ pc' = [o \in Op |-> IF o \in S THEN "failed" ELSE pc[o]]
          /\ round' = [o \in Op |-> IF o \in S THEN NoRound ELSE round[o]]
          /\ op' = op
      BY <2>1, <3>1
    <3>4. R!Fail(S) /\ S \in SUBSET R!Calls
      BY <3>1, <3>2, <3>3, FailRefines, SameCalls
    <3>5. QED
      BY <3>4 DEF R!Next
  <2>4. QED
    BY <2>2, <2>3
<1>2. CASE ~Crash(r)
  <2>1. UNCHANGED <<pc, op, round>>
    BY <1>2
       DEF ReplicaStep, BeginSync, Join, GenesisExpires, SyncAlone, StartSync, AnswerSync, EndSync,
           SyncFromMajority, SyncInGenesis, SyncAgain, LateRead, LateMerge
  <2>2. QED
    BY <2>1, StepsInside
<1>3. QED
  BY <1>1, <1>2

LEMMA CallRefines ==
  ASSUME TypeOK, TypeOK', InvShape, InvFrom, InvUpdates, ReadMeetsAckedWrites', ResetsClimb',
         NEW o \in Op, CallStep(o)
  PROVE  [R!Next]_(R!vars)
<1>0. o \in R!Calls /\ {o} \in SUBSET R!Calls
  BY SameCalls
<1>1. CASE pc[o] = "idle"
  BY <1>0, <1>1, BeginRefines DEF R!Next
<1>2. CASE ReadReturns(o) \/ WriteAcked(o)
  BY <1>0, <1>2, AckRefines DEF R!Next
<1>3. CASE ReadThenReset(o)
  BY <1>0, <1>3, ResetRefines DEF R!Next
<1>4. CASE ReadRefused(o) \/ ResetAtMaximum(o) \/ WriteRefused(o)
  <2>1. pc[o] \in Running /\ op' = op /\ Fail(o)
    BY <1>4 DEF ReadRefused, ResetAtMaximum, WriteRefused, ReadEnds, Running
  <2>2. /\ pc' = [q \in Op |-> IF q \in {o} THEN "failed" ELSE pc[q]]
        /\ round' = [q \in Op |-> IF q \in {o} THEN NoRound ELSE round[q]]
    BY <2>1 DEF Fail, TypeOK
  <2>3. R!Fail({o})
    BY <2>1, <2>2, FailRefines
  <2>4. QED
    BY <1>0, <2>3 DEF R!Next
<1>5. CASE ReadThenRaise(o)
  <2>1. /\ pc[o] = "reading" /\ pc' = [pc EXCEPT ![o] = "merging"]
        /\ op' = op /\ round' = round
    BY <1>5 DEF ReadThenRaise, ReadEnds
  <2>2. QED
    BY <2>1, StepsInside DEF PhaseOf, Running, TypeOK
<1>6. CASE StartWrite(o)
  <2>1. /\ pc[o] = "merging" /\ pc' = [pc EXCEPT ![o] = "writing"] /\ op' = op
        /\ \A q \in Op : round'[q].before = round[q].before /\ (q # o => round'[q] = round[q])
    BY <1>6 DEF StartWrite, TypeOK, NoRound
  <2>2. QED
    BY <2>1, StepsInside DEF PhaseOf, Running, TypeOK
<1>7. ASSUME NEW s \in Replica, AnswerRead(o, s) \/ AnswerMerge(o, s)
      PROVE  UNCHANGED R!vars
  <2>1. /\ pc[o] \in {"reading", "writing"} /\ pc' = pc /\ op' = op
        /\ \A q \in Op : q # o => round'[q] = round[q]
    BY <1>7 DEF AnswerRead, AnswerMerge, TypeOK
  <2>2. round'[o].before = round[o].before
    BY <1>7, AnswersCounted
  <2>3. QED
    BY <2>1, <2>2, StepsInside
<1>8. QED
  BY <1>1, <1>2, <1>3, <1>4, <1>5, <1>6, <1>7
     DEF CallStep, BeginRead, BeginRaise, BeginReset, Begin

LEMMA StepRefines ==
  ASSUME TypeOK, TypeOK', IInv, IInv', InvFrom, InvUpdates, [Next]_vars
  PROVE  [R!Next]_(R!vars)
<1>1. CASE UNCHANGED vars
  <2>1. UNCHANGED <<pc, op, round>>
    BY <1>1 DEF vars
  <2>2. QED
    BY <2>1, StepsInside
<1>2. ASSUME NEW o \in Op, CallStep(o)
      PROVE  [R!Next]_(R!vars)
  BY <1>2, CallRefines DEF IInv
<1>3. QED
  BY <1>1, <1>2, ReplicaRefines DEF Next

LEMMA InitRefines == Init => R!Init /\ InvFrom /\ InvUpdates
<1> SUFFICES ASSUME Init PROVE R!Init /\ InvFrom /\ InvUpdates
  OBVIOUS
<1>1. /\ \A r \in Replica : map[r] = EmptyView /\ sync[r].view = EmptyView
      /\ \A o \in Op : /\ pc[o] = "idle" /\ op[o].update = EmptyView
                       /\ round[o].view = EmptyView /\ round[o].before = {}
      /\ net = {}
  BY DEF Init, NoRound, ReadCall
<1>2. InvFrom
  BY <1>1, EmptyFrom DEF InvFrom
<1>3. InvUpdates
  BY <1>1 DEF InvUpdates
<1>4. R!Init
  BY <1>1, SameCalls, SameViews DEF R!Init, PhaseOf, Running
<1>5. QED
  BY <1>2, <1>3, <1>4

-----------------------------------------------------------------------------
(***************************************************************************)
(* The replicas implement the register (property Implements): no more of   *)
(* them than MERO_KMS_REPLICAS, and none replaced so fast that a round or  *)
(* the bring-up meets both it and its predecessor.                         *)
(***************************************************************************)
THEOREM CountersImplementRegister ==
  ASSUME Sized, NoFastReplacement
  PROVE  Spec => Implements
<1>1. TypeOK /\ TypeOK' /\ IInv /\ InvFrom /\ InvUpdates /\ [Next]_vars
        => InvFrom' /\ InvUpdates'
  BY FromKept, UpdatesKept DEF IInv
<1>2. Spec => [](InvFrom /\ InvUpdates)
  BY <1>1, InitRefines, TypeCorrect, InvHolds, PTL DEF Spec
<1>3. TypeOK /\ TypeOK' /\ IInv /\ IInv' /\ InvFrom /\ InvUpdates /\ [Next]_vars
        => [R!Next]_(R!vars)
  BY StepRefines
<1>4. Spec => R!Spec
  BY <1>2, <1>3, InitRefines, TypeCorrect, InvHolds, PTL DEF Spec, R!Spec
<1>5. QED
  BY <1>4 DEF Implements

\* From any state with these invariants on, however many calls have ended before it,
\* each step is one of the register's (property ImplementsSteps): a cluster that was
\* brought up and reset before is one such state.
THEOREM StepsImplementRegister ==
  ASSUME Sized, NoFastReplacement
  PROVE  TypeOK /\ IInv /\ InvFrom /\ InvUpdates /\ [][Next]_vars => ImplementsSteps
<1>1. TypeOK /\ IInv /\ InvFrom /\ InvUpdates /\ [Next]_vars
        => TypeOK' /\ IInv' /\ InvFrom' /\ InvUpdates'
  BY TypeStep, InvStep, FromKept, UpdatesKept DEF IInv
<1>2. TypeOK /\ TypeOK' /\ IInv /\ IInv' /\ InvFrom /\ InvUpdates /\ [Next]_vars
        => [R!Next]_(R!vars)
  BY StepRefines
<1>3. TypeOK /\ IInv /\ InvFrom /\ InvUpdates /\ [][Next]_vars => [][R!Next]_(R!vars)
  BY <1>1, <1>2, PTL
<1>4. QED
  BY <1>3 DEF ImplementsSteps
=============================================================================
