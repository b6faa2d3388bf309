------------------------------ MODULE Counters ------------------------------
(***************************************************************************)
(* The replicated rollback counters of mero-kms (mero-kms/src/counters.rs) *)
(* for one cluster key path.  Replicas keep views in memory and merge them *)
(* by maximum; a client call runs on one replica and asks the others in    *)
(* rounds; a replaced replica starts empty and syncs before it serves.     *)
(*                                                                         *)
(* Requests are in `net` for good once sent: a peer may handle one late,   *)
(* twice or never, since a request's MAC binds no recipient and no time.   *)
(* An answer counts only in the round whose nonce it carries, so it is     *)
(* recorded in the caller's round, or is lost.                             *)
(***************************************************************************)
EXTENDS CounterViews, FiniteSets

CONSTANTS
  Replica,          \* the replicas (a replacement takes its predecessor's URL)
  Reads,            \* client calls, each made at most once: the counter reads
  Raises,           \*   of key releases, the raises
  Resets,           \*   and the resets
  Replicas,         \* MERO_KMS_REPLICAS
  Mark,             \* the marks stores carry
  MaxU64,           \* the largest epoch
  MaxCrashes,       \* bound on replica losses
  ReplaceMidRound,  \* may a replica be replaced inside a write round that counted it?
  ReplaceInBringUp, \* may one be replaced after the first write, genesis still open?
  Timely            \* does every live peer answer within PEER_TIMEOUT?

Writes == Raises \cup Resets

Op == Reads \cup Writes

ASSUME ReplicaAssumption == IsFiniteSet(Replica) /\ Replica # {}
ASSUME ReplicasAssumption == Replicas \in Nat \ {0}
ASSUME OpAssumption ==
  Reads \cap Writes = {} /\ Raises \cap Resets = {} /\ Node # {}
ASSUME BoundAssumption == Mark \subseteq Nat /\ MaxU64 \in Nat /\ MaxCrashes \in Nat
ASSUME ModeAssumption == {ReplaceMidRound, ReplaceInBringUp, Timely} \subseteq BOOLEAN

VARIABLES
  up,       \* replicas that run and hold the root: others answer nothing
  ready,    \* Inner.ready
  formed,   \* Inner.formed
  genesis,  \* Inner.genesis_until is set and still ahead
  map,      \* Inner.map, for this key path
  syncing,  \* replicas inside a round of sync_once
  sync,     \* the round of each
  pc,       \* where each call is
  op,       \* its arguments
  round,    \* its current round; after it, its last round and result
  net,      \* every request sent between replicas
  crashes   \* replicas lost so far

vars == <<up, ready, formed, genesis, map, syncing, sync, pc, op, round, net, crashes>>

-----------------------------------------------------------------------------
(* A round: what its caller told and has heard so far.  The answers' views *)
(* are merged as they arrive: the code merges them when the round is over, *)
(* to the same view, and drops it when the round is refused.               *)
Round ==
  [told    : BOOLEAN,           \* ReadBody.formed
   heard   : SUBSET Replica,    \* whose answers counted
   ready   : SUBSET Replica,    \* those that answered ready
   formed  : BOOLEAN,           \* one answered formed
   genesis : BOOLEAN,           \* every ready answer was an empty genesis replica's
   view    : View,
   before  : SUBSET Op]         \* history: the calls that had ended when it began

NoRound ==
  [told |-> FALSE, heard |-> {}, ready |-> {}, formed |-> FALSE,
   genesis |-> TRUE, view |-> EmptyView, before |-> {}]

Phase == {"idle", "reading", "merging", "writing", "acked", "failed"}

Running == {"reading", "merging", "writing"}

Call == [at : Replica, node : Node, mark : Nat, update : View]

Request == [type : {"read"}, formed : BOOLEAN] \cup [type : {"merge"}, counters : View]

TypeOK ==
  /\ up \in SUBSET Replica
  /\ ready \in SUBSET up
  /\ formed \in SUBSET up
  /\ genesis \in SUBSET up
  /\ map \in [Replica -> View]
  /\ syncing \in SUBSET up
  /\ sync \in [Replica -> Round]
  /\ pc \in [Op -> Phase]
  /\ op \in [Op -> Call]
  /\ round \in [Op -> Round]
  /\ net \in SUBSET Request
  /\ crashes \in Nat
  /\ \A o \in Op : pc[o] \in Running => op[o].at \in ready

Majority == (Replicas \div 2) + 1

Ended == {o \in Op : pc[o] \in {"acked", "failed"}}

-----------------------------------------------------------------------------
\* Inner::genesis_left is some: s may vouch for an empty cluster.
InGenesis(s) == s \in ready /\ s \notin formed /\ s \in genesis

\* Inner::learn_formed at the replicas S.
Learn(S) ==
  /\ formed' = formed \cup S
  /\ genesis' = genesis \ (S \ formed)

\* Counters::round counting the answer of s: its counters v, and whether it
\* answered formed; `keep` when the caller merges this answer's counters.
Counted(rd, s, v, answeredFormed, keep) ==
  [rd EXCEPT
     !.heard = @ \cup {s},
     !.ready = IF s \in ready THEN @ \cup {s} ELSE @,
     !.formed = @ \/ answeredFormed,
     !.genesis = @ /\ (s \in ready => /\ s \in genesis /\ ~answeredFormed
                                      /\ Known(v) = {}),
     !.view = IF keep THEN Merge(@, v) ELSE @]

\* Counters::read_request and the start of its round at r.  A single replica
\* asks nobody.
SendRead(r) ==
  net' = IF Replicas = 1 THEN net ELSE net \cup {[type |-> "read", formed |-> r \in formed]}

ReadRound(r, v) ==
  [told |-> r \in formed, heard |-> {}, ready |-> {}, formed |-> FALSE,
   genesis |-> TRUE, view |-> v, before |-> Ended]

\* Mutant: a round waits until every live peer has answered ready.
RoundOverWhenReady(r, rd) == Timely => (up \ {r}) \subseteq rd.ready

\* A round ends when every peer answered or timed out (futures_join_all).
RoundOver(r, rd) == Timely => (up \ {r}) \subseteq rd.heard

-----------------------------------------------------------------------------
(* Replicas come and go.  A lost process is replaced, never restarted in   *)
(* place: it has lost the root and the counters.                           *)

\* Somebody may still be let in on an empty genesis replica's word.
BringUp ==
  \/ \E s \in up : InGenesis(s)
  \/ \E r \in syncing : sync[r].ready # {} /\ sync[r].genesis

Written == \E m \in net : m.type = "merge"

\* main: the root arrives from a peer (cluster::join_until_ready), then sync.
Join(r) ==
  /\ r \notin up
  /\ up # {}
  /\ ReplaceMidRound \/ \A o \in Op : pc[o] = "writing" => r \notin round[o].heard
  /\ ReplaceInBringUp \/ ~Written \/ ~BringUp
  /\ up' = up \cup {r}
  /\ UNCHANGED <<ready, formed, genesis, map, syncing, sync, pc, op, round, net, crashes>>

Crash(r) ==
  /\ r \in up
  /\ crashes < MaxCrashes
  /\ crashes' = crashes + 1
  /\ up' = up \ {r}
  /\ ready' = ready \ {r}
  /\ formed' = formed \ {r}
  /\ genesis' = genesis \ {r}
  /\ map' = [map EXCEPT ![r] = EmptyView]
  /\ syncing' = syncing \ {r}
  /\ sync' = [sync EXCEPT ![r] = NoRound]
  /\ LET lost == {o \in Op : pc[o] \in Running /\ op[o].at = r}
     IN  /\ pc' = [o \in Op |-> IF o \in lost THEN "failed" ELSE pc[o]]
         /\ round' = [o \in Op |-> IF o \in lost THEN NoRound ELSE round[o]]
  /\ UNCHANGED <<op, net>>

\* GENESIS_WINDOW runs out at s.
GenesisExpires(s) ==
  /\ s \in genesis
  /\ Timely => Cardinality(ready) >= Majority
  /\ genesis' = genesis \ {s}
  /\ UNCHANGED <<up, ready, formed, map, syncing, sync, pc, op, round, net, crashes>>

-----------------------------------------------------------------------------
(* sync_once, repeated by sync_until_ready until it succeeds.              *)

SyncAlone(r) ==
  /\ r \in up \ ready
  /\ Replicas = 1
  /\ ready' = ready \cup {r}
  /\ formed' = formed \cup {r}
  /\ UNCHANGED <<up, genesis, map, syncing, sync, pc, op, round, net, crashes>>

StartSync(r) ==
  /\ r \in up \ (ready \cup syncing)
  /\ Replicas > 1
  /\ syncing' = syncing \cup {r}
  /\ sync' = [sync EXCEPT ![r] = ReadRound(r, EmptyView)]
  /\ SendRead(r)
  /\ UNCHANGED <<up, ready, formed, genesis, map, pc, op, round, crashes>>

\* A single replica asks nobody.
BeginSync(r) == IF Replicas = 1 THEN SyncAlone(r) ELSE StartSync(r)

\* Counters::answer_read for a joiner, and the answer reaching it.
AnswerSync(r, s) ==
  /\ r \in syncing
  /\ s \in up \ {r}
  /\ s \notin sync[r].heard
  /\ Learn(IF sync[r].told THEN {s} ELSE {})
  /\ sync' = [sync EXCEPT ![r] =
                Counted(@, s, map[s], s \in formed \/ @.told, s \in ready)]
  /\ UNCHANGED <<up, ready, map, syncing, pc, op, round, net, crashes>>

EndSync(r) ==
  /\ r \in syncing
  /\ RoundOver(r, sync[r])
  /\ syncing' = syncing \ {r}
  /\ sync' = [sync EXCEPT ![r] = NoRound]
  /\ UNCHANGED <<up, pc, op, round, net, crashes>>

\* Mutant: the joiner counts itself, as a read may.
SyncCountsItself(r) == Cardinality(sync[r].ready) + 1 >= Majority

SyncHasMajority(r) == Cardinality(sync[r].ready) >= Majority

\* Mutants: any ready replica vouches; one not ready yet spoils the round.
SyncHasAnyReady(r) == ~SyncHasMajority(r) /\ sync[r].ready # {}
SyncHasGenesisOnly(r) ==
  /\ ~SyncHasMajority(r)
  /\ sync[r].ready # {} /\ sync[r].ready = sync[r].heard
  /\ sync[r].genesis /\ ~sync[r].formed

SyncHasGenesis(r) ==
  /\ ~SyncHasMajority(r)
  /\ sync[r].ready # {}
  /\ sync[r].genesis
  /\ ~sync[r].formed

SyncFromMajority(r) ==
  /\ EndSync(r)
  /\ SyncHasMajority(r)
  /\ map' = [map EXCEPT ![r] = Merge(@, sync[r].view)]
  /\ ready' = ready \cup {r}
  /\ Learn(IF sync[r].formed THEN {r} ELSE {})

SyncInGenesis(r) ==
  /\ EndSync(r)
  /\ SyncHasGenesis(r)
  /\ ready' = ready \cup {r}
  /\ genesis' = genesis \cup {r}
  /\ UNCHANGED <<formed, map>>

SyncAgain(r) ==
  /\ EndSync(r)
  /\ ~SyncHasMajority(r) /\ ~SyncHasGenesis(r)
  /\ UNCHANGED <<ready, formed, genesis, map>>

-----------------------------------------------------------------------------
(* Client calls.  get-key reads; /rollback/raise and /rollback/reset write.*)

\* The generations a session of node n may carry: of a store never rolled
\* back, or told by an earlier answer.
Told(n) ==
  {0} \cup {GenerationOf(round[o].view, n) :
              o \in {p \in Op : pc[p] = "acked" /\ op[p].node = n}}

\* A call arrives at a ready replica (require_ready) and goes to phase p.
Begin(o, r, p, call) ==
  /\ pc[o] = "idle"
  /\ r \in ready
  /\ pc' = [pc EXCEPT ![o] = p]
  /\ op' = [op EXCEPT ![o] = call]
  /\ round' = [round EXCEPT ![o] = ReadRound(r, map[r])]
  /\ UNCHANGED <<up, ready, formed, genesis, map, syncing, sync, crashes>>

ReadCall(r, n) == [at |-> r, node |-> n, mark |-> 0, update |-> EmptyView]

\* Counters::read, for a key release to node n.
BeginRead(o, r, n) ==
  /\ o \in Reads
  /\ Begin(o, r, "reading", ReadCall(r, n))
  /\ SendRead(r)

\* Counters::raise.  Where the cluster is not known to have formed, a read
\* forms it first.
BeginRaise(o, r, n, m) ==
  /\ o \in Raises
  /\ \E g \in Told(n) :
       LET call == [at |-> r, node |-> n, mark |-> m,
                    update |-> Update(0, n, [generation |-> g, mark |-> m])]
       IN  \/ r \in formed /\ Begin(o, r, "merging", call) /\ UNCHANGED net
           \/ r \notin formed /\ Begin(o, r, "reading", call) /\ SendRead(r)

\* Counters::reset reads the epoch first.
BeginReset(o, r, n, m) ==
  /\ o \in Resets
  /\ Begin(o, r, "reading",
           [at |-> r, node |-> n, mark |-> m, update |-> EmptyView])
  /\ SendRead(r)

AnswerRead(o, s) ==
  /\ pc[o] = "reading"
  /\ Replicas > 1
  /\ s \in up \ {op[o].at}
  /\ s \notin round[o].heard
  /\ Learn(IF round[o].told THEN {s} ELSE {})
  /\ round' = [round EXCEPT ![o] =
                 Counted(@, s, map[s], s \in formed \/ @.told, s \in ready)]
  /\ UNCHANGED <<up, ready, map, syncing, sync, pc, op, net, crashes>>

\* The round showed that the cluster formed, here or at a peer.
RoundForms(rd) == Cardinality(rd.ready) + 1 >= Replicas \/ rd.formed

Fail(o) ==
  /\ pc' = [pc EXCEPT ![o] = "failed"]
  /\ round' = [round EXCEPT ![o] = NoRound]

\* Counters::read after its round: the replica learns whether the cluster
\* formed even when it then refuses the read.
ReadEnds(o) ==
  /\ pc[o] = "reading"
  /\ RoundOver(op[o].at, round[o])
  /\ Learn(IF RoundForms(round[o]) THEN {op[o].at} ELSE {})
  /\ UNCHANGED <<up, ready, syncing, sync, net, crashes>>

ReadServed(o) ==
  /\ RoundForms(round[o]) \/ op[o].at \in formed
  /\ Cardinality(round[o].ready) + 1 >= Majority

ReadRefused(o) ==
  /\ ReadEnds(o)
  /\ ~ReadServed(o)
  /\ Fail(o)
  /\ UNCHANGED <<map, op>>

KeepView(o) ==
  map' = [map EXCEPT ![op[o].at] = Merge(@, round[o].view)]

ReadReturns(o) ==
  /\ ReadEnds(o)
  /\ ReadServed(o)
  /\ o \in Reads
  /\ KeepView(o)
  /\ pc' = [pc EXCEPT ![o] = "acked"]
  /\ UNCHANGED <<op, round>>

\* A raise drops what it read.
ReadThenRaise(o) ==
  /\ ReadEnds(o)
  /\ ReadServed(o)
  /\ o \in Raises
  /\ KeepView(o)
  /\ pc' = [pc EXCEPT ![o] = "merging"]
  /\ UNCHANGED <<op, round>>

\* Mutant: a reset at the maximum stays there.
SaturatingEpoch(v) == IF v.epoch < MaxU64 THEN v.epoch + 1 ELSE MaxU64

\* A reset goes one epoch above the one it read.
NextEpoch(v) == v.epoch + 1

ReadThenReset(o) ==
  LET epoch == NextEpoch(round[o].view)
  IN  /\ ReadEnds(o)
      /\ ReadServed(o)
      /\ o \in Resets
      /\ epoch <= MaxU64
      /\ KeepView(o)
      /\ pc' = [pc EXCEPT ![o] = "merging"]
      /\ op' = [op EXCEPT ![o].update =
                  Update(epoch, op[o].node, [generation |-> epoch, mark |-> op[o].mark])]
      /\ UNCHANGED round

ResetAtMaximum(o) ==
  /\ ReadEnds(o)
  /\ ReadServed(o)
  /\ o \in Resets
  /\ NextEpoch(round[o].view) > MaxU64
  /\ KeepView(o)
  /\ Fail(o)
  /\ UNCHANGED op

\* Counters::write: merge here, then ask every peer to.
StartWrite(o) ==
  LET r == op[o].at
      v == Merge(map[r], op[o].update)
  IN  /\ pc[o] = "merging"
      /\ pc' = [pc EXCEPT ![o] = "writing"]
      /\ map' = [map EXCEPT ![r] = v]
      /\ round' = [round EXCEPT ![o] = [NoRound EXCEPT !.view = v, !.before = round[o].before]]
      /\ net' = IF Replicas = 1 THEN net
                ELSE net \cup {[type |-> "merge", counters |-> op[o].update]}
      /\ UNCHANGED <<up, ready, formed, genesis, syncing, sync, op, crashes>>

\* Counters::answer_merge, and the answer reaching the caller.  A replica
\* that has not synced takes the write too.
AnswerMerge(o, s) ==
  LET v == Merge(map[s], op[o].update)
  IN  /\ pc[o] = "writing"
      /\ Replicas > 1
      /\ s \in up \ {op[o].at}
      /\ s \notin round[o].heard
      /\ Learn({s})
      /\ map' = [map EXCEPT ![s] = v]
      /\ round' = [round EXCEPT ![o] = Counted(@, s, v, TRUE, TRUE)]
      /\ UNCHANGED <<up, ready, syncing, sync, pc, op, net, crashes>>

\* Mutants: one holder short of a majority; every replica must hold it.
WriteHeldByFewer(o) == Cardinality(round[o].heard) + 2 >= Majority
WriteHeldByAll(o) == Cardinality(round[o].heard) + 1 >= Replicas

WriteHeld(o) == Cardinality(round[o].heard) + 1 >= Majority

\* Too few took it: refused, though this replica and those few keep it.
WriteRefused(o) ==
  /\ pc[o] = "writing"
  /\ RoundOver(op[o].at, round[o])
  /\ ~WriteHeld(o)
  /\ Fail(o)
  /\ UNCHANGED <<up, ready, formed, genesis, map, syncing, sync, op, net, crashes>>

WriteAcked(o) ==
  /\ pc[o] = "writing"
  /\ RoundOver(op[o].at, round[o])
  /\ WriteHeld(o)
  /\ KeepView(o)
  /\ pc' = [pc EXCEPT ![o] = "acked"]
  /\ UNCHANGED <<up, ready, formed, genesis, syncing, sync, op, round, net, crashes>>

-----------------------------------------------------------------------------
(* A request handled outside its round: late, again, or its answer lost.   *)

LateRead(s) ==
  /\ s \in up
  /\ \E m \in net : m.type = "read" /\ m.formed
  /\ Learn({s})
  /\ UNCHANGED <<up, ready, map, syncing, sync, pc, op, round, net, crashes>>

LateMerge(s) ==
  /\ s \in up
  /\ \E m \in net : /\ m.type = "merge"
                    /\ map' = [map EXCEPT ![s] = Merge(@, m.counters)]
  /\ Learn({s})
  /\ UNCHANGED <<up, ready, syncing, sync, pc, op, round, net, crashes>>

-----------------------------------------------------------------------------
\* One replica makes the root and bootstraps the counters (main, bootstrap).
Init ==
  /\ \E b \in Replica, n \in Node :
        /\ up = {b}
        /\ ready = {b}
        /\ formed = IF Replicas = 1 THEN {b} ELSE {}
        /\ genesis = IF Replicas = 1 THEN {} ELSE {b}
        /\ op = [o \in Op |-> ReadCall(b, n)]
  /\ map = [r \in Replica |-> EmptyView]
  /\ syncing = {}
  /\ sync = [r \in Replica |-> NoRound]
  /\ pc = [o \in Op |-> "idle"]
  /\ round = [o \in Op |-> NoRound]
  /\ net = {}
  /\ crashes = 0

ReplicaStep(r) ==
  \/ Join(r)
  \/ Crash(r)
  \/ GenesisExpires(r)
  \/ BeginSync(r)
  \/ \E s \in Replica : AnswerSync(r, s)
  \/ SyncFromMajority(r)
  \/ SyncInGenesis(r)
  \/ SyncAgain(r)
  \/ LateRead(r)
  \/ LateMerge(r)

CallStep(o) ==
  \/ \E r \in Replica, n \in Node : BeginRead(o, r, n)
  \/ \E r \in Replica, n \in Node, m \in Mark : BeginRaise(o, r, n, m)
  \/ \E r \in Replica, n \in Node, m \in Mark : BeginReset(o, r, n, m)
  \/ \E s \in Replica : AnswerRead(o, s)
  \/ ReadRefused(o)
  \/ ReadReturns(o)
  \/ ReadThenRaise(o)
  \/ ReadThenReset(o)
  \/ ResetAtMaximum(o)
  \/ StartWrite(o)
  \/ \E s \in Replica : AnswerMerge(o, s)
  \/ WriteRefused(o)
  \/ WriteAcked(o)

Next ==
  \/ \E r \in Replica : ReplicaStep(r)
  \/ \E o \in Op : CallStep(o)

Spec == Init /\ [][Next]_vars

(* What the runtime guarantees: a task whose round is over goes on, a live *)
(* peer handles what reaches it, sync_until_ready retries, and a lost      *)
(* replica is replaced.  Clients, losses and the clock owe nothing.        *)
Fairness ==
  /\ \A r \in Replica :
       /\ WF_vars(Join(r))
       /\ WF_vars(BeginSync(r))
       /\ WF_vars(SyncFromMajority(r) \/ SyncInGenesis(r) \/ SyncAgain(r))
       /\ \A s \in Replica : WF_vars(AnswerSync(r, s))
  /\ \A o \in Op :
       /\ WF_vars(ReadRefused(o) \/ ReadReturns(o) \/ ReadThenRaise(o)
                  \/ ReadThenReset(o) \/ ResetAtMaximum(o))
       /\ WF_vars(StartWrite(o))
       /\ WF_vars(WriteRefused(o) \/ WriteAcked(o))
       /\ \A s \in Replica : WF_vars(AnswerRead(o, s)) /\ WF_vars(AnswerMerge(o, s))

FairSpec == Spec /\ Fairness

-----------------------------------------------------------------------------
(* Properties. *)

AckedWrite(w) == w \in Writes /\ pc[w] = "acked"

(***************************************************************************)
(* Every read meets every acknowledged write: what a key release reads     *)
(* holds the update of each raise and reset acknowledged before the read   *)
(* began, whichever replicas answered the two calls and whichever were     *)
(* replaced in between (Counters::read, write, sync_once).                 *)
(***************************************************************************)
ReadMeetsAckedWrites ==
  \A o \in Reads : pc[o] = "acked" =>
    \A w \in round[o].before : AckedWrite(w) => Leq(op[w].update, round[o].view)

(***************************************************************************)
(* Forced rollbacks of a cluster climb: a reset that began after another   *)
(* was acknowledged goes to a higher epoch (Counters::reset).              *)
(***************************************************************************)
ResetsClimb ==
  \A o \in Resets : pc[o] \in {"merging", "writing", "acked"} =>
    \A w \in round[o].before \cap Resets :
      pc[w] = "acked" => op[w].update.epoch < op[o].update.epoch

(***************************************************************************)
(* A joiner that syncs from a majority holds every write acknowledged      *)
(* before its round began: only then may it serve (sync_once).             *)
(***************************************************************************)
SyncMeetsAckedWrites ==
  [][\A r \in Replica :
       SyncFromMajority(r) =>
         \A w \in sync[r].before : AckedWrite(w) => Leq(op[w].update, map'[r])]_vars

(***************************************************************************)
(* While a replica runs, what it holds only grows, whoever writes, reads   *)
(* or syncs at the same time, and it never stops being ready or formed.    *)
(***************************************************************************)
OnlyGrows ==
  [][\A r \in up \cap up' :
       /\ Leq(map[r], map'[r])
       /\ r \in ready => r \in ready'
       /\ r \in formed => r \in formed']_vars

(***************************************************************************)
(* Every running call ends (Counters::round waits at most PEER_TIMEOUT).   *)
(***************************************************************************)
CallsEnd == \A o \in Op : pc[o] \in Running ~> o \in Ended

(***************************************************************************)
(* A write that reached its round is acknowledged, unless the replica      *)
(* that serves it is lost: with a majority alive no raise is refused.      *)
(***************************************************************************)
WritesAcked == \A o \in Op : pc[o] = "writing" ~> (pc[o] = "acked" \/ op[o].at \notin up)

(***************************************************************************)
(* A replica that holds the root becomes ready, unless it is lost first    *)
(* (sync_until_ready).                                                     *)
(***************************************************************************)
JoinersBecomeReady == \A r \in Replica : r \in up ~> (r \in ready \/ r \notin up)

=============================================================================
