-------------------------- MODULE CountersInductive --------------------------
(***************************************************************************)
(* Why every read meets every acknowledged write: the inductive invariant. *)
(* An acknowledged write has a majority of holders.  A holder that is lost *)
(* comes back empty, but becomes ready only from a majority of ready       *)
(* replicas, one of which is again a holder.                               *)
(***************************************************************************)
EXTENDS Counters

\* The replicas whose taking of write w was counted, and the one it ran on.
Holders(w) == round[w].heard \cup {op[w].at}

Holds(h, w) == Leq(op[w].update, map[h])

\* The faults excluded: see the README on why the deployment excludes them.
NoFastReplacement == ~ReplaceMidRound /\ ~ReplaceInBringUp

\* MERO_KMS_REPLICAS names at least the replicas there are.
Sized == Cardinality(Replica) <= Replicas

\* How the parts of the state hang together.
InvShape ==
  /\ genesis \subseteq ready
  /\ syncing \cap ready = {}
  /\ Replicas = 1 => up \subseteq ready
  /\ \A r \in Replica : sync[r].before \subseteq Ended
  /\ \A o \in Op : round[o].before \subseteq Ended
  /\ \A o \in Op : pc[o] \in {"reading", "writing"} =>
       op[o].at \notin round[o].heard \cup round[o].ready
  /\ \A o \in Reads : pc[o] \notin {"merging", "writing"}
  /\ \A w \in Writes : pc[w] \in {"writing", "acked"} => Replicas = 1 \/ Written

\* Whoever was counted for a write still in its round holds it, or is lost
\* and not yet replaced.
InvWriting ==
  \A w \in Writes : pc[w] = "writing" => \A h \in Holders(w) \cap up : Holds(h, w)

\* A holder that lost an acknowledged write is not ready, its sync began
\* after the acknowledgement, and bring-up is over.
Recovering(h, w) ==
  /\ h \notin ready
  /\ h \in syncing => w \in sync[h].before
  /\ ~BringUp

InvAcked ==
  \A w \in Writes : pc[w] = "acked" =>
    /\ Cardinality(Holders(w)) >= Majority
    /\ \A h \in Holders(w) \cap up : Holds(h, w) \/ Recovering(h, w)

\* A round that heard a holder, among the replicas S, has the write.
Meets(rd, S) ==
  \A w \in rd.before :
    AckedWrite(w) /\ S \cap Holders(w) # {} => Leq(op[w].update, rd.view)

InvReading ==
  \A o \in Op : pc[o] = "reading" => Meets(round[o], round[o].ready \cup {op[o].at})

InvSyncing == \A r \in syncing : Meets(sync[r], sync[r].ready)

(***************************************************************************)
(* The parts above, and the two properties they carry: preserved by every  *)
(* step of the handlers, losses and replacements.                          *)
(***************************************************************************)
IInv ==
  /\ InvShape
  /\ InvWriting
  /\ InvAcked
  /\ InvReading
  /\ InvSyncing
  /\ ReadMeetsAckedWrites
  /\ ResetsClimb
=============================================================================
