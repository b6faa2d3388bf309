-------------------------- MODULE CountersRegister --------------------------
(***************************************************************************)
(* The replicas of Counters implement Register: their callers cannot tell  *)
(* them from one register of maxima that is never lost.                    *)
(***************************************************************************)
EXTENDS CountersInductive

-----------------------------------------------------------------------------
(* Nothing is invented: the inductive invariant beside IInv.               *)

\* v is made of parts of what the calls wrote.
From(v, calls) ==
  /\ v.epoch = 0 \/ \E o \in Op : v.epoch = calls[o].update.epoch
  /\ \A n \in Known(v) : \E o \in Op : v.nodes[n] = calls[o].update.nodes[n]

\* So is all that replicas, rounds and messages hold.
InvFrom ==
  /\ \A r \in Replica : From(map[r], op) /\ From(sync[r].view, op)
  /\ \A o \in Op : From(round[o].view, op)
  /\ \A m \in net : m.type = "merge" => From(m.counters, op)

\* A write's update is known once and for all, and is in its own round.
InvUpdates ==
  \A o \in Op :
    /\ pc[o] = "idle" \/ o \in Reads \/ (o \in Resets /\ pc[o] = "reading") =>
         op[o].update = EmptyView
    /\ o \in Raises /\ pc[o] = "reading" => Known(op[o].update) # {}
    /\ pc[o] \in {"merging", "writing"} => Known(op[o].update) # {}
    /\ pc[o] = "writing" => Leq(op[o].update, round[o].view)
    /\ o \in Resets /\ pc[o] = "reading" => op[o].mark \in Mark

-----------------------------------------------------------------------------
PhaseOf(p) == IF p \in Running THEN "running" ELSE p

R == INSTANCE Register WITH
       phase <- [o \in Op |-> PhaseOf(pc[o])],
       update <- [o \in Op |-> op[o].update],
       result <- [o \in Op |-> IF pc[o] = "acked" THEN round[o].view ELSE EmptyView],
       since <- [o \in Op |-> round[o].before]

(***************************************************************************)
(* Every behaviour of the replicas, their losses and their messages is one *)
(* of the register: a read returns every write acknowledged before it      *)
(* began and only what some call wrote, a reset climbs above the           *)
(* acknowledged ones, and a call ends once (counters.rs).                  *)
(***************************************************************************)
Implements == R!Spec

(***************************************************************************)
(* The same of behaviours that begin after calls were acknowledged.        *)
(***************************************************************************)
ImplementsSteps == [][R!Next]_(R!vars)
=============================================================================
