------------------------------- MODULE Policy -------------------------------
(***************************************************************************)
(* What mero-kms admits: the measurements of one released image per role   *)
(* (mero-kms/src/policy.rs) and the role a quote is released keys as       *)
(* (handlers/get_key.rs, enforce_attestation_policy).  A policy's entries  *)
(* are in a sequence; a quote is the value of each register and a TCB      *)
(* status.  Values are parsed and normalized (measurement.rs): equal texts *)
(* of one measurement are one value.                                       *)
(***************************************************************************)
EXTENDS Naturals, Sequences

Role == {"node", "agent"}

NoRole == "no role"

Register == {"MRTD", "RTMR0", "RTMR1", "RTMR2", "RTMR3"}

\* entry.allowed is the allowlist of each register; quote.registers its value.
\* Mutant: each register against the lists of every role.
PooledMatches(policy, entry, quote) ==
  \A g \in Register : \E i \in DOMAIN policy.entries :
    quote.registers[g] \in policy.entries[i].allowed[g]

\* check_measurement of all five registers against ONE entry.
EntryMatches(policy, entry, quote) ==
  \A g \in Register : quote.registers[g] \in entry.allowed[g]

\* A quote that carries no TCB status is refused: it is in no list.
TcbAllowed(policy, quote) == quote.tcb \in policy.tcbStatuses

\* enforce_attestation_policy: the role of the first entry that matches.
RoleOf(policy, quote) ==
  LET matching == {i \in DOMAIN policy.entries : EntryMatches(policy, policy.entries[i], quote)}
  IN CASE ~policy.enforced -> "node"
       [] policy.enforced /\ TcbAllowed(policy, quote) /\ matching # {} ->
            policy.entries[CHOOSE i \in matching : \A j \in matching : i <= j].role
       [] OTHER -> NoRole

-----------------------------------------------------------------------------
(* validate_policy_requirements, at startup.                               *)

\* Mutant: two entries overlap when they are the same image's.
SameEntries(a, b) == a.allowed = b.allowed

\* Some quote could match both: every register's lists share a value.
EntriesOverlap(a, b) == \A g \in Register : a.allowed[g] \cap b.allowed[g] # {}

Apart(a, b) == a.role # b.role /\ ~EntriesOverlap(a, b)

\* Every check of it; which one is reported is left out.
ValidPolicy(policy) ==
  policy.enforced =>
    /\ policy.tcbStatuses # {}
    /\ policy.entries # <<>>
    /\ \A i, j \in DOMAIN policy.entries : i < j => Apart(policy.entries[i], policy.entries[j])
    /\ \A i \in DOMAIN policy.entries : \A g \in Register : policy.entries[i].allowed[g] # {}

=============================================================================
