----------------------------- MODULE KeyRelease -----------------------------
(***************************************************************************)
(* /challenge and /get-key of the replicas of one mero-kms cluster         *)
(* (mero-kms/src/stateless_challenge.rs, handlers/challenge.rs and         *)
(* handlers/get_key.rs).  A challenge is checked by any replica from the   *)
(* cluster's root alone; each replica remembers in memory the ones it      *)
(* accepted, until they expire.  Clocks are the replicas' own.             *)
(*                                                                         *)
(* Not told apart: the peer a challenge names, the quote and the signature *)
(* over it.  A request that fails one of them is refused: at once and with *)
(* no change of state, or, for the quote, after the await that verifies it *)
(* (RefuseAwaited).                                                        *)
(***************************************************************************)
EXTENDS Naturals, FiniteSets

CONSTANTS
  Replica,        \* the replicas
  Call,           \* /get-key requests, retries and repeats of one included
  CounterCalls,   \* those that name a rollbackNodeId
  LowOrder,       \* those whose sealToB64 is a low-order point
  Random,         \* the random part of challenges
  Ttl,            \* CHALLENGE_TTL_SECS
  Skew,           \* CLOCK_SKEW_SECS
  Capacity,       \* MAX_CONSUMED_CHALLENGES
  Drift,          \* how far two replicas' clocks may be apart
  MaxTime,        \* bound on the clocks
  MaxLosses       \* bound on replica losses

ASSUME CallAssumption == CounterCalls \subseteq Call /\ LowOrder \subseteq Call
ASSUME TimeAssumption == {Ttl, Skew, Drift, MaxTime, MaxLosses} \subseteq Nat
ASSUME ClockAssumption == Drift <= MaxTime
ASSUME CapacityAssumption == Capacity \in Nat \ {0}

VARIABLES
  clock,       \* each replica's unix_now_secs()
  root,        \* replicas that hold the cluster's root
  challenges,  \* challenges issued
  spent,       \* SpentChallenges of each replica
  calls,       \* the requests and how far each is
  spenders,    \* history: calls that spent their challenge at each replica since it started
  losses       \* replicas lost so far

vars == <<clock, root, challenges, spent, calls, spenders, losses>>

Challenge == [random : Random, expires : Nat]

Stage == {"attesting", "counting", "released", "refused"}

\* `time` is history: when the request was answered.
CallState ==
  [at : Replica, challenge : Challenge, stage : Stage, time : Nat]

NotMade == [stage |-> "not made"]

TypeOK ==
  /\ clock \in [Replica -> 0..MaxTime]
  /\ root \subseteq Replica
  /\ challenges \subseteq Challenge
  /\ spent \in [Replica -> SUBSET challenges]
  /\ calls \in [Call -> CallState \cup {NotMade}]
  /\ spenders \in [Replica -> SUBSET Call]
  /\ \A r \in Replica : \A q \in spenders[r] :
       calls[q] # NotMade /\ calls[q].stage \in {"released", "refused"} /\ calls[q].at = r
  /\ \A q \in Call :
       (calls[q].stage \in {"attesting", "counting"}) => calls[q].at \in root
  /\ losses \in 0..MaxLosses

Init ==
  /\ clock \in [Replica -> 0..Drift]
  /\ root = Replica
  /\ challenges = {}
  /\ spent = [r \in Replica |-> {}]
  /\ calls = [q \in Call |-> NotMade]
  /\ spenders = [r \in Replica |-> {}]
  /\ losses = 0

-----------------------------------------------------------------------------
(* The environment: clocks, losses and joins.                              *)

\* Clocks never step back, and stay within Drift of one another.
Tick(r) ==
  /\ clock[r] < MaxTime
  /\ \A s \in Replica : clock[r] + 1 <= clock[s] + Drift
  /\ clock' = [clock EXCEPT ![r] = @ + 1]
  /\ UNCHANGED <<root, challenges, spent, calls, spenders, losses>>

\* A replica is lost with its memory; the calls it was serving fail.
Lose(r) ==
  /\ r \in root
  /\ losses < MaxLosses
  /\ losses' = losses + 1
  /\ root' = root \ {r}
  /\ spent' = [spent EXCEPT ![r] = {}]
  /\ spenders' = [spenders EXCEPT ![r] = {}]
  /\ calls' = [q \in Call |->
       IF calls[q].stage \in {"attesting", "counting"} /\ calls[q].at = r
       THEN [calls[q] EXCEPT !.stage = "refused"]
       ELSE calls[q]]
  /\ UNCHANGED <<clock, challenges>>

\* Its replacement gets the root from a replica that holds it.
Join(r) ==
  /\ r \notin root
  /\ root # {}
  /\ root' = root \cup {r}
  /\ UNCHANGED <<clock, challenges, spent, calls, spenders, losses>>

-----------------------------------------------------------------------------
(* stateless_challenge::issue and ::open.                                  *)

Expired(r, c) == c.expires < clock[r]

\* Mutant: a fresh challenge is one this replica's own clock could have issued.
TooLateWithoutSkew(r, c) == c.expires > clock[r] + Ttl

TooLate(r, c) == c.expires > clock[r] + Ttl + Skew

Opens(r, c) == ~Expired(r, c) /\ ~TooLate(r, c)

\* challenge_handler: nothing is kept; what it drew has not been drawn before.
IssueChallenge(r, x) ==
  /\ r \in root
  /\ \A c \in challenges : c.random # x
  /\ challenges' = challenges \cup {[random |-> x, expires |-> clock[r] + Ttl]}
  /\ UNCHANGED <<clock, root, spent, calls, spenders, losses>>

Made(r, c) ==
  [at |-> r, challenge |-> c, stage |-> "attesting", time |-> 0]

\* Mutant: the challenge is recorded when it is opened.
GetKeySpending(q, r, c) ==
  /\ calls[q] = NotMade
  /\ r \in root
  /\ Opens(r, c)
  /\ calls' = [calls EXCEPT ![q] = Made(r, c)]
  /\ spent' = [spent EXCEPT ![r] = @ \cup {c}]
  /\ UNCHANGED <<clock, root, challenges, spenders, losses>>

\* release_key up to its first await: the challenge opens, the signature holds.
GetKey(q, r, c) ==
  /\ calls[q] = NotMade
  /\ r \in root
  /\ Opens(r, c)
  /\ calls' = [calls EXCEPT ![q] = Made(r, c)]
  /\ UNCHANGED <<clock, root, challenges, spent, spenders, losses>>

-----------------------------------------------------------------------------
(* release_key after an await, and SpentChallenges::spend.                 *)

\* Mutant: an entry is dropped in the second its challenge expires.
UnexpiredEarly(r) == {c \in spent[r] : c.expires > clock[r]}

Unexpired(r) == {c \in spent[r] : ~Expired(r, c)}

End(q, stage) ==
  calls' = [calls EXCEPT ![q].stage = stage, ![q].time = clock[calls[q].at]]

RefuseSpend(q) ==
  LET r == calls[q].at IN
  /\ \/ calls[q].challenge \in Unexpired(r)
     \/ Cardinality(Unexpired(r)) >= Capacity
  /\ spent' = [spent EXCEPT ![r] = Unexpired(r)]
  /\ End(q, "refused")
  /\ UNCHANGED spenders

\* Mutant: a full cache makes room by forgetting what it holds.
SpendForgetting(q) ==
  LET r == calls[q].at
      c == calls[q].challenge
      full == Cardinality(Unexpired(r)) >= Capacity IN
  /\ c \notin Unexpired(r)
  /\ spent' = [spent EXCEPT ![r] = {c} \cup (IF full THEN {} ELSE Unexpired(r))]
  /\ spenders' = [spenders EXCEPT ![r] = @ \cup {q}]

Spend(q) ==
  LET r == calls[q].at
      c == calls[q].challenge IN
  /\ c \notin Unexpired(r)
  /\ Cardinality(Unexpired(r)) < Capacity
  /\ spent' = [spent EXCEPT ![r] = Unexpired(r) \cup {c}]
  /\ spenders' = [spenders EXCEPT ![r] = @ \cup {q}]

Release(q) ==
  /\ q \notin LowOrder
  /\ Spend(q)
  /\ End(q, "released")

\* seal_bytes finds an all-zero shared secret: no key, and the challenge is spent.
SealRefused(q) ==
  /\ q \in LowOrder
  /\ Spend(q)
  /\ End(q, "refused")

SpendChallenge(q) ==
  /\ RefuseSpend(q) \/ Release(q) \/ SealRefused(q)
  /\ UNCHANGED <<clock, root, challenges, losses>>

\* The quote verified; a call that asks for its counter goes on to read it.
Attested(q) ==
  /\ calls[q].stage = "attesting"
  /\ IF q \in CounterCalls
     THEN /\ calls' = [calls EXCEPT ![q].stage = "counting"]
          /\ UNCHANGED <<clock, root, challenges, spent, spenders, losses>>
     ELSE SpendChallenge(q)

\* A majority of replicas answered the read of its counter.
CountersRead(q) ==
  /\ calls[q].stage = "counting"
  /\ SpendChallenge(q)

\* The quote or the role is refused, or the read found no majority.
RefuseAwaited(q) ==
  /\ calls[q].stage \in {"attesting", "counting"}
  /\ End(q, "refused")
  /\ UNCHANGED <<clock, root, challenges, spent, spenders, losses>>

-----------------------------------------------------------------------------
Next ==
  \/ \E r \in Replica : Tick(r) \/ Lose(r) \/ Join(r)
  \/ \E r \in Replica, x \in Random : IssueChallenge(r, x)
  \/ \E q \in Call, r \in Replica, c \in challenges : GetKey(q, r, c)
  \/ \E q \in Call : Attested(q) \/ CountersRead(q) \/ RefuseAwaited(q)

Spec == Init /\ [][Next]_vars

-----------------------------------------------------------------------------
(* Properties.                                                             *)

\* A challenge any replica has issued never looks to another like one this
\* cluster could not have issued yet, however their clocks stand: a node's two
\* requests may land anywhere (stateless_challenge.rs:51-54).
IssuedNeverTooLate ==
  \A c \in challenges, r \in Replica : ~TooLate(r, c)

\* The call q verified to the end and spent the challenge c.
SpentBy(q, c) ==
  /\ calls[q].challenge = c
  /\ calls[q].stage = "released" \/ (calls[q].stage = "refused" /\ q \in LowOrder)

\* A replica keeps a place for a challenge only of a request that verified to the
\* end: it was given the key, or it named a low-order sealToB64.  A request refused
\* for its quote, its counter or a full cache, or still awaited, holds none, and
\* may be made again with the same challenge (get_key.rs:182-194, 230-256).
OnlyVerifiedAreSpent ==
  \A r \in Replica : \A c \in spent[r] : \E q \in spenders[r] : SpentBy(q, c)

\* What the comment of spend_challenge says (get_key.rs:379-380): the cache holds
\* challenges that released a key and nothing else.
OnlyReleasesAreSpent ==
  \A r \in Replica : \A c \in spent[r] : \E q \in spenders[r] :
    calls[q].challenge = c /\ calls[q].stage = "released"

SameChallenge(p, q) == p # q /\ calls[p].challenge = calls[q].challenge

\* While a challenge is fresh, a replica spends it at most once, and so releases
\* at most one key for it, however its requests overlap and whatever the cache
\* forgets (README.md:34-35).
OnceWhileFresh ==
  \A r \in Replica : \A p, q \in spenders[r] :
    SameChallenge(p, q) =>
      \E s \in {p, q} : calls[s].time > calls[s].challenge.expires

-----------------------------------------------------------------------------
(* The inductive invariant.                                                *)

ClocksClose == \A r, s \in Replica : clock[r] <= clock[s] + Drift

IssuedInTime ==
  \A c \in challenges : \E r \in Replica : c.expires <= clock[r] + Ttl

CallsPresentIssued ==
  \A q \in Call : calls[q] # NotMade => calls[q].challenge \in challenges

\* A spent challenge keeps its place until it has expired.
SpentRemembered ==
  \A r \in Replica : \A q \in spenders[r] :
    /\ calls[q].time <= clock[r]
    /\ calls[q].challenge.expires >= clock[r] => calls[q].challenge \in spent[r]

\* What keeps a challenge from being spent twice while it is fresh: the
\* replica that spent it still holds its place, since places go by the same
\* clock as expiry (stateless_challenge.rs:146-161).
IInv ==
  /\ TypeOK
  /\ ClocksClose
  /\ IssuedInTime
  /\ CallsPresentIssued
  /\ SpentRemembered
  /\ OnlyVerifiedAreSpent
  /\ OnceWhileFresh

=============================================================================
