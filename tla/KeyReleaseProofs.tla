-------------------------- MODULE KeyReleaseProofs --------------------------
(***************************************************************************)
(* The inductive invariant of KeyRelease and what follows from it, for any *)
(* number of replicas, calls and challenges, and any times.                *)
(***************************************************************************)
EXTENDS KeyRelease, TLAPS

LEMMA Bounds ==
  /\ Ttl \in Nat /\ Skew \in Nat /\ Drift \in Nat /\ MaxTime \in Nat /\ MaxLosses \in Nat
  /\ Drift <= MaxTime /\ CounterCalls \subseteq Call
BY TimeAssumption, ClockAssumption, CallAssumption

\* A call that is somewhere in the handler, or was, has every field.
LEMMA MadeCalls ==
  ASSUME TypeOK, NEW q \in Call, calls[q].stage \in Stage
  PROVE  calls[q] \in CallState /\ calls[q] # NotMade
<1>1. calls[q] \in CallState \cup {NotMade}
  BY DEF TypeOK
<1>2. NotMade.stage \notin Stage
  BY DEF NotMade, Stage
<1> QED
  BY <1>1, <1>2

LEMMA InitInv == Init => IInv
<1> SUFFICES ASSUME Init PROVE IInv
  OBVIOUS
<1>1. TypeOK
  <2>1. clock \in [Replica -> 0..MaxTime]
    BY Bounds DEF Init
  <2>2. calls \in [Call -> CallState \cup {NotMade}]
    BY DEF Init
  <2>3. spent \in [Replica -> SUBSET challenges] /\ spenders \in [Replica -> SUBSET Call]
    BY DEF Init
  <2>4. \A q \in Call : calls[q].stage \notin {"attesting", "counting"}
    BY DEF Init, NotMade
  <2>5. \A r \in Replica : spenders[r] = {}
    BY DEF Init
  <2> QED
    BY <2>1, <2>2, <2>3, <2>4, <2>5, Bounds DEF Init, TypeOK
<1>2. ClocksClose
  BY Bounds DEF Init, ClocksClose
<1> QED
  BY <1>1, <1>2 DEF Init, IInv, IssuedInTime, CallsPresentIssued, SpentRemembered,
     OnlyVerifiedAreSpent, OnceWhileFresh, NotMade

-----------------------------------------------------------------------------
(* The environment's steps.                                                *)

LEMMA TickInv == ASSUME IInv, NEW r \in Replica, Tick(r) PROVE IInv'
<1> USE Bounds
<1>1. /\ clock \in [Replica -> 0..MaxTime]
      /\ clock' = [clock EXCEPT ![r] = @ + 1]
      /\ clock[r] < MaxTime
      /\ UNCHANGED <<root, challenges, spent, calls, spenders, losses>>
  BY DEF Tick, IInv, TypeOK
<1>2. /\ clock' \in [Replica -> 0..MaxTime]
      /\ \A s \in Replica : clock[s] <= clock'[s] /\ clock[s] \in Nat /\ clock'[s] \in Nat
  BY <1>1
<1>3. TypeOK'
  BY <1>1, <1>2 DEF IInv, TypeOK
<1>4. ClocksClose'
  BY <1>1, <1>2 DEF Tick, IInv, ClocksClose
<1>5. IssuedInTime'
  <2> SUFFICES ASSUME NEW c \in challenges
               PROVE  \E s \in Replica : c.expires <= clock'[s] + Ttl
    BY <1>1 DEF IssuedInTime
  <2>1. PICK s \in Replica : c.expires <= clock[s] + Ttl
    BY DEF IInv, IssuedInTime
  <2>2. c.expires \in Nat
    BY DEF IInv, TypeOK, Challenge
  <2> QED
    BY <1>2, <2>1, <2>2
<1>6. SpentRemembered'
  <2> SUFFICES ASSUME NEW s \in Replica, NEW q \in spenders[s]
               PROVE  /\ calls[q].time <= clock'[s]
                      /\ calls[q].challenge.expires >= clock'[s]
                           => calls[q].challenge \in spent[s]
    BY <1>1 DEF SpentRemembered
  <2>1. q \in Call /\ calls[q].stage \in Stage
    BY DEF IInv, TypeOK, Stage
  <2>2. calls[q].time \in Nat /\ calls[q].challenge.expires \in Nat
    BY <2>1, MadeCalls DEF IInv, CallState, Challenge
  <2>3. /\ calls[q].time <= clock[s]
        /\ calls[q].challenge.expires >= clock[s] => calls[q].challenge \in spent[s]
    BY DEF IInv, SpentRemembered
  <2> QED
    BY <1>2, <2>2, <2>3
<1> QED
  BY <1>1, <1>3, <1>4, <1>5, <1>6
     DEF IInv, CallsPresentIssued, OnlyVerifiedAreSpent, SpentBy, OnceWhileFresh, SameChallenge

LEMMA LoseInv == ASSUME IInv, NEW r \in Replica, Lose(r) PROVE IInv'
<1> USE Bounds
<1>1. /\ root' = root \ {r}
      /\ spent' = [spent EXCEPT ![r] = {}]
      /\ spenders' = [spenders EXCEPT ![r] = {}]
      /\ losses < MaxLosses /\ losses' = losses + 1
      /\ UNCHANGED <<clock, challenges>>
      /\ TypeOK
  BY DEF Lose, IInv
<1>2. \A q \in Call :
        calls'[q] = IF calls[q].stage \in {"attesting", "counting"} /\ calls[q].at = r
                    THEN [calls[q] EXCEPT !.stage = "refused"] ELSE calls[q]
  BY DEF Lose
<1>3. \A q \in Call : calls[q].stage \in {"attesting", "counting"} => calls[q] \in CallState
  BY <1>1, MadeCalls DEF Stage
<1>4. calls' \in [Call -> CallState \cup {NotMade}]
  <2>1. ASSUME NEW q \in Call
        PROVE  calls'[q] \in CallState \cup {NotMade}
    <3>1. calls[q] \in CallState \cup {NotMade}
      BY <1>1 DEF TypeOK
    <3>2. calls[q] \in CallState => [calls[q] EXCEPT !.stage = "refused"] \in CallState
      BY DEF CallState, Stage
    <3> QED
      BY <1>2, <1>3, <3>1, <3>2
  <2> QED
    BY <2>1 DEF Lose
<1>5. \A q \in Call : calls'[q] = calls[q]
        \/ /\ calls[q] \in CallState
           /\ calls'[q].stage = "refused"
           /\ calls'[q].challenge = calls[q].challenge
           /\ calls'[q] # NotMade
           /\ calls[q].stage \in {"attesting", "counting"}
  BY <1>2, <1>3 DEF CallState, NotMade
<1>6. \A s \in Replica : /\ spenders'[s] \subseteq spenders[s]
                         /\ s # r => spenders'[s] = spenders[s] /\ spent'[s] = spent[s]
                         /\ s = r => spenders'[s] = {} /\ spent'[s] = {}
  BY <1>1 DEF TypeOK
<1>7. \A s \in Replica : \A q \in spenders[s] : q \in Call /\ calls'[q] = calls[q]
  BY <1>1, <1>5 DEF TypeOK
<1>8. TypeOK'
  <2>1. spent' \in [Replica -> SUBSET challenges'] /\ spenders' \in [Replica -> SUBSET Call]
    BY <1>1 DEF TypeOK
  <2>2. \A s \in Replica : \A q \in spenders'[s] :
          calls'[q] # NotMade /\ calls'[q].stage \in {"released", "refused"} /\ calls'[q].at = s
    BY <1>1, <1>6, <1>7 DEF TypeOK
  <2>3. \A q \in Call : calls'[q].stage \in {"attesting", "counting"} => calls'[q].at \in root'
    <3> SUFFICES ASSUME NEW q \in Call, calls'[q].stage \in {"attesting", "counting"}
                 PROVE  calls'[q].at \in root'
      OBVIOUS
    <3>1. calls'[q] = calls[q]
      BY <1>5
    <3>2. calls[q].at # r
      BY <1>2, <1>3, <3>1 DEF CallState
    <3>3. calls[q].at \in root
      BY <1>1, <3>1 DEF TypeOK
    <3> QED
      BY <1>1, <3>1, <3>2, <3>3
  <2>4. losses' \in 0..MaxLosses
    BY <1>1 DEF TypeOK
  <2> QED
    BY <1>1, <1>4, <2>1, <2>2, <2>3, <2>4 DEF TypeOK
<1>9. CallsPresentIssued'
  BY <1>1, <1>5, MadeCalls DEF IInv, CallsPresentIssued, Stage
<1>10. SpentRemembered'
  BY <1>1, <1>6, <1>7 DEF IInv, SpentRemembered
<1>11. OnlyVerifiedAreSpent'
  <2> SUFFICES ASSUME NEW s \in Replica, NEW c \in spent'[s]
               PROVE  \E q \in spenders'[s] : SpentBy(q, c)'
    BY DEF OnlyVerifiedAreSpent
  <2>1. s # r /\ c \in spent[s] /\ spenders'[s] = spenders[s]
    BY <1>6
  <2>2. PICK q \in spenders[s] : SpentBy(q, c)
    BY <2>1 DEF IInv, OnlyVerifiedAreSpent
  <2> QED
    BY <1>7, <2>1, <2>2 DEF SpentBy
<1>12. OnceWhileFresh'
  BY <1>6, <1>7 DEF IInv, OnceWhileFresh, SameChallenge
<1> QED
  BY <1>1, <1>8, <1>9, <1>10, <1>11, <1>12 DEF IInv, ClocksClose, IssuedInTime

LEMMA JoinInv == ASSUME IInv, NEW r \in Replica, Join(r) PROVE IInv'
BY DEF Join, IInv, TypeOK, ClocksClose, IssuedInTime, CallsPresentIssued,
   SpentRemembered, OnlyVerifiedAreSpent, SpentBy, OnceWhileFresh, SameChallenge

LEMMA IssueInv ==
  ASSUME IInv, NEW r \in Replica, NEW x \in Random, IssueChallenge(r, x) PROVE IInv'
<1> USE Bounds
<1> DEFINE c == [random |-> x, expires |-> clock[r] + Ttl]
<1>1. /\ challenges' = challenges \cup {c}
      /\ UNCHANGED <<clock, root, spent, calls, spenders, losses>>
      /\ clock \in [Replica -> 0..MaxTime]
  BY DEF IssueChallenge, IInv, TypeOK
<1>2. c \in Challenge /\ c.expires <= clock[r] + Ttl
  BY <1>1 DEF Challenge
<1> HIDE DEF c
<1>3. TypeOK'
  <2>1. spent' \in [Replica -> SUBSET challenges']
    BY <1>1 DEF IInv, TypeOK
  <2>2. challenges' \subseteq Challenge
    BY <1>1, <1>2 DEF IInv, TypeOK
  <2> QED
    BY <1>1, <2>1, <2>2 DEF IInv, TypeOK
<1>4. IssuedInTime'
  BY <1>1, <1>2 DEF IInv, IssuedInTime
<1> QED
  BY <1>1, <1>3, <1>4 DEF IInv, ClocksClose, CallsPresentIssued, SpentRemembered,
     OnlyVerifiedAreSpent, SpentBy, OnceWhileFresh, SameChallenge

-----------------------------------------------------------------------------
(* The handler's steps.                                                    *)

LEMMA GetKeyInv ==
  ASSUME IInv, NEW q \in Call, NEW r \in Replica, NEW c \in challenges, GetKey(q, r, c)
  PROVE  IInv'
<1>1. /\ calls[q] = NotMade
      /\ r \in root
      /\ calls' = [calls EXCEPT ![q] = Made(r, c)]
      /\ UNCHANGED <<clock, root, challenges, spent, spenders, losses>>
      /\ TypeOK
  BY DEF GetKey, IInv
<1>2. /\ Made(r, c) \in CallState /\ Made(r, c) # NotMade
      /\ Made(r, c).at = r /\ Made(r, c).challenge = c
  BY <1>1 DEF Made, CallState, NotMade, Stage, TypeOK
<1>3. /\ calls' \in [Call -> CallState \cup {NotMade}]
      /\ calls'[q] = Made(r, c)
      /\ \A p \in Call : p # q => calls'[p] = calls[p]
  BY <1>1, <1>2 DEF TypeOK
<1>4. \A s \in Replica : \A p \in spenders[s] : p \in Call /\ calls'[p] = calls[p]
  BY <1>1, <1>3 DEF TypeOK
<1>5. TypeOK'
  BY <1>1, <1>2, <1>3, <1>4 DEF TypeOK
<1>6. CallsPresentIssued'
  BY <1>1, <1>2, <1>3 DEF IInv, CallsPresentIssued
<1>7. SpentRemembered' /\ OnceWhileFresh'
  BY <1>1, <1>4 DEF IInv, SpentRemembered, OnceWhileFresh, SameChallenge
<1>8. OnlyVerifiedAreSpent'
  <2> SUFFICES ASSUME NEW s \in Replica, NEW d \in spent[s]
               PROVE  \E p \in spenders[s] : SpentBy(p, d)'
    BY <1>1 DEF OnlyVerifiedAreSpent
  <2>1. PICK p \in spenders[s] : SpentBy(p, d)
    BY DEF IInv, OnlyVerifiedAreSpent
  <2> QED
    BY <1>4, <2>1 DEF SpentBy
<1> QED
  BY <1>1, <1>5, <1>6, <1>7, <1>8 DEF IInv, ClocksClose, IssuedInTime

\* What a step at call q that ends it, or moves it on, leaves as it was.
LEMMA CallMoves ==
  ASSUME TypeOK, NEW q \in Call, calls[q].stage \in {"attesting", "counting"},
         NEW stage \in Stage, NEW time \in Nat,
         calls' = [calls EXCEPT ![q].stage = stage, ![q].time = time]
  PROVE  /\ calls[q].at \in Replica
         /\ calls' \in [Call -> CallState \cup {NotMade}]
         /\ calls'[q] # NotMade
         /\ calls'[q].at = calls[q].at /\ calls'[q].challenge = calls[q].challenge
         /\ calls'[q].stage = stage /\ calls'[q].time = time
         /\ \A p \in Call : p # q => calls'[p] = calls[p]
         /\ \A s \in Replica : \A p \in spenders[s] : p \in Call /\ p # q /\ calls'[p] = calls[p]
<1>1. calls[q] \in CallState
  BY MadeCalls DEF Stage
<1>2. calls'[q] = [calls[q] EXCEPT !.stage = stage, !.time = time]
  BY DEF TypeOK
<1>3. /\ calls'[q] \in CallState
      /\ calls'[q].at = calls[q].at /\ calls'[q].challenge = calls[q].challenge
      /\ calls'[q].stage = stage /\ calls'[q].time = time
  <2> DEFINE k == calls[q]
  <2>1. k \in [at : Replica, challenge : Challenge, stage : Stage, time : Nat]
    BY <1>1 DEF CallState
  <2> HIDE DEF k
  <2>2. /\ [k EXCEPT !.stage = stage, !.time = time]
             \in [at : Replica, challenge : Challenge, stage : Stage, time : Nat]
        /\ [k EXCEPT !.stage = stage, !.time = time].at = k.at
        /\ [k EXCEPT !.stage = stage, !.time = time].challenge = k.challenge
        /\ [k EXCEPT !.stage = stage, !.time = time].stage = stage
        /\ [k EXCEPT !.stage = stage, !.time = time].time = time
    BY <2>1
  <2> QED
    BY <1>2, <2>2 DEF k, CallState
<1>4. calls' \in [Call -> CallState \cup {NotMade}]
      /\ \A p \in Call : p # q => calls'[p] = calls[p]
  BY <1>3 DEF TypeOK
<1>5. calls'[q] # NotMade
  <2>1. NotMade.stage \notin Stage
    BY DEF NotMade, Stage
  <2> QED
    BY <1>3, <2>1
<1>6. \A s \in Replica : \A p \in spenders[s] : p \in Call /\ p # q
  BY DEF TypeOK
<1> QED
  BY <1>1, <1>3, <1>4, <1>5, <1>6 DEF CallState

\* A call that ends without a key: the cache may only lose what has expired.
LEMMA RefusedInv ==
  ASSUME IInv, NEW q \in Call, calls[q].stage \in {"attesting", "counting"},
         NEW r \in Replica, r = calls[q].at,
         NEW stage \in Stage \ {"released"}, NEW time \in Nat,
         calls' = [calls EXCEPT ![q].stage = stage, ![q].time = time],
         spent' = spent \/ spent' = [spent EXCEPT ![r] = Unexpired(r)],
         UNCHANGED <<clock, root, challenges, spenders, losses>>
  PROVE  IInv'
<1>1. TypeOK
  BY DEF IInv
<1>2. /\ calls' \in [Call -> CallState \cup {NotMade}]
      /\ calls'[q] # NotMade
      /\ calls'[q].at = calls[q].at /\ calls'[q].challenge = calls[q].challenge
      /\ calls'[q].stage = stage
      /\ \A p \in Call : p # q => calls'[p] = calls[p]
      /\ \A s \in Replica : \A p \in spenders[s] : p \in Call /\ p # q /\ calls'[p] = calls[p]
  BY <1>1, CallMoves
<1>3. \A s \in Replica :
        /\ spent'[s] \subseteq spent[s]
        /\ \A c \in spent[s] : ~Expired(s, c) => c \in spent'[s]
  BY <1>1 DEF TypeOK, Unexpired
<1>4. TypeOK'
  <2>1. spent' \in [Replica -> SUBSET challenges']
    BY <1>1, <1>3 DEF TypeOK
  <2>2. \A p \in Call : calls'[p].stage \in {"attesting", "counting"} => calls'[p].at \in root'
    BY <1>1, <1>2 DEF TypeOK
  <2>3. \A s \in Replica : \A p \in spenders'[s] :
          calls'[p] # NotMade /\ calls'[p].stage \in {"released", "refused"} /\ calls'[p].at = s
    BY <1>1, <1>2 DEF TypeOK
  <2> QED
    BY <1>1, <1>2, <2>1, <2>2, <2>3 DEF TypeOK
<1>5. CallsPresentIssued'
  <2>1. calls[q] # NotMade
    BY <1>1, MadeCalls DEF Stage
  <2> QED
    BY <1>2, <2>1 DEF IInv, CallsPresentIssued
<1>6. SpentRemembered'
  <2> SUFFICES ASSUME NEW s \in Replica, NEW p \in spenders[s]
               PROVE  /\ calls[p].time <= clock[s]
                      /\ calls[p].challenge.expires >= clock[s]
                           => calls[p].challenge \in spent'[s]
    BY <1>2 DEF SpentRemembered
  <2>1. /\ calls[p].time <= clock[s]
        /\ calls[p].challenge.expires >= clock[s] => calls[p].challenge \in spent[s]
    BY DEF IInv, SpentRemembered
  <2>2. p \in Call /\ calls[p].stage \in Stage
    BY <1>1 DEF TypeOK, Stage
  <2>3. calls[p].challenge.expires \in Nat /\ clock[s] \in Nat
    BY <1>1, <2>2, MadeCalls DEF CallState, Challenge, TypeOK
  <2> QED
    BY <1>3, <2>1, <2>3 DEF Expired
<1>7. OnlyVerifiedAreSpent'
  <2> SUFFICES ASSUME NEW s \in Replica, NEW c \in spent[s]
               PROVE  \E p \in spenders[s] : SpentBy(p, c)'
    BY <1>3 DEF OnlyVerifiedAreSpent
  <2>1. PICK p \in spenders[s] : SpentBy(p, c)
    BY DEF IInv, OnlyVerifiedAreSpent
  <2> QED
    BY <1>2, <2>1 DEF SpentBy
<1>8. OnceWhileFresh'
  BY <1>2 DEF IInv, OnceWhileFresh, SameChallenge
<1> QED
  BY <1>4, <1>5, <1>6, <1>7, <1>8 DEF IInv, ClocksClose, IssuedInTime

\* How, and when, a call ends whose challenge is spent.
Ends(q, stage, time) ==
  /\ stage = "released" \/ (stage = "refused" /\ q \in LowOrder)
  /\ time = clock[calls[q].at]

\* A call whose challenge is spent: it has its key, or its seal key is refused.
LEMMA SpentInv ==
  ASSUME IInv, NEW q \in Call, calls[q].stage \in {"attesting", "counting"}, Spend(q),
         NEW stage \in Stage, NEW time \in Nat, Ends(q, stage, time),
         calls' = [calls EXCEPT ![q].stage = stage, ![q].time = time],
         NEW r \in Replica, r = calls[q].at, NEW c, c = calls[q].challenge,
         UNCHANGED <<clock, root, challenges, losses>>
  PROVE  IInv'
<1>1. TypeOK /\ clock[r] \in Nat /\ calls[q] # NotMade
  BY MadeCalls, Bounds DEF IInv, TypeOK, Stage, CallState
<1>2. /\ spent' = [spent EXCEPT ![r] = Unexpired(r) \cup {c}]
      /\ spenders' = [spenders EXCEPT ![r] = @ \cup {q}]
      /\ c \notin Unexpired(r)
  BY DEF Spend
<1>3. TypeOK
  BY DEF IInv
<1>4. /\ calls' \in [Call -> CallState \cup {NotMade}]
      /\ calls'[q] # NotMade
      /\ calls'[q].at = r /\ calls'[q].challenge = c
      /\ calls'[q].stage = stage /\ calls'[q].time = clock[r]
      /\ \A p \in Call : p # q => calls'[p] = calls[p]
      /\ \A s \in Replica : \A p \in spenders[s] : p \in Call /\ p # q /\ calls'[p] = calls[p]
  <2>1. /\ calls[q].at \in Replica
        /\ calls' \in [Call -> CallState \cup {NotMade}]
        /\ calls'[q] # NotMade
        /\ calls'[q].at = calls[q].at /\ calls'[q].challenge = calls[q].challenge
        /\ calls'[q].stage = stage /\ calls'[q].time = time
        /\ \A p \in Call : p # q => calls'[p] = calls[p]
        /\ \A s \in Replica : \A p \in spenders[s] : p \in Call /\ p # q /\ calls'[p] = calls[p]
    BY <1>3, CallMoves
  <2> QED
    BY <2>1 DEF Ends
<1>5. c \in challenges /\ c.expires \in Nat
  BY <1>1 DEF IInv, CallsPresentIssued, TypeOK, Challenge
<1>6. \A s \in Replica :
        /\ s = r => spenders'[s] = spenders[s] \cup {q} /\ spent'[s] = Unexpired(s) \cup {c}
        /\ s # r => spenders'[s] = spenders[s] /\ spent'[s] = spent[s]
        /\ Unexpired(s) \subseteq spent[s]
  <2>1. \A s \in Replica : Unexpired(s) \subseteq spent[s]
    BY DEF Unexpired
  <2>2. spenders \in [Replica -> SUBSET Call] /\ spent \in [Replica -> SUBSET challenges]
    BY <1>1 DEF TypeOK
  <2>3. spenders'[r] = spenders[r] \cup {q} /\ spent'[r] = Unexpired(r) \cup {c}
    BY <1>2, <2>2
  <2>4. \A s \in Replica : s # r => spenders'[s] = spenders[s] /\ spent'[s] = spent[s]
    BY <1>2, <2>2
  <2> QED
    BY <2>1, <2>3, <2>4
<1>7. TypeOK'
  <2>1. spent' \in [Replica -> SUBSET challenges']
    BY <1>1, <1>2, <1>5, <1>6 DEF TypeOK
  <2>2. spenders' \in [Replica -> SUBSET Call]
    BY <1>1, <1>2 DEF TypeOK
  <2>3. \A s \in Replica : \A p \in spenders'[s] :
          calls'[p] # NotMade /\ calls'[p].stage \in {"released", "refused"} /\ calls'[p].at = s
    <3> SUFFICES ASSUME NEW s \in Replica, NEW p \in spenders'[s]
                 PROVE  /\ calls'[p] # NotMade
                        /\ calls'[p].stage \in {"released", "refused"}
                        /\ calls'[p].at = s
      OBVIOUS
    <3>1. CASE p \in spenders[s]
      <4>1. /\ calls[p] # NotMade
            /\ calls[p].stage \in {"released", "refused"} /\ calls[p].at = s
        BY <1>3, <3>1 DEF TypeOK
      <4>2. calls'[p] = calls[p]
        BY <1>4, <3>1
      <4> QED
        BY <4>1, <4>2
    <3>2. CASE p = q /\ s = r
      BY <1>4, <3>2 DEF Ends
    <3> QED
      BY <1>6, <3>1, <3>2
  <2>4. \A p \in Call : calls'[p].stage \in {"attesting", "counting"} => calls'[p].at \in root'
    BY <1>1, <1>4 DEF TypeOK
  <2> QED
    BY <1>1, <1>4, <2>1, <2>2, <2>3, <2>4 DEF TypeOK
<1>8. CallsPresentIssued'
  BY <1>4, <1>5 DEF IInv, CallsPresentIssued
<1>9. \A s \in Replica : \A p \in spenders[s] :
        calls[p].challenge.expires \in Nat /\ clock[s] \in Nat
  <2> SUFFICES ASSUME NEW s \in Replica, NEW p \in spenders[s]
               PROVE  calls[p].challenge.expires \in Nat /\ clock[s] \in Nat
    OBVIOUS
  <2>1. p \in Call /\ calls[p].stage \in Stage
    BY <1>1 DEF TypeOK, Stage
  <2> QED
    BY <1>1, <2>1, MadeCalls, Bounds DEF CallState, Challenge, TypeOK
<1>10. SpentRemembered'
  <2>1. ASSUME NEW s \in Replica, NEW p \in spenders[s]
        PROVE  /\ calls[p].time <= clock[s]
               /\ calls[p].challenge.expires >= clock[s] => calls[p].challenge \in spent'[s]
    <3>1. /\ calls[p].time <= clock[s]
          /\ calls[p].challenge.expires >= clock[s] => calls[p].challenge \in spent[s]
      BY DEF IInv, SpentRemembered
    <3>2. calls[p].challenge.expires >= clock[s] => ~Expired(s, calls[p].challenge)
      BY <1>9 DEF Expired
    <3> QED
      BY <1>6, <3>1, <3>2 DEF Unexpired
  <2>2. calls'[q].time <= clock[r] /\ calls'[q].challenge \in spent'[r]
    BY <1>1, <1>4, <1>6
  <2> QED
    BY <1>4, <1>6, <2>1, <2>2 DEF SpentRemembered
<1>11. OnlyVerifiedAreSpent'
  <2> SUFFICES ASSUME NEW s \in Replica, NEW d \in spent'[s]
               PROVE  \E p \in spenders'[s] : SpentBy(p, d)'
    BY DEF OnlyVerifiedAreSpent
  <2>1. CASE s = r /\ d = c
    BY <1>4, <1>6, <2>1 DEF SpentBy, Ends
  <2>2. CASE d \in spent[s]
    <3>1. PICK p \in spenders[s] : SpentBy(p, d)
      BY <2>2 DEF IInv, OnlyVerifiedAreSpent
    <3> QED
      BY <1>4, <1>6, <3>1 DEF SpentBy
  <2> QED
    BY <1>6, <2>1, <2>2
<1>12. OnceWhileFresh'
  \* A key already spenders for the same challenge: its place has expired.
  <2>1. ASSUME NEW p \in spenders[r], calls[p].challenge = c
        PROVE  calls'[q].time > calls'[q].challenge.expires
    <3>1. c.expires >= clock[r] => c \in spent[r]
      BY <1>1, <2>1 DEF IInv, SpentRemembered
    <3>2. ~(c.expires >= clock[r])
      BY <1>1, <1>2, <1>5, <3>1 DEF Unexpired, Expired
    <3> QED
      BY <1>1, <1>4, <1>5, <3>2
  <2> SUFFICES ASSUME NEW s \in Replica, NEW p \in spenders'[s], NEW o \in spenders'[s],
                      p # o, calls'[p].challenge = calls'[o].challenge
               PROVE  \E k \in {p, o} : calls'[k].time > calls'[k].challenge.expires
    BY DEF OnceWhileFresh, SameChallenge
  <2>2. CASE p = q
    BY <1>4, <1>6, <2>1, <2>2
  <2>3. CASE o = q
    BY <1>4, <1>6, <2>1, <2>3
  <2>4. CASE p # q /\ o # q
    <3>1. p \in spenders[s] /\ o \in spenders[s] /\ calls'[p] = calls[p] /\ calls'[o] = calls[o]
      BY <1>4, <1>6, <2>4
    <3> QED
      BY <3>1 DEF IInv, OnceWhileFresh, SameChallenge
  <2> QED
    BY <2>2, <2>3, <2>4
<1> QED
  BY <1>7, <1>8, <1>10, <1>11, <1>12 DEF IInv, ClocksClose, IssuedInTime

LEMMA SpendInv ==
  ASSUME IInv, NEW q \in Call, calls[q].stage \in {"attesting", "counting"}, SpendChallenge(q)
  PROVE  IInv'
<1>1. CASE Release(q) \/ SealRefused(q)
  <2>1. calls[q].at \in Replica /\ clock[calls[q].at] \in Nat
    BY MadeCalls, Bounds DEF IInv, TypeOK, Stage, CallState
  <2>2. {"released", "refused"} \subseteq Stage /\ UNCHANGED <<clock, root, challenges, losses>>
    BY DEF Stage, SpendChallenge
  <2>3. CASE Release(q)
    BY <2>1, <2>2, <2>3, SpentInv DEF Release, End, Ends
  <2>4. CASE SealRefused(q)
    BY <2>1, <2>2, <2>4, SpentInv DEF SealRefused, End, Ends
  <2> QED
    BY <1>1, <2>3, <2>4
<1>2. CASE RefuseSpend(q)
  <2>1. calls[q].at \in Replica /\ clock[calls[q].at] \in Nat
    BY MadeCalls, Bounds DEF IInv, TypeOK, Stage, CallState
  <2>2. /\ calls' = [calls EXCEPT ![q].stage = "refused", ![q].time = clock[calls[q].at]]
        /\ spent' = [spent EXCEPT ![calls[q].at] = Unexpired(calls[q].at)]
        /\ UNCHANGED <<clock, root, challenges, spenders, losses>>
    BY <1>2 DEF RefuseSpend, SpendChallenge, End
  <2>3. "refused" \in Stage \ {"released"}
    BY DEF Stage
  <2> QED
    BY <2>1, <2>2, <2>3, RefusedInv
<1> QED
  BY <1>1, <1>2 DEF SpendChallenge

LEMMA AttestedInv == ASSUME IInv, NEW q \in Call, Attested(q) PROVE IInv'
<1>1. CASE q \in CounterCalls
  <2>1. calls[q] \in CallState
    BY MadeCalls DEF Attested, IInv, Stage
  <2>2. calls' = [calls EXCEPT ![q].stage = "counting"]
    BY <1>1 DEF Attested
  <2>3. calls' = [calls EXCEPT ![q].stage = "counting", ![q].time = calls[q].time]
    <3>1. calls \in [Call -> CallState \cup {NotMade}]
      BY DEF IInv, TypeOK
    <3> DEFINE k == calls[q]
               d == [k EXCEPT !.stage = "counting"]
               e == [k EXCEPT !.stage = "counting", !.time = k.time]
    <3>2. k \in [at : Replica, challenge : Challenge, stage : Stage, time : Nat]
      BY <2>1 DEF CallState
    <3>3. d = e
      <4> HIDE DEF k
      <4> QED
        BY <3>2
    <3>4. /\ calls' = [calls EXCEPT ![q] = d]
          /\ [calls EXCEPT ![q].stage = "counting", ![q].time = calls[q].time]
               = [calls EXCEPT ![q] = e]
      BY <2>2, <3>1
    <3> QED
      BY <3>3, <3>4
  <2>4. "counting" \in Stage \ {"released"} /\ calls[q].at \in Replica /\ calls[q].time \in Nat
    BY <2>1 DEF Stage, CallState
  <2> QED
    BY <1>1, <2>3, <2>4, RefusedInv DEF Attested
<1>2. CASE q \notin CounterCalls
  BY <1>2, SpendInv DEF Attested
<1> QED
  BY <1>1, <1>2

LEMMA RefuseAwaitedInv == ASSUME IInv, NEW q \in Call, RefuseAwaited(q) PROVE IInv'
<1>1. calls[q].at \in Replica /\ clock[calls[q].at] \in Nat
  BY MadeCalls, Bounds DEF RefuseAwaited, IInv, TypeOK, Stage, CallState
<1>2. "refused" \in Stage \ {"released"}
  BY DEF Stage
<1> QED
  BY <1>1, <1>2, RefusedInv DEF RefuseAwaited, End

LEMMA StepInv == IInv /\ [Next]_vars => IInv'
<1> SUFFICES ASSUME IInv, [Next]_vars PROVE IInv'
  OBVIOUS
<1>1. ASSUME NEW r \in Replica, Tick(r) \/ Lose(r) \/ Join(r) PROVE IInv'
  BY <1>1, TickInv, LoseInv, JoinInv
<1>2. ASSUME NEW r \in Replica, NEW x \in Random, IssueChallenge(r, x) PROVE IInv'
  BY <1>2, IssueInv
<1>3. ASSUME NEW q \in Call, NEW r \in Replica, NEW c \in challenges, GetKey(q, r, c)
      PROVE  IInv'
  BY <1>3, GetKeyInv
<1>4. ASSUME NEW q \in Call, Attested(q) \/ CountersRead(q) \/ RefuseAwaited(q) PROVE IInv'
  BY <1>4, AttestedInv, SpendInv, RefuseAwaitedInv DEF CountersRead
<1>5. CASE UNCHANGED vars
  BY <1>5 DEF vars, IInv, TypeOK, ClocksClose, IssuedInTime, CallsPresentIssued,
     SpentRemembered, OnlyVerifiedAreSpent, SpentBy, OnceWhileFresh, SameChallenge
<1> QED
  BY <1>1, <1>2, <1>3, <1>4, <1>5 DEF Next

-----------------------------------------------------------------------------
(* The theorems.                                                           *)

\* The inductive invariant of key release holds in every reachable state.
THEOREM ReleaseInvHolds == Spec => []IInv
BY InitInv, StepInv, PTL DEF Spec

\* The types of key release: what a call holds in each stage, and what is spent.
THEOREM TypeCorrect == Spec => []TypeOK
<1>1. IInv => TypeOK
  BY DEF IInv
<1> QED
  BY <1>1, ReleaseInvHolds, PTL

\* While a challenge is fresh a replica spends it at most once, and so gives at
\* most one key for it, whatever the number of requests that carry it and however
\* they overlap.
THEOREM OneKeyWhileFresh == Spec => []OnceWhileFresh
<1>1. IInv => OnceWhileFresh
  BY DEF IInv
<1> QED
  BY <1>1, ReleaseInvHolds, PTL

\* Only challenges of requests that verified to the end take a place in a
\* replica's cache: those given a key, and those whose seal key is then refused.
THEOREM UnverifiedSpendNothing == Spec => []OnlyVerifiedAreSpent
<1>1. IInv => OnlyVerifiedAreSpent
  BY DEF IInv
<1> QED
  BY <1>1, ReleaseInvHolds, PTL

\* Where every seal key is a proper one, what the comment of spend_challenge says
\* holds: the cache has challenges that released a key and nothing else.
THEOREM ReleasesAreSpent == ASSUME LowOrder = {} PROVE Spec => []OnlyReleasesAreSpent
<1>1. IInv => OnlyReleasesAreSpent
  BY DEF IInv, OnlyVerifiedAreSpent, OnlyReleasesAreSpent, SpentBy
<1> QED
  BY <1>1, ReleaseInvHolds, PTL

\* When clocks are no further apart than CLOCK_SKEW_SECS, no replica takes a
\* challenge the cluster issued for one it could not have issued yet.
THEOREM SkewTolerated == ASSUME Drift <= Skew PROVE Spec => []IssuedNeverTooLate
<1>1. IInv => IssuedNeverTooLate
  <2> SUFFICES ASSUME IInv, NEW c \in challenges, NEW r \in Replica
               PROVE  ~TooLate(r, c)
    BY DEF IssuedNeverTooLate
  <2>1. PICK s \in Replica : c.expires <= clock[s] + Ttl
    BY DEF IInv, IssuedInTime
  <2>2. clock[s] <= clock[r] + Drift
    BY DEF IInv, ClocksClose
  <2>3. c.expires \in Nat /\ clock[s] \in Nat /\ clock[r] \in Nat
    BY Bounds DEF IInv, TypeOK, Challenge
  <2> QED
    BY <2>1, <2>2, <2>3, Bounds DEF TooLate
<1> QED
  BY <1>1, ReleaseInvHolds, PTL

=============================================================================
