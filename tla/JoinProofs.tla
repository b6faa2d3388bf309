----------------------------- MODULE JoinProofs -----------------------------
(***************************************************************************)
(* The inductive invariant of Join and what follows from it, for any       *)
(* replicas, images and peers, any number of joins and copies, any times.  *)
(***************************************************************************)
EXTENDS Join, TLAPS

Handlers == Nonce \X Copy

\* A handler runs for a nonce that was drawn.
HandlersDrawn == \A h \in Handlers : handler[h].stage # "none" => exchange[h[1]].drawn

\* A giver remembers each nonce it sealed the root for while the nonce is fresh.
SealsRemembered ==
  \A h \in Handlers : handler[h].sealed > 0 =>
    /\ exchange[h[1]].drawn
    /\ h[1] \in spent[exchange[h[1]].giver] \/ Expired(h[1])

LEMMA Bounds == Ttl \in Nat /\ MaxTime \in Nat /\ MaxTime >= 1 /\ MaxFaults \in Nat
BY BoundAssumption

LEMMA DrawnExchange ==
  ASSUME TypeOK, NEW n \in Nonce, exchange[n].drawn
  PROVE  exchange[n] \in Exchange
<1>1. exchange[n] \in Exchange \cup {Undrawn}
  BY DEF TypeOK
<1> QED
  BY <1>1 DEF Undrawn

\* The loop stays within the list, and starts over at its end.
LEMMA OnwardInList ==
  ASSUME NEW s \in Seq(Replica), s # <<>>, NEW i \in Nat
  PROVE  (i % Len(s)) + 1 \in 1..Len(s)
<1>1. Len(s) \in Nat /\ Len(s) > 0
  BY Z3
<1> QED
  BY <1>1, Z3

LEMMA PeersInList ==
  ASSUME NEW r \in Replica
  PROVE  Peers[r] \in Seq(Replica)
BY PeersAssumption

\* MoveOn keeps what TypeOK says of the joiner's place and nonce.
LEMMA MoveOnType ==
  ASSUME TypeOK, NEW j \in Replica, Peers[j] # <<>>, MoveOn(j)
  PROVE  /\ next' \in [Replica -> Nat]
         /\ \A r \in Replica : Peers[r] # <<>> => next'[r] \in 1..Len(Peers[r])
         /\ nonce' \in [Replica -> Nonce \cup {NoNonce}]
         /\ \A r \in Replica : nonce'[r] # NoNonce => r # j /\ nonce'[r] = nonce[r]
<1>1. next' = [next EXCEPT ![j] = (@ % Len(Peers[j])) + 1]
      /\ nonce' = [nonce EXCEPT ![j] = NoNonce]
  BY DEF MoveOn, NextPeer
<1>2. next[j] \in Nat /\ Peers[j] \in Seq(Replica)
  BY PeersInList DEF TypeOK
<1>3. (next[j] % Len(Peers[j])) + 1 \in 1..Len(Peers[j])
  BY <1>2, OnwardInList
<1>4. (next[j] % Len(Peers[j])) + 1 \in Nat
  BY <1>3, <1>2
<1> QED
  BY <1>1, <1>3, <1>4 DEF TypeOK

\* A joiner that waits for a nonce has no root, has peers, and the nonce is its own.
LEMMA Waiting ==
  ASSUME TypeOK, NEW j \in Replica, nonce[j] # NoNonce
  PROVE  /\ nonce[j] \in Nonce
         /\ root[j] = NoRoot /\ Peers[j] # <<>>
         /\ exchange[nonce[j]] \in Exchange
         /\ exchange[nonce[j]].joiner = j /\ exchange[nonce[j]].drawn
<1>1. nonce[j] \in Nonce /\ Joining(j)
      /\ exchange[nonce[j]].drawn /\ exchange[nonce[j]].joiner = j
  BY DEF TypeOK
<1> QED
  BY <1>1, DrawnExchange DEF Joining

-----------------------------------------------------------------------------
(* Types.                                                                  *)

LEMMA InitType == Init => TypeOK
<1> SUFFICES ASSUME Init PROVE TypeOK
  OBVIOUS
<1>1. now \in 1..MaxTime /\ faults \in 0..MaxFaults
  BY Bounds DEF Init
<1>2. \A r \in Replica : Peers[r] # <<>> => next[r] \in 1..Len(Peers[r])
  <2> SUFFICES ASSUME NEW r \in Replica, Peers[r] # <<>> PROVE 1 \in 1..Len(Peers[r])
    BY DEF Init
  <2> QED
    BY PeersInList, OnwardInList, Z3
<1>3. handler \in [Nonce \X Copy -> Handler]
  BY DEF Init, Handler, Unhandled
<1>4. exchange \in [Nonce -> Exchange \cup {Undrawn}]
  BY DEF Init
<1>5. \A r \in Replica : nonce[r] = NoNonce
  BY DEF Init
<1>6. root \in [Replica -> Replica \cup {NoRoot}] /\ next \in [Replica -> Nat]
      /\ nonce \in [Replica -> Nonce \cup {NoNonce}] /\ spent \in [Replica -> SUBSET Nonce]
  BY DEF Init
<1> QED
  BY <1>1, <1>2, <1>3, <1>4, <1>5, <1>6 DEF TypeOK

LEMMA AskType ==
  ASSUME TypeOK, NEW j \in Replica, NEW n \in Nonce, AskNonce(j, n)
  PROVE  TypeOK'
<1>1. Joining(j) /\ Peer(j) \in Replica
  <2>1. Joining(j) /\ Peers[j] # <<>>
    BY DEF AskNonce, Joining
  <2>2. Peers[j] \in Seq(Replica) /\ next[j] \in 1..Len(Peers[j])
    BY <2>1, PeersInList DEF TypeOK
  <2> QED
    BY <2>1, <2>2 DEF Peer
<1>2. [drawn |-> TRUE, giver |-> Peer(j), joiner |-> j, expires |-> now + Ttl, sent |-> FALSE]
        \in Exchange
  BY <1>1, Bounds DEF Exchange, TypeOK
<1>3. /\ exchange' \in [Nonce -> Exchange \cup {Undrawn}]
      /\ \A m \in Nonce : m # n => exchange'[m] = exchange[m]
      /\ exchange'[n].drawn /\ exchange'[n].joiner = j
  BY <1>2 DEF AskNonce, TypeOK
<1>4. handler' \in [Nonce \X Copy -> Handler]
  BY DEF AskNonce, TypeOK, Handler, Unhandled
<1>5. nonce' = [nonce EXCEPT ![j] = n] /\ nonce' \in [Replica -> Nonce \cup {NoNonce}]
  BY DEF AskNonce, TypeOK
<1>6. \A r \in Replica : nonce[r] # n
  BY DEF AskNonce, Fresh
<1>7. UNCHANGED <<now, root, next, spent, faults>> /\ (\A r \in Replica : Joining(r)' = Joining(r))
  BY DEF AskNonce, Joining
<1>8. \A r \in Replica : nonce'[r] # NoNonce =>
        Joining(r)' /\ exchange'[nonce'[r]].drawn /\ exchange'[nonce'[r]].joiner = r
  <2> SUFFICES ASSUME NEW r \in Replica, nonce'[r] # NoNonce
               PROVE  Joining(r)' /\ exchange'[nonce'[r]].drawn /\ exchange'[nonce'[r]].joiner = r
    OBVIOUS
  <2>1. CASE r = j
    <3>1. nonce'[j] = n
      BY <1>5 DEF TypeOK
    <3>2. Joining(j)'
      BY <1>1, <1>7
    <3> QED
      BY <2>1, <3>1, <3>2, <1>3
  <2>2. CASE r # j
    <3>1. nonce'[r] = nonce[r] /\ nonce[r] \in Nonce /\ nonce[r] # n
      BY <2>2, <1>5, <1>6 DEF TypeOK
    <3> QED
      BY <3>1, <1>3, <1>7 DEF TypeOK
  <2> QED
    BY <2>1, <2>2
<1> QED
  BY <1>3, <1>4, <1>5, <1>7, <1>8 DEF TypeOK

LEMMA MoveOnKeepsType ==
  ASSUME TypeOK, NEW j \in Replica, Peers[j] # <<>>, MoveOn(j), faults' \in 0..MaxFaults,
         UNCHANGED <<now, root, exchange, handler, spent>>
  PROVE  TypeOK'
<1>1. /\ next' \in [Replica -> Nat]
      /\ \A r \in Replica : Peers[r] # <<>> => next'[r] \in 1..Len(Peers[r])
      /\ nonce' \in [Replica -> Nonce \cup {NoNonce}]
      /\ \A r \in Replica : nonce'[r] # NoNonce => nonce'[r] = nonce[r]
  BY MoveOnType
<1>2. \A r \in Replica : Joining(r)' = Joining(r)
  BY DEF Joining
<1>3. \A r \in Replica : nonce'[r] # NoNonce =>
        Joining(r)' /\ exchange'[nonce'[r]].drawn /\ exchange'[nonce'[r]].joiner = r
  BY <1>1, <1>2 DEF TypeOK
<1> QED
  BY <1>1, <1>3 DEF TypeOK

LEMMA FaultType == ASSUME TypeOK, Fault PROVE faults' \in 0..MaxFaults
BY Bounds DEF TypeOK, Fault

LEMMA SendType ==
  ASSUME TypeOK, NEW j \in Replica, SendJoin(j)
  PROVE  TypeOK'
<1>1. nonce[j] \in Nonce /\ exchange[nonce[j]] \in Exchange
  BY Waiting DEF SendJoin
<1>2. exchange' = [exchange EXCEPT ![nonce[j]] = [@ EXCEPT !.sent = TRUE]]
  BY DEF SendJoin
<1>3. [exchange[nonce[j]] EXCEPT !.sent = TRUE] \in Exchange
  BY <1>1 DEF Exchange
<1>4. exchange' \in [Nonce -> Exchange \cup {Undrawn}]
  BY <1>1, <1>2, <1>3 DEF TypeOK
<1>5. \A n \in Nonce : exchange'[n].drawn = exchange[n].drawn
                       /\ (n # nonce[j] => exchange'[n] = exchange[n])
                       /\ exchange'[nonce[j]].joiner = exchange[nonce[j]].joiner
  BY <1>1, <1>2 DEF TypeOK, Exchange
<1>6. UNCHANGED <<now, root, next, nonce, handler, spent, faults>>
      /\ \A r \in Replica : Joining(r)' = Joining(r)
  BY DEF SendJoin, Joining
<1>7. \A r \in Replica : nonce'[r] # NoNonce =>
        Joining(r)' /\ exchange'[nonce'[r]].drawn /\ exchange'[nonce'[r]].joiner = r
  <2> SUFFICES ASSUME NEW r \in Replica, nonce[r] # NoNonce
               PROVE  Joining(r) /\ exchange'[nonce[r]].drawn /\ exchange'[nonce[r]].joiner = r
    BY <1>6
  <2>1. nonce[r] \in Nonce /\ Joining(r) /\ exchange[nonce[r]].drawn /\ exchange[nonce[r]].joiner = r
    BY DEF TypeOK
  <2> QED
    BY <2>1, <1>5
<1> QED
  BY <1>4, <1>6, <1>7 DEF TypeOK

LEMMA AnsweredType ==
  ASSUME TypeOK, NEW j \in Replica, NEW h \in Nonce \X Copy, JoinAnswered(j, h)
  PROVE  TypeOK'
<1>1. nonce[j] = h[1] /\ h[1] \in Nonce /\ nonce[j] # NoNonce
  BY NonceAssumption DEF JoinAnswered
<1>2. exchange[h[1]] \in Exchange /\ root[j] = NoRoot /\ Peers[j] # <<>>
  BY <1>1, Waiting
<1>3. CASE GiverIsSame(h[1])
  <2>1. /\ root' = [root EXCEPT ![j] = root[exchange[h[1]].giver]]
        /\ nonce' = [nonce EXCEPT ![j] = NoNonce]
        /\ UNCHANGED <<now, next, exchange, handler, spent, faults>>
    BY <1>3 DEF JoinAnswered
  <2>2. root' \in [Replica -> Replica \cup {NoRoot}] /\ nonce' \in [Replica -> Nonce \cup {NoNonce}]
    BY <2>1, <1>2 DEF TypeOK, Exchange
  <2>3. \A r \in Replica : nonce'[r] # NoNonce =>
          Joining(r)' /\ exchange'[nonce'[r]].drawn /\ exchange'[nonce'[r]].joiner = r
    <3> SUFFICES ASSUME NEW r \in Replica, nonce'[r] # NoNonce
                 PROVE  Joining(r)' /\ exchange[nonce'[r]].drawn /\ exchange[nonce'[r]].joiner = r
      BY <2>1
    <3>1. r # j /\ nonce'[r] = nonce[r] /\ root'[r] = root[r]
      BY <2>1 DEF TypeOK
    <3>2. Joining(r) /\ exchange[nonce[r]].drawn /\ exchange[nonce[r]].joiner = r
      BY <3>1 DEF TypeOK
    <3> QED
      BY <3>1, <3>2 DEF Joining
  <2> QED
    BY <2>1, <2>2, <2>3 DEF TypeOK
<1>4. CASE ~GiverIsSame(h[1])
  <2>1. MoveOn(j) /\ UNCHANGED <<now, root, exchange, handler, spent>> /\ faults' \in 0..MaxFaults
    BY <1>4 DEF JoinAnswered, TypeOK
  <2> QED
    BY <2>1, <1>2, MoveOnKeepsType
<1> QED
  BY <1>3, <1>4

\* A handler's step changes its stage and perhaps what its giver remembers.
LEMMA HandlerType ==
  ASSUME TypeOK, handler' \in [Nonce \X Copy -> Handler], spent' \in [Replica -> SUBSET Nonce],
         faults' \in 0..MaxFaults, UNCHANGED <<now, root, next, nonce, exchange>>
  PROVE  TypeOK'
<1>1. \A r \in Replica : Joining(r)' = Joining(r)
  BY DEF Joining
<1> QED
  BY <1>1 DEF TypeOK

LEMMA StageType ==
  ASSUME TypeOK, NEW h \in Nonce \X Copy,
         NEW s \in {"none", "verifying", "quoting", "answered", "refused"}, Stage(h, s)
  PROVE  handler' \in [Nonce \X Copy -> Handler]
<1>1. handler[h] \in Handler /\ handler' = [handler EXCEPT ![h] = [@ EXCEPT !.stage = s]]
  BY DEF TypeOK, Stage
<1>2. [handler[h] EXCEPT !.stage = s] \in Handler
  BY <1>1 DEF Handler
<1> QED
  BY <1>1, <1>2 DEF TypeOK

\* A handler in a stage was drawn for: its giver is a replica.
LEMMA VerifiedType ==
  ASSUME TypeOK, HandlersDrawn, NEW h \in Nonce \X Copy, Verified(h)
  PROVE  TypeOK'
<1> DEFINE n == h[1]
           g == exchange[n].giver
<1>1. n \in Nonce /\ exchange[n] \in Exchange /\ g \in Replica
  BY DrawnExchange DEF HandlersDrawn, Handlers, Verified, Exchange
<1>2. Unexpired(g) \subseteq Nonce
  BY <1>1 DEF Unexpired, TypeOK
<1>3. spent' \in [Replica -> SUBSET Nonce]
  <2>1. spent' = [spent EXCEPT ![g] = Unexpired(g)]
          \/ spent' = [spent EXCEPT ![g] = Unexpired(g) \cup {n}]
    BY DEF Verified
  <2> HIDE DEF n, g
  <2> QED
    BY <1>1, <1>2, <2>1 DEF TypeOK
<1>4. handler' \in [Nonce \X Copy -> Handler]
  <2>1. CASE n \in Unexpired(g)
    BY <2>1, StageType DEF Verified
  <2>2. CASE n \notin Unexpired(g)
    <3>1. [stage |-> "quoting", sealed |-> now] \in Handler
      BY Bounds DEF TypeOK, Handler
    <3> QED
      BY <2>2, <3>1 DEF Verified, TypeOK
  <2> QED
    BY <2>1, <2>2
<1> QED
  BY <1>3, <1>4, HandlerType DEF Verified, TypeOK
\* A lost replica forgets what it had; what it served or waited for is cut.
LEMMA LoseType ==
  ASSUME TypeOK, NEW r \in Replica, Lose(r)
  PROVE  TypeOK'
<1> DEFINE Served == {n \in Nonce : exchange[n].drawn /\ exchange[n].giver = r}
           Cut    == {j \in Replica : nonce[j] \in Served}
<1>1. /\ root' = [root EXCEPT ![r] = NoRoot]
      /\ spent' = [spent EXCEPT ![r] = {}]
      /\ nonce' = [j \in Replica |-> IF j \in Cut \cup {r} THEN NoNonce ELSE nonce[j]]
      /\ next' = [j \in Replica |->
           IF j = r THEN 1 ELSE IF j \in Cut THEN (next[j] % Len(Peers[j])) + 1 ELSE next[j]]
      /\ exchange' = [n \in Nonce |-> IF n \in Served THEN Undrawn ELSE exchange[n]]
      /\ handler' = [h \in Nonce \X Copy |-> IF h[1] \in Served THEN Unhandled ELSE handler[h]]
      /\ now' = now /\ faults' \in 0..MaxFaults
  BY FaultType DEF Lose
<1>2. \A j \in Replica : /\ next'[j] \in Nat
                         /\ Peers[j] # <<>> => next'[j] \in 1..Len(Peers[j])
  <2> SUFFICES ASSUME NEW j \in Replica
               PROVE  next'[j] \in Nat /\ (Peers[j] # <<>> => next'[j] \in 1..Len(Peers[j]))
    OBVIOUS
  <2>1. CASE j = r
    <3>1. Peers[j] # <<>> => (0 % Len(Peers[j])) + 1 \in 1..Len(Peers[j])
      BY PeersInList, OnwardInList
    <3>2. Peers[j] # <<>> => 1 \in 1..Len(Peers[j])
      BY <3>1, PeersInList, Z3
    <3> QED
      BY <1>1, <2>1, <3>2
  <2>2. CASE j # r /\ j \in Cut
    <3>1. nonce[j] # NoNonce
      BY <2>2, NonceAssumption
    <3>2. Peers[j] # <<>>
      BY <3>1, Waiting
    <3>3. next[j] \in Nat
      BY DEF TypeOK
    <3>4. (next[j] % Len(Peers[j])) + 1 \in 1..Len(Peers[j])
      BY <3>2, <3>3, PeersInList, OnwardInList
    <3>5. (next[j] % Len(Peers[j])) + 1 \in Nat
      BY <3>4, PeersInList
    <3>6. next'[j] = (next[j] % Len(Peers[j])) + 1
      BY <1>1, <2>2
    <3> QED
      BY <3>4, <3>5, <3>6
  <2>3. CASE j # r /\ j \notin Cut
    <3>1. next'[j] = next[j]
      BY <1>1, <2>3
    <3> QED
      BY <3>1 DEF TypeOK
  <2> QED
    BY <2>1, <2>2, <2>3
<1>3. next' \in [Replica -> Nat]
  <2>1. DOMAIN next' = Replica /\ next' = [j \in Replica |-> next'[j]]
    BY <1>1
  <2> QED
    BY <2>1, <1>2
<1>4. root' \in [Replica -> Replica \cup {NoRoot}] /\ spent' \in [Replica -> SUBSET Nonce]
  BY <1>1 DEF TypeOK
<1>5. nonce' \in [Replica -> Nonce \cup {NoNonce}]
  BY <1>1 DEF TypeOK
<1>6. exchange' \in [Nonce -> Exchange \cup {Undrawn}]
  BY <1>1 DEF TypeOK
<1>7. handler' \in [Nonce \X Copy -> Handler]
  BY <1>1 DEF TypeOK, Handler, Unhandled
<1>8. \A j \in Replica : nonce'[j] # NoNonce =>
        Joining(j)' /\ exchange'[nonce'[j]].drawn /\ exchange'[nonce'[j]].joiner = j
  <2> SUFFICES ASSUME NEW j \in Replica, nonce'[j] # NoNonce
               PROVE  Joining(j)' /\ exchange'[nonce'[j]].drawn /\ exchange'[nonce'[j]].joiner = j
    OBVIOUS
  <2>1. j # r /\ nonce[j] \notin Served /\ nonce'[j] = nonce[j]
    BY <1>1
  <2>2. nonce[j] \in Nonce /\ Joining(j) /\ exchange[nonce[j]].drawn /\ exchange[nonce[j]].joiner = j
    BY <2>1 DEF TypeOK
  <2>3. exchange'[nonce[j]] = exchange[nonce[j]] /\ root'[j] = root[j]
    BY <1>1, <2>1, <2>2 DEF TypeOK
  <2> QED
    BY <2>1, <2>2, <2>3 DEF Joining
<1> QED
  BY <1>1, <1>2, <1>3, <1>4, <1>5, <1>6, <1>7, <1>8, Bounds DEF TypeOK

LEMMA TypeStep == ASSUME TypeOK, HandlersDrawn, [Next]_vars PROVE TypeOK'
<1>1. CASE Tick
  <2>1. now' \in 1..MaxTime /\ UNCHANGED <<root, next, nonce, exchange, handler, spent, faults>>
    BY <1>1, Bounds DEF Tick, TypeOK
  <2>2. \A r \in Replica : Joining(r)' = Joining(r)
    BY <2>1 DEF Joining
  <2> QED
    BY <2>1, <2>2 DEF TypeOK
<1>2. ASSUME NEW j \in Replica, NEW n \in Nonce, AskNonce(j, n) PROVE TypeOK'
  BY <1>2, AskType
<1>3. ASSUME NEW j \in Replica, NonceRefused(j) PROVE TypeOK'
  BY <1>3, MoveOnKeepsType DEF NonceRefused, Joining, TypeOK
<1>4. ASSUME NEW j \in Replica, SendJoin(j) PROVE TypeOK'
  BY <1>4, SendType
<1>5. ASSUME NEW j \in Replica, NEW h \in Nonce \X Copy, JoinAnswered(j, h) PROVE TypeOK'
  BY <1>5, AnsweredType
<1>6. ASSUME NEW j \in Replica, NEW h \in Nonce \X Copy, JoinRefused(j, h) PROVE TypeOK'
  <2>1. nonce[j] # NoNonce
    BY <1>6, NonceAssumption DEF JoinRefused
  <2> QED
    BY <1>6, <2>1, Waiting, MoveOnKeepsType DEF JoinRefused, TypeOK
<1>7. ASSUME NEW j \in Replica, JoinFails(j) PROVE TypeOK'
  BY <1>7, FaultType, MoveOnKeepsType DEF JoinFails, Joining
<1>8. ASSUME NEW j \in Replica, Lose(j) PROVE TypeOK'
  BY <1>8, LoseType
<1>9. ASSUME NEW h \in Nonce \X Copy, Verified(h) PROVE TypeOK'
  BY <1>9, VerifiedType
<1>10. ASSUME NEW h \in Nonce \X Copy, OpenNonce(h) \/ RefuseJoiner(h) \/ Quoted(h) PROVE TypeOK'
  <2>1. /\ \E s \in {"none", "verifying", "quoting", "answered", "refused"} : Stage(h, s)
        /\ UNCHANGED <<now, root, next, nonce, exchange, spent, faults>>
    BY <1>10 DEF OpenNonce, RefuseJoiner, Quoted
  <2>2. handler' \in [Nonce \X Copy -> Handler]
    BY <2>1, StageType
  <2> QED
    BY <2>1, <2>2, HandlerType DEF TypeOK
<1>11. ASSUME NEW h \in Nonce \X Copy, HandlerFails(h) PROVE TypeOK'
  <2>1. handler' \in [Nonce \X Copy -> Handler]
    BY <1>11, StageType DEF HandlerFails
  <2> QED
    BY <1>11, <2>1, FaultType, HandlerType DEF HandlerFails, TypeOK
<1>12. CASE UNCHANGED vars
  <2>1. \A r \in Replica : Joining(r)' = Joining(r)
    BY <1>12 DEF vars, Joining
  <2> QED
    BY <1>12, <2>1 DEF vars, TypeOK
<1> QED
  BY <1>1, <1>2, <1>3, <1>4, <1>5, <1>6, <1>7, <1>8, <1>9, <1>10, <1>11, <1>12
     DEF Next, JoinerStep, HandlerStep
-----------------------------------------------------------------------------
(* The roots and the handlers.                                             *)

Safe == SameAsMe /\ HandlersDrawn /\ SealsRemembered /\ SealsOnceWhileFresh

LEMMA InitSafe == Init => Safe
<1> SUFFICES ASSUME Init PROVE Safe
  OBVIOUS
<1>1. \A h \in Handlers : handler[h] = Unhandled
  BY DEF Init, Handlers
<1>2. SameAsMe
  BY <1>1 DEF Init, SameAsMe, Sealed, Handlers, Unhandled
<1>3. HandlersDrawn /\ SealsRemembered
  BY <1>1 DEF HandlersDrawn, SealsRemembered, Unhandled
<1>4. SealsOnceWhileFresh
  BY <1>1 DEF SealsOnceWhileFresh, Copies, Handlers, Unhandled
<1> QED
  BY <1>2, <1>3, <1>4 DEF Safe

LEMMA QuietSafe ==
  ASSUME Safe, UNCHANGED <<now, root, exchange, handler, spent>>
  PROVE  Safe'
BY DEF Safe, SameAsMe, HandlersDrawn, SealsRemembered, SealsOnceWhileFresh, Sealed, Expired

LEMMA TickSafe ==
  ASSUME TypeOK, Safe, Tick
  PROVE  Safe'
<1>1. UNCHANGED <<root, exchange, handler, spent>> /\ now \in Nat /\ now' = now + 1
  BY Bounds DEF Tick, TypeOK
<1>2. SameAsMe' /\ HandlersDrawn' /\ SealsOnceWhileFresh'
  BY <1>1 DEF Safe, SameAsMe, HandlersDrawn, SealsOnceWhileFresh, Sealed
<1>3. SealsRemembered'
  <2> SUFFICES ASSUME NEW h \in Handlers, handler[h].sealed > 0
               PROVE  /\ exchange[h[1]].drawn
                      /\ h[1] \in spent[exchange[h[1]].giver] \/ Expired(h[1])'
    BY <1>1 DEF SealsRemembered
  <2>1. exchange[h[1]].drawn /\ (h[1] \in spent[exchange[h[1]].giver] \/ Expired(h[1]))
    BY DEF Safe, SealsRemembered
  <2>2. exchange[h[1]].expires \in Nat
    BY <2>1, DrawnExchange DEF Handlers, Exchange
  <2> QED
    BY <1>1, <2>1, <2>2 DEF Expired
<1> QED
  BY <1>2, <1>3 DEF Safe

\* A nonce is drawn anew only when nothing of its last exchange is left.
LEMMA AskSafe ==
  ASSUME TypeOK, Safe, NEW j \in Replica, NEW n \in Nonce, AskNonce(j, n)
  PROVE  Safe'
<1>1. /\ UNCHANGED <<now, root, spent>>
      /\ \A m \in Nonce : m # n => exchange'[m] = exchange[m]
      /\ exchange'[n].drawn
  BY DEF AskNonce, TypeOK
<1>2. \A h \in Handlers : IF h[1] = n THEN handler'[h] = Unhandled ELSE handler'[h] = handler[h]
  <2> SUFFICES ASSUME NEW h \in Handlers
               PROVE  IF h[1] = n THEN handler'[h] = Unhandled ELSE handler'[h] = handler[h]
    OBVIOUS
  <2>1. h \in Copies(n) <=> h[1] = n
    BY DEF Handlers, Copies
  <2> QED
    BY <2>1 DEF AskNonce, Handlers
<1>3. \A h \in Handlers : h[1] \in Nonce
  BY DEF Handlers
<1>4. SameAsMe'
  BY <1>1, <1>2, <1>3 DEF Safe, SameAsMe, Sealed, Handlers, Unhandled
<1>5. HandlersDrawn'
  BY <1>1, <1>2, <1>3 DEF Safe, HandlersDrawn
<1>6. SealsRemembered'
  BY <1>1, <1>2, <1>3 DEF Safe, SealsRemembered, Expired, Unhandled
<1>7. SealsOnceWhileFresh'
  <2> SUFFICES ASSUME NEW m \in Nonce, NEW h \in Copies(m), NEW i \in Copies(m), h # i,
                      handler'[h].sealed > 0, handler'[i].sealed > 0
               PROVE  \E k \in {h, i} : handler'[k].sealed > exchange'[m].expires
    BY DEF SealsOnceWhileFresh, Copies
  <2>1. h \in Handlers /\ i \in Handlers /\ h[1] = m /\ i[1] = m
    BY DEF Handlers, Copies
  <2>2. m # n
    BY <1>2, <2>1 DEF Unhandled
  <2> QED
    BY <1>1, <1>2, <2>1, <2>2 DEF Safe, SealsOnceWhileFresh
<1> QED
  BY <1>4, <1>5, <1>6, <1>7 DEF Safe

LEMMA SendSafe ==
  ASSUME TypeOK, Safe, NEW j \in Replica, SendJoin(j)
  PROVE  Safe'
<1>1. nonce[j] \in Nonce /\ exchange[nonce[j]] \in Exchange
  BY Waiting DEF SendJoin
<1>2. UNCHANGED <<now, root, handler, spent>>
      /\ exchange' = [exchange EXCEPT ![nonce[j]] = [@ EXCEPT !.sent = TRUE]]
  BY DEF SendJoin
<1>3. \A n \in Nonce : /\ exchange'[n].drawn = exchange[n].drawn
                       /\ exchange'[n].giver = exchange[n].giver
                       /\ exchange'[n].joiner = exchange[n].joiner
                       /\ exchange'[n].expires = exchange[n].expires
  BY <1>1, <1>2 DEF TypeOK, Exchange
<1>4. \A h \in Handlers : h[1] \in Nonce
  BY DEF Handlers
<1>5. SameAsMe'
  BY <1>2, <1>3, <1>4 DEF Safe, SameAsMe, Sealed, Handlers
<1>6. HandlersDrawn' /\ SealsRemembered'
  BY <1>2, <1>3, <1>4 DEF Safe, HandlersDrawn, SealsRemembered, Expired
<1>7. SealsOnceWhileFresh'
  BY <1>2, <1>3 DEF Safe, SealsOnceWhileFresh, Copies
<1> QED
  BY <1>5, <1>6, <1>7 DEF Safe

\* The joiner takes the giver's root for one of its own image's.
LEMMA AnsweredSafe ==
  ASSUME TypeOK, Safe, NEW j \in Replica, NEW h \in Handlers, JoinAnswered(j, h)
  PROVE  Safe'
<1> USE DEF Handlers
<1>1. nonce[j] = h[1] /\ h[1] \in Nonce /\ nonce[j] # NoNonce
  BY NonceAssumption DEF JoinAnswered
<1>2. exchange[h[1]] \in Exchange /\ exchange[h[1]].joiner = j
  BY <1>1, Waiting
<1>3. CASE GiverIsSame(h[1])
  <2>1. /\ root' = [root EXCEPT ![j] = root[exchange[h[1]].giver]]
        /\ UNCHANGED <<now, exchange, handler, spent>>
    BY <1>3 DEF JoinAnswered
  <2> DEFINE g == exchange[h[1]].giver
  <2>2. Same(j, g) /\ g \in Replica
    BY <1>2, <1>3 DEF GiverIsSame, Exchange
  <2>3. g \in Lax \/ Same(g, j)
    BY <1>2 DEF Safe, SameAsMe, Sealed, JoinAnswered
  <2> HIDE DEF g
  <2>4. \A r \in Replica : root'[r] # NoRoot =>
          /\ Image[r] = Image[root'[r]]
          /\ root'[r] = r \/ \E i \in Replica : Same(r, i) /\ (i \in Lax \/ Same(i, r))
    <3> SUFFICES ASSUME NEW r \in Replica, root'[r] # NoRoot
                 PROVE  /\ Image[r] = Image[root'[r]]
                        /\ root'[r] = r \/ \E i \in Replica : Same(r, i) /\ (i \in Lax \/ Same(i, r))
      OBVIOUS
    <3>1. CASE r = j
      <4>1. root'[r] = root[g]
        BY <2>1, <3>1 DEF TypeOK, g
      <4>2. Image[g] = Image[root[g]] /\ Image[g] = Image[r]
        BY <2>2, <3>1, <4>1 DEF Safe, SameAsMe, Same
      <4> QED
        BY <2>2, <2>3, <3>1, <4>1, <4>2
    <3>2. CASE r # j
      BY <2>1, <3>2 DEF Safe, SameAsMe, TypeOK
    <3> QED
      BY <3>1, <3>2
  <2>5. SameAsMe'
    BY <2>1, <2>4 DEF Safe, SameAsMe, Sealed
  <2> QED
    BY <2>1, <2>5 DEF Safe, HandlersDrawn, SealsRemembered, SealsOnceWhileFresh, Expired
<1>4. CASE ~GiverIsSame(h[1])
  BY <1>4, QuietSafe DEF JoinAnswered
<1> QED
  BY <1>3, <1>4

\* A stage moves on with no root sealed by it.
LEMMA StageSafe ==
  ASSUME TypeOK, Safe, NEW h \in Handlers,
         NEW s \in {"none", "verifying", "quoting", "answered", "refused"}, Stage(h, s),
         exchange[h[1]].drawn, s \in {"quoting", "answered"} => Sealed(h),
         UNCHANGED <<now, root, exchange>>,
         \A i \in Handlers : handler[i].sealed > 0 =>
           i[1] \in spent'[exchange[i[1]].giver] \/ Expired(i[1])
  PROVE  Safe'
<1>1. \A i \in Handlers : handler[i] \in Handler
  BY DEF TypeOK, Handlers
<1>2. /\ \A i \in Handlers : i # h => handler'[i] = handler[i]
      /\ handler'[h].stage = s
      /\ \A i \in Handlers : handler'[i].sealed = handler[i].sealed
  BY <1>1 DEF Stage, TypeOK, Handler, Handlers
<1>3. SameAsMe'
  <2>1. \A i \in Handlers : Sealed(i)' => Sealed(i)
    BY <1>2 DEF Sealed
  <2> QED
    BY <2>1 DEF Safe, SameAsMe, Handlers
<1>4. HandlersDrawn'
  BY <1>2 DEF Safe, HandlersDrawn
<1>5. SealsRemembered'
  BY <1>2 DEF Safe, SealsRemembered, Expired
<1>6. SealsOnceWhileFresh'
  <2>1. \A n \in Nonce : Copies(n) \subseteq Handlers
    BY DEF Copies, Handlers
  <2> QED
    BY <1>2, <2>1 DEF Safe, SealsOnceWhileFresh
<1> QED
  BY <1>3, <1>4, <1>5, <1>6 DEF Safe
\* Dropping what expired, and adding a nonce, forgets no fresh one.
LEMMA SpendRemembers ==
  ASSUME TypeOK, Safe, NEW g \in Replica, NEW new \in SUBSET Nonce,
         spent' = [spent EXCEPT ![g] = Unexpired(g) \cup new]
  PROVE  \A i \in Handlers : handler[i].sealed > 0 =>
           i[1] \in spent'[exchange[i[1]].giver] \/ Expired(i[1])
<1> SUFFICES ASSUME NEW i \in Handlers, handler[i].sealed > 0, ~Expired(i[1])
             PROVE  i[1] \in spent'[exchange[i[1]].giver]
  OBVIOUS
<1>1. i[1] \in spent[exchange[i[1]].giver] /\ exchange[i[1]].drawn /\ i[1] \in Nonce
  BY DEF Safe, SealsRemembered, Handlers
<1>2. exchange[i[1]].giver \in Replica
  BY <1>1, DrawnExchange DEF Exchange
<1>3. CASE exchange[i[1]].giver = g
  <2>1. i[1] \in Unexpired(g)
    BY <1>1, <1>3 DEF Unexpired
  <2> QED
    BY <1>3, <2>1 DEF TypeOK
<1>4. CASE exchange[i[1]].giver # g
  BY <1>1, <1>2, <1>4 DEF TypeOK
<1> QED
  BY <1>3, <1>4

\* A root is sealed for code of the giver's image, and again only for a nonce
\* that has expired.
LEMMA VerifiedSafe ==
  ASSUME TypeOK, Safe, NEW h \in Handlers, Verified(h)
  PROVE  Safe'
<1> DEFINE n == h[1]
           g == exchange[n].giver
<1>1. exchange[n].drawn /\ exchange[n] \in Exchange /\ g \in Replica /\ n \in Nonce
  <2>1. exchange[n].drawn /\ n \in Nonce
    BY DEF Safe, HandlersDrawn, Verified, Handlers
  <2> QED
    BY <2>1, DrawnExchange DEF Exchange
<1>2. UNCHANGED <<now, root, exchange>> /\ JoinerIsSame(n)
  BY DEF Verified
<1>3. CASE n \in Unexpired(g)
  <2>1. Stage(h, "refused") /\ spent' = [spent EXCEPT ![g] = Unexpired(g) \cup {}]
    BY <1>3 DEF Verified
  <2>2. \A i \in Handlers : handler[i].sealed > 0 =>
          i[1] \in spent'[exchange[i[1]].giver] \/ Expired(i[1])
    <3>1. {} \in SUBSET Nonce
      OBVIOUS
    <3> HIDE DEF n, g
    <3> QED
      BY <1>1, <2>1, <3>1, SpendRemembers
  <2> QED
    BY <1>1, <1>2, <2>1, <2>2, StageSafe
<1>4. CASE n \notin Unexpired(g)
  <2>1. /\ handler' = [handler EXCEPT ![h] = [stage |-> "quoting", sealed |-> now]]
        /\ spent' = [spent EXCEPT ![g] = Unexpired(g) \cup {n}]
    BY <1>4 DEF Verified
  <2>2. /\ handler'[h] = [stage |-> "quoting", sealed |-> now]
        /\ \A i \in Handlers : i # h => handler'[i] = handler[i]
    BY <2>1 DEF TypeOK, Handlers
  <2>3. \A i \in Handlers : handler[i].sealed > 0 =>
          i[1] \in spent'[exchange[i[1]].giver] \/ Expired(i[1])
    <3>1. {n} \in SUBSET Nonce
      BY <1>1
    <3> HIDE DEF n, g
    <3> QED
      BY <1>1, <2>1, <3>1, SpendRemembers
  <2>4. n \in spent'[g]
    BY <1>1, <2>1 DEF TypeOK
  <2>5. SameAsMe'
    <3>1. \A i \in Handlers : Sealed(i)' => i = h \/ Sealed(i)
      BY <2>2 DEF Sealed
    <3>2. g \in Lax \/ Same(g, exchange[n].joiner)
      BY <1>2 DEF JoinerIsSame, Admitted
    <3> QED
      BY <1>2, <3>1, <3>2 DEF Safe, SameAsMe, Handlers
  <2>6. HandlersDrawn'
    BY <1>1, <1>2, <2>2 DEF Safe, HandlersDrawn
  <2>7. SealsRemembered'
    BY <1>1, <1>2, <2>2, <2>3, <2>4 DEF Safe, SealsRemembered, Expired
  <2>8. SealsOnceWhileFresh'
    <3> SUFFICES ASSUME NEW m \in Nonce, NEW i \in Copies(m), NEW k \in Copies(m), i # k,
                        handler'[i].sealed > 0, handler'[k].sealed > 0
                 PROVE  \E c \in {i, k} : handler'[c].sealed > exchange[m].expires
      BY <1>2 DEF SealsOnceWhileFresh, Copies
    <3>1. i \in Handlers /\ k \in Handlers /\ i[1] = m /\ k[1] = m
      BY DEF Copies, Handlers
    <3>2. CASE i # h /\ k # h
      BY <2>2, <3>1, <3>2 DEF Safe, SealsOnceWhileFresh
    <3>3. CASE i = h \/ k = h
      <4>1. PICK c \in {i, k} : c # h /\ handler[c].sealed > 0
        BY <2>2, <3>1, <3>3
      <4>2. m = n /\ c \in Handlers /\ c[1] = n
        BY <3>1, <3>3
      <4>3. Expired(n)
        BY <1>4, <4>1, <4>2 DEF Safe, SealsRemembered, Unexpired
      <4>4. now > exchange[n].expires
        BY <1>1, <4>3, Bounds DEF Expired, Exchange, TypeOK
      <4> QED
        BY <2>2, <3>3, <4>2, <4>4
    <3> QED
      BY <3>2, <3>3
  <2> QED
    BY <2>5, <2>6, <2>7, <2>8 DEF Safe
<1> QED
  BY <1>3, <1>4

LEMMA LoseSafe ==
  ASSUME TypeOK, Safe, NEW r \in Replica, Lose(r)
  PROVE  Safe'
<1> DEFINE Served == {n \in Nonce : exchange[n].drawn /\ exchange[n].giver = r}
<1>1. /\ root' = [root EXCEPT ![r] = NoRoot]
      /\ spent' = [spent EXCEPT ![r] = {}]
      /\ exchange' = [n \in Nonce |-> IF n \in Served THEN Undrawn ELSE exchange[n]]
      /\ handler' = [h \in Nonce \X Copy |-> IF h[1] \in Served THEN Unhandled ELSE handler[h]]
      /\ now' = now
  BY DEF Lose
<1>2. \A h \in Handlers :
        /\ h[1] \in Nonce
        /\ h[1] \in Served => handler'[h] = Unhandled
        /\ h[1] \notin Served => handler'[h] = handler[h] /\ exchange'[h[1]] = exchange[h[1]]
  BY <1>1 DEF Handlers
<1>3. SameAsMe'
  <2>1. \A s \in Replica : root'[s] # NoRoot => root'[s] = root[s]
    BY <1>1 DEF TypeOK
  <2>2. \A h \in Handlers : Sealed(h)' => Sealed(h) /\ exchange'[h[1]] = exchange[h[1]]
    BY <1>2 DEF Sealed, Unhandled
  <2> QED
    BY <2>1, <2>2 DEF Safe, SameAsMe, Handlers
<1>4. HandlersDrawn'
  BY <1>2 DEF Safe, HandlersDrawn, Unhandled
<1>5. SealsRemembered'
  <2> SUFFICES ASSUME NEW h \in Handlers, handler'[h].sealed > 0
               PROVE  /\ exchange'[h[1]].drawn
                      /\ h[1] \in spent'[exchange'[h[1]].giver] \/ Expired(h[1])'
    BY DEF SealsRemembered
  <2>1. h[1] \notin Served /\ handler[h].sealed > 0 /\ exchange'[h[1]] = exchange[h[1]]
    BY <1>2 DEF Unhandled
  <2>2. exchange[h[1]].drawn /\ (h[1] \in spent[exchange[h[1]].giver] \/ Expired(h[1]))
    BY <2>1 DEF Safe, SealsRemembered
  <2>3. exchange[h[1]].giver \in Replica /\ exchange[h[1]].giver # r
    BY <1>2, <2>1, <2>2, DrawnExchange DEF Exchange
  <2> QED
    BY <1>1, <2>1, <2>2, <2>3 DEF Expired, TypeOK
<1>6. SealsOnceWhileFresh'
  <2> SUFFICES ASSUME NEW m \in Nonce, NEW h \in Copies(m), NEW i \in Copies(m), h # i,
                      handler'[h].sealed > 0, handler'[i].sealed > 0
               PROVE  \E k \in {h, i} : handler'[k].sealed > exchange'[m].expires
    BY DEF SealsOnceWhileFresh, Copies
  <2>1. h \in Handlers /\ i \in Handlers /\ h[1] = m /\ i[1] = m
    BY DEF Handlers, Copies
  <2>2. m \notin Served
    BY <1>2, <2>1 DEF Unhandled
  <2> QED
    BY <1>2, <2>1, <2>2 DEF Safe, SealsOnceWhileFresh
<1> QED
  BY <1>3, <1>4, <1>5, <1>6 DEF Safe

LEMMA SafeStep == ASSUME TypeOK, Safe, [Next]_vars PROVE Safe'
<1>1. CASE Tick
  BY <1>1, TickSafe
<1>2. ASSUME NEW j \in Replica, NEW n \in Nonce, AskNonce(j, n) PROVE Safe'
  BY <1>2, AskSafe
<1>3. ASSUME NEW j \in Replica, NonceRefused(j) \/ JoinFails(j) PROVE Safe'
  BY <1>3, QuietSafe DEF NonceRefused, JoinFails
<1>4. ASSUME NEW j \in Replica, SendJoin(j) PROVE Safe'
  BY <1>4, SendSafe
<1>5. ASSUME NEW j \in Replica, NEW h \in Nonce \X Copy, JoinAnswered(j, h) PROVE Safe'
  BY <1>5, AnsweredSafe DEF Handlers
<1>6. ASSUME NEW j \in Replica, NEW h \in Nonce \X Copy, JoinRefused(j, h) PROVE Safe'
  BY <1>6, QuietSafe DEF JoinRefused
<1>7. ASSUME NEW j \in Replica, Lose(j) PROVE Safe'
  BY <1>7, LoseSafe
<1>8. ASSUME NEW h \in Nonce \X Copy, Verified(h) PROVE Safe'
  BY <1>8, VerifiedSafe DEF Handlers
<1>9. ASSUME NEW h \in Nonce \X Copy,
             OpenNonce(h) \/ RefuseJoiner(h) \/ Quoted(h) \/ HandlerFails(h)
      PROVE Safe'
  <2>1. h \in Handlers /\ exchange[h[1]].drawn /\ UNCHANGED <<now, root, exchange, spent>>
    BY <1>9 DEF Safe, HandlersDrawn, Handlers, OpenNonce, RefuseJoiner, Quoted, HandlerFails
  <2>2. \E s \in {"verifying", "answered", "refused"} :
          Stage(h, s) /\ (s = "answered" => Sealed(h))
    BY <1>9 DEF OpenNonce, RefuseJoiner, Quoted, HandlerFails, Sealed
  <2>3. \A i \in Handlers : handler[i].sealed > 0 =>
          i[1] \in spent'[exchange[i[1]].giver] \/ Expired(i[1])
    BY <2>1 DEF Safe, SealsRemembered
  <2> QED
    BY <2>1, <2>2, <2>3, StageSafe
<1>10. CASE UNCHANGED vars
  BY <1>10, QuietSafe DEF vars
<1> QED
  BY <1>1, <1>2, <1>3, <1>4, <1>5, <1>6, <1>7, <1>8, <1>9, <1>10
     DEF Next, JoinerStep, HandlerStep

-----------------------------------------------------------------------------
(* The theorems.                                                           *)

LEMMA Invariant == Spec => [](TypeOK /\ Safe)
<1>1. Init => TypeOK /\ Safe
  BY InitType, InitSafe
<1>2. TypeOK /\ Safe /\ [Next]_vars => (TypeOK /\ Safe)'
  BY TypeStep, SafeStep DEF Safe
<1> QED
  BY <1>1, <1>2, PTL DEF Spec

\* Every variable of Join keeps its type, and a joiner waits for a nonce of its own.
THEOREM JoinTypeCorrect == Spec => []TypeOK
BY Invariant, PTL

\* A root is held only by code with the measurements of the replica that generated
\* it, had from a replica the holder accepts and that admits it, and sealed only
\* for a joiner that passes the check of any replica that checks its joiners: both
\* sides' checks (check_peer), however often the root is handed on.
THEOREM RootStaysInImage == Spec => []SameAsMe
<1>1. TypeOK /\ Safe => SameAsMe
  BY DEF Safe
<1> QED
  BY <1>1, Invariant, PTL

\* The root is sealed at most once for a nonce while the nonce is fresh, though
\* requests overlap and the list of spent nonces forgets (JoinNonces::spend).
THEOREM NonceSealsOnce == Spec => []SealsOnceWhileFresh
<1>1. TypeOK /\ Safe => SealsOnceWhileFresh
  BY DEF Safe
<1> QED
  BY <1>1, Invariant, PTL
=============================================================================
