-------------------------------- MODULE Join --------------------------------
(***************************************************************************)
(* How a mero-kms replica gets its cluster's root (mero-kms/src/cluster.rs,*)
(* the root of backend.rs and the start of main.rs).  The root is kept in  *)
(* memory only.  A joiner goes round its peers; both sides of a join check *)
(* that the other is no debug TD, of an accepted TCB status, and of their  *)
(* own measurements.                                                       *)
(*                                                                         *)
(* The one-time keys, the seal and the two quotes bind an exchange to its  *)
(* nonce, so the exchange is its nonce.  A request may arrive late or more *)
(* than once: `copies` of its handler run.                                 *)
(***************************************************************************)
EXTENDS Naturals, Sequences

CONSTANTS
  Replica,
  Bootstrap,   \* those started with MERO_KMS_BOOTSTRAP
  Peers,       \* MERO_KMS_PEERS of each replica
  Image,       \* the measurements each replica's quotes carry
  Accepts,     \* whose quotes show no debug TD, and a TCB status in its policy
  Lax,         \* replicas of an image whose code gives its root to anyone
  Nonce,       \* bounds the joins in the air
  Copy,        \* times one request may be handled
  NoRoot, NoNonce,
  Ttl,         \* JOIN_NONCE_TTL_SECS
  MaxTime,     \* bound on the clock
  MaxFaults    \* bound on calls that fail and replicas that are lost

ASSUME ReplicaAssumption ==
  Bootstrap \subseteq Replica /\ Lax \subseteq Replica /\ NoRoot \notin Replica
ASSUME AcceptsAssumption == Accepts \in [Replica -> SUBSET Replica]
ASSUME PeersAssumption ==
  /\ Peers \in [Replica -> Seq(Replica)]
  /\ \A r \in Replica \ Bootstrap : Peers[r] # <<>>
ASSUME NonceAssumption == NoNonce \notin Nonce
ASSUME BoundAssumption == {Ttl, MaxFaults} \subseteq Nat /\ MaxTime \in Nat \ {0}

VARIABLES
  now,       \* unix seconds; a nonce is read by its issuer only
  root,      \* TdxBackend.root: the replica whose start generated it, or NoRoot
  next,      \* the peer a joiner's loop is at
  nonce,     \* the nonce of the join it waits for
  exchange,  \* nonces drawn: who gave whom, until when, is the request sent
  handler,   \* join_handler, for each copy of each request
  spent,     \* JoinNonces.spent
  faults     \* faults so far

vars == <<now, root, next, nonce, exchange, handler, spent, faults>>

Undrawn == [drawn |-> FALSE]

Exchange ==
  [drawn : {TRUE}, giver : Replica, joiner : Replica, expires : Nat, sent : BOOLEAN]

\* `sealed` is history: when the root was sealed.
Handler ==
  [stage : {"none", "verifying", "quoting", "answered", "refused"}, sealed : Nat]

Unhandled == [stage |-> "none", sealed |-> 0]

\* main starts join_until_ready unless the replica generated its root.
Joining(j) == root[j] = NoRoot /\ Peers[j] # <<>>

TypeOK ==
  /\ now \in 1..MaxTime
  /\ root \in [Replica -> Replica \cup {NoRoot}]
  /\ next \in [Replica -> Nat]
  /\ \A r \in Replica : Peers[r] # <<>> => next[r] \in 1..Len(Peers[r])
  /\ nonce \in [Replica -> Nonce \cup {NoNonce}]
  /\ \A r \in Replica : nonce[r] # NoNonce =>
       Joining(r) /\ exchange[nonce[r]].drawn /\ exchange[nonce[r]].joiner = r
  /\ exchange \in [Nonce -> Exchange \cup {Undrawn}]
  /\ handler \in [Nonce \X Copy -> Handler]
  /\ spent \in [Replica -> SUBSET Nonce]
  /\ faults \in 0..MaxFaults

\* main: a bootstrap replica generates the root, the others start to join.
Init ==
  /\ now = 1
  /\ root = [r \in Replica |-> IF r \in Bootstrap THEN r ELSE NoRoot]
  /\ next = [r \in Replica |-> 1]
  /\ nonce = [r \in Replica |-> NoNonce]
  /\ exchange = [n \in Nonce |-> Undrawn]
  /\ handler = [h \in Nonce \X Copy |-> Unhandled]
  /\ spent = [r \in Replica |-> {}]
  /\ faults = 0

Copies(n) == {n} \X Copy

Tick ==
  /\ now < MaxTime
  /\ now' = now + 1
  /\ UNCHANGED <<root, next, nonce, exchange, handler, spent, faults>>

-----------------------------------------------------------------------------
(* The joiner: join_from, within the loop of join_until_ready.             *)

Peer(j) == Peers[j][next[j]]

\* Mutant: the loop tries the same peer again.
SamePeer(j) == next' = next

NextPeer(j) == next' = [next EXCEPT ![j] = (@ % Len(Peers[j])) + 1]

\* The join at this peer is over: on to the next one, after a pause at the end.
MoveOn(j) == NextPeer(j) /\ nonce' = [nonce EXCEPT ![j] = NoNonce]

\* A call fails for a reason of its own: no connection, a timeout, no quote, no
\* collateral to verify a quote with.
Fault == faults < MaxFaults /\ faults' = faults + 1

\* A nonce nobody uses or remembers stands for one never drawn.
Fresh(n) ==
  /\ \A r \in Replica : nonce[r] # n /\ n \notin spent[r]
  /\ \A h \in Copies(n) : handler[h].stage \notin {"verifying", "quoting"}

\* POST /cluster/nonce, answered by a peer that holds the root.
AskNonce(j, n) ==
  /\ Joining(j) /\ nonce[j] = NoNonce
  /\ root[Peer(j)] # NoRoot
  /\ Fresh(n)
  /\ exchange' = [exchange EXCEPT ![n] =
       [drawn |-> TRUE, giver |-> Peer(j), joiner |-> j, expires |-> now + Ttl, sent |-> FALSE]]
  /\ handler' = [h \in Nonce \X Copy |-> IF h \in Copies(n) THEN Unhandled ELSE handler[h]]
  /\ nonce' = [nonce EXCEPT ![j] = n]
  /\ UNCHANGED <<now, root, next, spent, faults>>

\* ... or by one that has none yet: 503.
NonceRefused(j) ==
  /\ Joining(j) /\ nonce[j] = NoNonce
  /\ root[Peer(j)] = NoRoot
  /\ MoveOn(j)
  /\ UNCHANGED <<now, root, exchange, handler, spent, faults>>

\* The joiner has its quote and posts /cluster/join.
SendJoin(j) ==
  /\ nonce[j] # NoNonce
  /\ ~exchange[nonce[j]].sent
  /\ exchange' = [exchange EXCEPT ![nonce[j]].sent = TRUE]
  /\ UNCHANGED <<now, root, next, nonce, handler, spent, faults>>

\* The joiner gives this peer up, whether or not the peer carries on.
JoinFails(j) ==
  /\ Joining(j)
  /\ MoveOn(j)
  /\ Fault
  /\ UNCHANGED <<now, root, exchange, handler, spent>>

\* check_peer at r, over the quote of p.
Same(r, p) == p \in Accepts[r] /\ Image[p] = Image[r]

\* Mutant: the joiner does not check the giver.
AnyGiver(n) == TRUE

GiverIsSame(n) == Same(exchange[n].joiner, exchange[n].giver)

\* The sealed root arrives; a giver check_peer refuses is not believed.
JoinAnswered(j, h) ==
  /\ nonce[j] = h[1]
  /\ handler[h].stage = "answered"
  /\ IF GiverIsSame(h[1])
     THEN /\ root' = [root EXCEPT ![j] = root[exchange[h[1]].giver]]
          /\ nonce' = [nonce EXCEPT ![j] = NoNonce]
          /\ UNCHANGED next
     ELSE MoveOn(j) /\ UNCHANGED root
  /\ UNCHANGED <<now, exchange, handler, spent, faults>>

JoinRefused(j, h) ==
  /\ nonce[j] = h[1]
  /\ handler[h].stage = "refused"
  /\ MoveOn(j)
  /\ UNCHANGED <<now, root, exchange, handler, spent, faults>>

-----------------------------------------------------------------------------
(* The giver: join_handler.                                                *)

Expired(n) == exchange[n].expires < now

Stage(h, stage) == handler' = [handler EXCEPT ![h].stage = stage]

\* JoinNonces::open, then the quote goes to be verified.
OpenNonce(h) ==
  LET n == h[1] IN
  /\ exchange[n].drawn /\ exchange[n].sent
  /\ handler[h].stage = "none"
  /\ Stage(h, IF Expired(n) THEN "refused" ELSE "verifying")
  /\ UNCHANGED <<now, root, next, nonce, exchange, spent, faults>>

\* Mutant: an entry is dropped in the second its nonce expires.
UnexpiredEarly(g) == {n \in spent[g] : exchange[n].expires > now}

Unexpired(g) == {n \in spent[g] : ~Expired(n)}

\* What a giver's code asks of a joiner's quote.
Admitted(g, j) == g \in Lax \/ Same(g, j)

JoinerIsSame(n) == Admitted(exchange[n].giver, exchange[n].joiner)

\* The quote verified: JoinNonces::spend, and the root is sealed.
Verified(h) ==
  LET n == h[1]
      g == exchange[n].giver IN
  /\ handler[h].stage = "verifying"
  /\ JoinerIsSame(n)
  /\ IF n \in Unexpired(g)
     THEN /\ Stage(h, "refused")
          /\ spent' = [spent EXCEPT ![g] = Unexpired(g)]
     ELSE /\ handler' = [handler EXCEPT ![h] = [stage |-> "quoting", sealed |-> now]]
          /\ spent' = [spent EXCEPT ![g] = Unexpired(g) \cup {n}]
  /\ UNCHANGED <<now, root, next, nonce, exchange, faults>>

\* The joiner runs other code, in a debug TD, or with a TCB status not accepted.
RefuseJoiner(h) ==
  /\ handler[h].stage = "verifying"
  /\ ~JoinerIsSame(h[1])
  /\ Stage(h, "refused")
  /\ UNCHANGED <<now, root, next, nonce, exchange, spent, faults>>

\* The giver's own quote over the sealed root is taken, and the answer sent.
Quoted(h) ==
  /\ handler[h].stage = "quoting"
  /\ Stage(h, "answered")
  /\ UNCHANGED <<now, root, next, nonce, exchange, spent, faults>>

\* Verifying or quoting fails.
HandlerFails(h) ==
  /\ handler[h].stage \in {"verifying", "quoting"}
  /\ Stage(h, "refused")
  /\ Fault
  /\ UNCHANGED <<now, root, next, nonce, exchange, spent>>

-----------------------------------------------------------------------------
(* A replica is lost with its root and its nonces' key; what it had in the *)
(* air fails.  Its replacement joins: MERO_KMS_BOOTSTRAP is for one start. *)
Lose(r) ==
  LET Served == {n \in Nonce : exchange[n].drawn /\ exchange[n].giver = r}
      Cut    == {j \in Replica : nonce[j] \in Served} IN
  /\ Fault
  /\ root' = [root EXCEPT ![r] = NoRoot]
  /\ spent' = [spent EXCEPT ![r] = {}]
  /\ nonce' = [j \in Replica |-> IF j \in Cut \cup {r} THEN NoNonce ELSE nonce[j]]
  /\ next' = [j \in Replica |->
       IF j = r THEN 1 ELSE IF j \in Cut THEN (next[j] % Len(Peers[j])) + 1 ELSE next[j]]
  /\ exchange' = [n \in Nonce |-> IF n \in Served THEN Undrawn ELSE exchange[n]]
  /\ handler' = [h \in Nonce \X Copy |-> IF h[1] \in Served THEN Unhandled ELSE handler[h]]
  /\ UNCHANGED now

JoinerStep(j) ==
  \/ \E n \in Nonce : AskNonce(j, n)
  \/ NonceRefused(j) \/ SendJoin(j)
  \/ \E h \in Nonce \X Copy : JoinAnswered(j, h) \/ JoinRefused(j, h)

HandlerStep(h) == OpenNonce(h) \/ Verified(h) \/ RefuseJoiner(h) \/ Quoted(h)

Next ==
  \/ Tick
  \/ \E j \in Replica : JoinerStep(j) \/ JoinFails(j) \/ Lose(j)
  \/ \E h \in Nonce \X Copy : HandlerStep(h) \/ HandlerFails(h)

Spec == Init /\ [][Next]_vars

\* Every task and handler keeps running (tokio), and a call ends within its 30 s
\* timeout.  What fails is bounded by MaxFaults.
FairSpec ==
  /\ Spec
  /\ \A j \in Replica : WF_vars(JoinerStep(j))
  /\ \A h \in Nonce \X Copy : WF_vars(HandlerStep(h))

-----------------------------------------------------------------------------
(* Properties.                                                             *)

Sealed(h) == handler[h].stage \in {"quoting", "answered"}

\* Only code with the measurements of the replica that generated a root can ever
\* hold it or open it, however it was handed on; and a replica that did not
\* generate it has it from one it accepts, that admits it (cluster.rs:3-7, 11-12,
\* 290-306).
SameAsMe ==
  /\ \A r \in Replica : root[r] # NoRoot =>
       /\ Image[r] = Image[root[r]]
       /\ root[r] = r \/ \E g \in Replica : Same(r, g) /\ (g \in Lax \/ Same(g, r))
  /\ \A h \in Nonce \X Copy : Sealed(h) =>
       LET e == exchange[h[1]] IN e.giver \in Lax \/ Same(e.giver, e.joiner)

\* A nonce opens a join once while it is fresh, however requests overlap.
SealsOnceWhileFresh ==
  \A n \in Nonce : \A h, i \in Copies(n) :
    (h # i /\ handler[h].sealed > 0 /\ handler[i].sealed > 0) =>
      \E k \in {h, i} : handler[k].sealed > exchange[n].expires

\* A joiner with a peer that holds a root, when the two pass each other's checks,
\* gets a root, or every such peer is lost first: no dead, rootless or refused
\* peer before it in the list, and no late answer, keeps a replacement out
\* (cluster.rs:70-73, 484-485).
Reachable(j) ==
  \E i \in DOMAIN Peers[j] :
    LET p == Peers[j][i] IN root[p] # NoRoot /\ Same(j, p) /\ Admitted(p, j)

JoinersGetRoot ==
  \A j \in Replica : Reachable(j) ~> (root[j] # NoRoot \/ ~Reachable(j))

=============================================================================
