------------------------------ MODULE Release ------------------------------
(***************************************************************************)
(* A TD and the KMS it asks for its key: /attest, /challenge, /get-key and *)
(* /rollback/* end to end (mero-kms/src/handlers, sealed.rs, backend.rs),  *)
(* under the configuration of Config and Policy.  Whoever carries the      *)
(* messages is not trusted (sealed.rs:3-8): a message that was sent may    *)
(* arrive at any cluster, session or endpoint, late, twice or not at all.  *)
(*                                                                         *)
(* A hash, a MAC or a derived key is the tuple of what goes into it, with  *)
(* its domain or salt.  The requester is a session, one boot of a TD: it   *)
(* is merod, outside this repository, and follows the protocol these       *)
(* handlers serve.  KeyRelease has the challenge's expiry and its single   *)
(* use, Counters how replicas keep a counter: here a call may be refused   *)
(* after any await, a read holds what was acknowledged before it began,    *)
(* and a cluster's replicas, which share its root, are told apart no more. *)
(***************************************************************************)
EXTENDS Config, CounterViews

CONSTANTS
  Cluster,        \* the clusters, each named by its root
  Session,        \* boots of TDs
  Image,          \* the released image each session's TD runs, or NoRole
  Quoted,         \* the registers and TCB status of its quotes
  Peer,           \* its peer id
  NodeId,         \* its node id
  Mode,           \* what it asks for: "clear", "sealed" or "counted"
  Env,            \* environments of the KMS's image
  Called,         \* those a session talks to
  Call,           \* requests a cluster serves
  Mark,           \* the marks of stores
  MaxBoots,       \* bound on the sessions that start
  MaxRollbacks,   \* bound on the /rollback calls sessions make
  NotNamed,       \* a request that names no node id
  None            \* nothing yet

NotSealed == "not sealed"

ASSUME SessionAssumption ==
  /\ Image \in [Session -> Role \cup {NoRole}]
  /\ NodeId \in [Session -> Node]
  /\ Mode \in [Session -> {"clear", "sealed", "counted"}]
  /\ NotSealed \notin Session /\ NotNamed \notin Node
ASSUME MarkAssumption ==
  Mark \subseteq Nat /\ NoEntry \notin Nat /\ {MaxBoots, MaxRollbacks} \subseteq Nat

\* A variable is unset, or has text; a prefix is a sequence of segments.
ASSUME EnvAssumption == \A e \in Env : e.prefix \in [Role -> Seq(STRING) \cup {Unset}]

\* Sessions talk to a KMS that enforces its policy, whose lists hold what the
\* released images of a role measure and nothing else (policy.rs:7-9).
ASSUME CalledAssumption ==
  /\ Called \subseteq Env
  /\ \A e \in Called : Or(e.enforce, TRUE) = TRUE
  /\ \A e \in Called, s \in Session, r \in Role :
       (\A g \in Register : Quoted[s].registers[g] \in Lists(e, r)[g]) <=> Image[s] = r

VARIABLES
  config,     \* what the service read from its environment, or Refused
  session,    \* how far each session is
  call,       \* how far each served request is
  answers,    \* what /get-key answered
  acks,       \* what /rollback/* answered
  written,    \* raises and resets submitted, by key path of each cluster
  held        \* those a majority acknowledged

vars == <<config, session, call, answers, acks, written, held>>

Refused == [starts |-> FALSE]

Started(e) == IF Starts(e) THEN FromEnv(e) ELSE Refused

-----------------------------------------------------------------------------
(* Keys derived from a root (backend.rs), each kind under its own salt.    *)

\* Mutant: every cluster derives one and the same transport key.
SharedTransportKey(root) == <<"derive", TransportKeyPath>>

TransportKey(root) == <<root, "derive", TransportKeyPath>>

StorageKey(root, path) == <<root, "derive", path>>

ChallengeKey(root) == <<root, "challenge-mac">>

\* Mutant: a session's key of the same name is derived alike in every cluster.
SharedSessionKey(root, path, node, id) == <<"rollback-session", path, node, id>>

SessionKey(root, path, node, id) == <<root, "rollback-session", path, node, id>>

-----------------------------------------------------------------------------
(* /attest.                                                                *)

DefaultBinding == <<"mero-kms-attest-v1">>

AttestBinding(binding, transport) == <<"attest-transport-key/v1", binding, transport>>

AttestBindingV2(binding, transport) ==
  <<"attest-transport-key/v2", binding, transport, "rollback/v1">>

\* Mutant: the caller's bytes as given.
VerbatimAttestBinding(binding) == binding

PlainAttestBinding(binding) == <<"attest-plain/v1", binding>>

\* attest_kms_handler: the 32 bytes the quote of a replica of root carries after
\* the caller's nonce.
AttestedBinding(root, binding, mode) ==
  CASE mode = "counted" -> AttestBindingV2(binding, TransportKey(root))
    [] mode = "sealed" -> AttestBinding(binding, TransportKey(root))
    [] OTHER -> PlainAttestBinding(binding)

\* The transport key of nobody's cluster, and what callers may ask quoted.
StrangeKey == <<"no root", "derive", TransportKeyPath>>

CallerBinding ==
  {DefaultBinding, AttestBinding(DefaultBinding, StrangeKey),
   AttestBindingV2(DefaultBinding, StrangeKey)}

\* What a session expects of the key named in the answer, by the mode it asked.
ExpectedBinding(s, transport) ==
  IF Mode[s] = "counted" THEN AttestBindingV2(DefaultBinding, transport)
  ELSE AttestBinding(DefaultBinding, transport)

-----------------------------------------------------------------------------
(* /challenge (stateless_challenge.rs): tag and nonce are MACs under the   *)
(* cluster's challenge key, over a random and the peer.                    *)

ChallengeMac(root, domain, random, peer) == <<ChallengeKey(root), domain, random, peer>>

Issue(root, random, peer) ==
  [id |-> [random |-> random, tag |-> ChallengeMac(root, "challenge-id", random, peer)],
   nonce |-> ChallengeMac(root, "challenge", random, peer)]

Opens(root, id, peer) == id.tag = ChallengeMac(root, "challenge-id", id.random, peer)

Nonce(root, id, peer) == ChallengeMac(root, "challenge", id.random, peer)

-----------------------------------------------------------------------------
(* The request to /get-key.                                                *)

\* What a request's quote carries after the challenge's nonce.
RequestBinding(peer, sealTo, node) ==
  CASE sealTo = NotSealed -> <<"peer", peer>>
    [] sealTo # NotSealed /\ node = NotNamed -> <<"sealed-get-key/v1", sealTo, peer>>
    [] OTHER -> <<"sealed-get-key/v2", sealTo, peer, node>>

SignaturePayload(id, nonce, quote, peer, sealTo, node) ==
  <<id, nonce, quote, peer, sealTo, node>>

\* The request of session s: its one-time seal key is named by the session.
RequestOf(s, challenge) ==
  LET sealTo == IF Mode[s] = "clear" THEN NotSealed ELSE s
      node == IF Mode[s] = "counted" THEN NodeId[s] ELSE NotNamed
      quote == [registers |-> Quoted[s].registers, tcb |-> Quoted[s].tcb,
        reportData |-> <<challenge.nonce, RequestBinding(Peer[s], sealTo, node)>>] IN
  [id |-> challenge.id, quote |-> quote, peer |-> Peer[s], sealTo |-> sealTo, node |-> node,
   signature |-> <<Peer[s], SignaturePayload(challenge.id, challenge.nonce, quote, Peer[s],
                                             sealTo, node)>>]

\* The key that signed is the peer's, and it signed the whole request.
PeerSigned(root, request) ==
  request.signature =
    <<request.peer, SignaturePayload(request.id, Nonce(root, request.id, request.peer),
                                     request.quote, request.peer, request.sealTo, request.node)>>

\* release_key up to the await of the quote's verification.
Admits(root, request) ==
  /\ request.node # NotNamed => request.sealTo # NotSealed
  /\ config.requireSealed => request.sealTo # NotSealed
  /\ Opens(root, request.id, request.peer)
  /\ PeerSigned(root, request)

\* verify_and_enforce_attestation of a genuine quote.
RoleReleased(root, request) ==
  LET binding == RequestBinding(request.peer, request.sealTo, request.node) IN
  IF request.quote.reportData = <<Nonce(root, request.id, request.peer), binding>>
  THEN RoleOf(config.policy, request.quote)
  ELSE NoRole

\* seal_bytes: who can open it and under which transport key it authenticates.
Sealed(domain, root, request, plain) ==
  [domain |-> domain, transport |-> TransportKey(root), sealTo |-> request.sealTo,
   nonce |-> Nonce(root, request.id, request.peer), peer |-> request.peer, plain |-> plain]

\* The answer of call q, and what it holds.
AnswerOf(q, root, request, role, view) ==
  LET path == KeyPath(config, role, request.peer)
      key == StorageKey(root, path) IN
  CASE request.sealTo = NotSealed -> [domain |-> "clear", plain |-> [key |-> key]]
    [] request.sealTo # NotSealed /\ request.node = NotNamed ->
         Sealed("sealed-key/v1", root, request, [key |-> key])
    [] OTHER ->
         Sealed("sealed-key/v2", root, request,
           [key |-> key,
            epoch |-> view.epoch,
            entry |-> IF request.node \in Known(view) THEN view.nodes[request.node]
                      ELSE [generation |-> view.epoch, mark |-> NoEntry],
            id |-> q,
            sessionKey |-> SessionKey(root, path, request.node, q)])

-----------------------------------------------------------------------------
(* Calls to /rollback/*.                                                   *)

\* Mutant: one domain for both calls.
RollbackDomainShared(kind) == "rollback/v1"

RollbackDomain(kind) == IF kind = "raise" THEN "rollback-raise/v1" ELSE "rollback-reset/v1"

\* request_message under its domain, MACed with the session's key.
RollbackMac(key, domain, m) ==
  <<key, domain, m.peer, m.node, m.id, m.generation, m.mark, m.nonce>>

AckMac(key, nonce, epoch, entry) == <<key, "rollback-ack/v1", nonce, epoch, entry>>

-----------------------------------------------------------------------------
(* A session.                                                              *)

NotStarted ==
  [stage |-> "new", cluster |-> None, transport |-> None, challenge |-> None, since |-> {},
   release |-> None, waiting |-> None, sent |-> {}, acked |-> {}]

Init ==
  /\ config \in {Started(e) : e \in Env}
  /\ session = [s \in Session |-> NotStarted]
  /\ call = [q \in Call |-> [stage |-> "not served"]]
  /\ answers = {}
  /\ acks = {}
  /\ written = {}
  /\ held = {}

CalledConfig == {Started(e) : e \in Called} \ {Refused}

Talking == config \in CalledConfig

MayStart(s) ==
  /\ session[s].stage = "new"
  /\ Cardinality({t \in Session : session[t].stage # "new"}) < MaxBoots

\* It verifies a quote over its fresh nonce.  Whoever carried its request may have
\* asked a binding and a mode of their own, and the key the answer names is not
\* itself in the quote; `cluster` is history, whose quote it was.
Attest(s) ==
  /\ MayStart(s)
  /\ Mode[s] # "clear"
  /\ \E root \in Cluster, binding \in CallerBinding, mode \in {"clear", "sealed", "counted"},
        transport \in {TransportKey(c) : c \in Cluster} \cup {StrangeKey} :
       /\ AttestedBinding(root, binding, mode) = ExpectedBinding(s, transport)
       /\ session' = [session EXCEPT ![s].stage = "attested", ![s].cluster = root,
                                     ![s].transport = transport]
  /\ UNCHANGED <<config, call, answers, acks, written, held>>

\* It asks with a challenge some cluster issued, to it or to another peer, and
\* remembers what had been acknowledged to sessions by then.
Ask(s) ==
  /\ IF Mode[s] = "clear" THEN MayStart(s) ELSE session[s].stage = "attested"
  /\ \E root \in Cluster, t \in {u \in Session : u = s \/ Peer[u] # Peer[s]} :
       session' = [session EXCEPT ![s].stage = "asking", ![s].challenge = Issue(root, t, Peer[t]),
                                  ![s].since = UNION {session[u].acked : u \in Session}]
  /\ UNCHANGED <<config, call, answers, acks, written, held>>

\* What session s opens: an answer sealed to its one-time key, under the transport
\* key it attested, for its challenge and its peer.
Readable(s, answer) ==
  IF Mode[s] = "clear" THEN answer.domain = "clear"
  ELSE /\ answer.domain =
            IF Mode[s] = "counted" THEN "sealed-key/v2" ELSE "sealed-key/v1"
       /\ answer.sealTo = s
       /\ answer.transport = session[s].transport
       /\ answer.nonce = session[s].challenge.nonce
       /\ answer.peer = Peer[s]

Accept(s) ==
  /\ session[s].stage = "asking"
  /\ \E answer \in answers :
       /\ Readable(s, answer)
       /\ session' = [session EXCEPT ![s].stage = "released", ![s].release = answer.plain]
  /\ UNCHANGED <<config, call, answers, acks, written, held>>

\* The call session s makes, and `kind`, the endpoint it is made to.
MessageOf(s, release, kind, mark) ==
  LET m == [peer |-> Peer[s], node |-> NodeId[s], id |-> release.id,
            generation |-> release.entry.generation, mark |-> mark, nonce |-> <<s, kind, mark>>] IN
  [kind |-> kind, mac |-> RollbackMac(release.sessionKey, RollbackDomain(kind), m),
   peer |-> m.peer, node |-> m.node, id |-> m.id, generation |-> m.generation, mark |-> m.mark,
   nonce |-> m.nonce]

\* A counted session raises its entry, or has its operator force it down; it may
\* give a call up and make another, over a nonce of its own.
AskRollback(s, kind, mark) ==
  LET message == MessageOf(s, session[s].release, kind, mark) IN
  /\ session[s].stage \in {"released", "calling"}
  /\ Mode[s] = "counted"
  /\ message \notin session[s].sent
  /\ Cardinality(UNION {session[u].sent : u \in Session}) < MaxRollbacks
  /\ session' = [session EXCEPT ![s].stage = "calling", ![s].waiting = message,
                                ![s].sent = @ \cup {message}]
  /\ UNCHANGED <<config, call, answers, acks, written, held>>

\* It takes an acknowledgement by its MAC alone.
AcceptAck(s) ==
  /\ session[s].stage = "calling"
  /\ \E ack \in acks : LET m == session[s].waiting IN
       /\ ack.mac = AckMac(session[s].release.sessionKey, m.nonce, ack.epoch, ack.entry)
       /\ session' = [session EXCEPT ![s].stage = "released", ![s].acked = @ \cup
            IF m.kind = "reset" THEN {}
            ELSE {[transport |-> session[s].transport, peer |-> Peer[s], node |-> NodeId[s],
                   entry |-> [generation |-> m.generation, mark |-> m.mark]]}]
  /\ UNCHANGED <<config, call, answers, acks, written, held>>

-----------------------------------------------------------------------------
(* A cluster serves /get-key.                                              *)

\* The request session s made; whole, it may arrive anywhere.
Request(s) == RequestOf(s, session[s].challenge)

Path(q) == KeyPath(config, "node", call[q].peer)

Of(writes, root, path) == {w \in writes : w.root = root /\ w.path = path}

\* The merge of the updates of W: it holds each, and each of its parts is one's.
MergeOf(W) ==
  {v \in [epoch : {0} \cup {w.update.epoch : w \in W},
          nodes : [Node -> {NoEntry} \cup {w.update.nodes[n] : w \in W, n \in Node}]] :
     /\ \A w \in W : Leq(w.update, v)
     /\ \A n \in Known(v) : \E w \in W : v.nodes[n] = w.update.nodes[n]}

\* Mutant: a read answers from the map of one replica.
OwnViews(q) == UNION {MergeOf(W) : W \in SUBSET Of(written, call[q].root, Path(q))}

\* What a read may answer: everything acknowledged when it began, and anything
\* submitted since.
Views(q) ==
  UNION {MergeOf(W) :
     W \in {V \in SUBSET Of(written, call[q].root, Path(q)) : call[q].before \subseteq V}}

Answer(q, role, view) ==
  /\ answers' = answers \cup
       {AnswerOf(q, call[q].root, Request(call[q].from), role, view)}
  /\ call' = [call EXCEPT ![q] = [stage |-> "done"]]

Refuse(q) ==
  /\ call' = [call EXCEPT ![q] = [stage |-> "done"]]
  /\ UNCHANGED answers

GetKey(q, s, root) ==
  /\ call[q].stage = "not served"
  /\ session[s].challenge # None
  /\ Admits(root, Request(s))
  /\ call' = [call EXCEPT ![q] = [stage |-> "attesting", root |-> root, from |-> s,
                                  peer |-> Peer[s]]]
  /\ UNCHANGED <<config, session, answers, acks, written, held>>

\* The quote verified.  A counted request goes on to read its counter, before
\* its challenge is spent.
Attested(q) ==
  LET request == Request(call[q].from)
      role == RoleReleased(call[q].root, request) IN
  /\ call[q].stage = "attesting"
  /\ \/ /\ role = NoRole \/ (request.node # NotNamed /\ role # "node")
        /\ Refuse(q)
     \/ /\ role # NoRole /\ request.node = NotNamed
        /\ Answer(q, role, EmptyView)
     \/ /\ role = "node" /\ request.node # NotNamed
        /\ call' = [call EXCEPT ![q] =
             [stage |-> "counting", root |-> @.root, from |-> @.from, peer |-> @.peer,
              before |-> Of(held, call[q].root, Path(q))]]
        /\ UNCHANGED answers
  /\ UNCHANGED <<config, session, acks, written, held>>

CountersRead(q) ==
  /\ call[q].stage = "counting"
  /\ \E view \in Views(q) : Answer(q, "node", view)
  /\ UNCHANGED <<config, session, acks, written, held>>

-----------------------------------------------------------------------------
(* A cluster serves /rollback/raise and /rollback/reset (handlers/rollback *)
(* .rs, answer).                                                           *)

Submit(q, root, m, update) ==
  LET write == [root |-> root, path |-> KeyPath(config, "node", m.peer), update |-> update] IN
  /\ call' = [call EXCEPT ![q] = [stage |-> "writing", root |-> root, peer |-> m.peer,
                                  message |-> m, write |-> write]]
  /\ written' = written \cup {write}

\* The MAC holds under the key this cluster derives for the session it names, in
\* the domain of the endpoint that was called.
MacHolds(root, m, kind) ==
  m.mac = RollbackMac(
    SessionKey(root, KeyPath(config, "node", m.peer), m.node, m.id), RollbackDomain(kind), m)

Raise(q, m, root) ==
  /\ call[q].stage = "not served"
  /\ MacHolds(root, m, "raise")
  /\ Submit(q, root, m, Update(0, m.node, [generation |-> m.generation, mark |-> m.mark]))
  /\ UNCHANGED <<config, session, answers, acks, held>>

\* A reset reads before it writes.
Reset(q, m, root) ==
  /\ call[q].stage = "not served"
  /\ MacHolds(root, m, "reset")
  /\ call' = [call EXCEPT ![q] =
       [stage |-> "resetting", root |-> root, peer |-> m.peer, message |-> m,
        before |-> Of(held, root, KeyPath(config, "node", m.peer))]]
  /\ UNCHANGED <<config, session, answers, acks, written, held>>

ResetRead(q) ==
  LET m == call[q].message IN
  /\ call[q].stage = "resetting"
  /\ \E view \in Views(q) :
       Submit(q, call[q].root, m,
              Update(view.epoch + 1, m.node, [generation |-> view.epoch + 1, mark |-> m.mark]))
  /\ UNCHANGED <<config, session, answers, acks, held>>

\* A majority took the write; its answer holds it, and whatever they held besides.
WriteAcked(q) ==
  LET m == call[q].message
      root == call[q].root
      key == SessionKey(root, Path(q), m.node, m.id) IN
  /\ call[q].stage = "writing"
  /\ \E W \in SUBSET Of(written, root, Path(q)) : \E view \in MergeOf(W \cup {call[q].write}) :
       LET entry == EntryOf(view, m.node) IN
       acks' = acks \cup {[epoch |-> view.epoch, entry |-> entry,
                           mac |-> AckMac(key, m.nonce, view.epoch, entry)]}
  /\ held' = held \cup {call[q].write}
  /\ call' = [call EXCEPT ![q] = [stage |-> "done"]]
  /\ UNCHANGED <<config, session, answers, written>>

\* After any await: the challenge was used, no majority answered, or the replica
\* is lost.  A write it submitted may still be held.
RefuseCall(q) ==
  /\ call[q].stage \notin {"not served", "done"}
  /\ Refuse(q)
  /\ UNCHANGED <<config, session, acks, written, held>>

-----------------------------------------------------------------------------
Next ==
  /\ Talking
  /\ \/ \E s \in Session : Attest(s) \/ Ask(s) \/ Accept(s) \/ AcceptAck(s)
     \/ \E s \in Session, kind \in {"raise", "reset"}, mark \in Mark : AskRollback(s, kind, mark)
     \/ \E q \in Call, s \in Session, root \in Cluster :
          \/ GetKey(q, s, root)
          \/ \E m \in session[s].sent : Raise(q, m, root) \/ Reset(q, m, root)
     \/ \E q \in Call :
          Attested(q) \/ CountersRead(q) \/ ResetRead(q) \/ WriteAcked(q) \/ RefuseCall(q)

Spec == Init /\ [][Next]_vars

-----------------------------------------------------------------------------
(* Properties.                                                             *)

Stages == {"new", "attested", "asking", "released", "calling"}

TypeOK ==
  /\ \A s \in Session : session[s].stage \in Stages
  /\ \A q \in Call : call[q].stage \in
       {"not served", "attesting", "counting", "resetting", "writing", "done"}
  /\ \A w \in written : w.root \in Cluster /\ w.update \in View
  /\ held \subseteq written

Listed(policy) ==
  UNION {policy.entries[i].allowed[g] : i \in DOMAIN policy.entries, g \in Register}

\* A policy the service starts with gives a quote the role of one image: which key
\* it is released never depends on the order of the entries (policy.rs:175-176).
OneRolePerQuote ==
  config # Refused => LET policy == config.policy IN
  policy.enforced =>
    \A registers \in [Register -> Listed(policy)] :
      Cardinality({i \in DOMAIN policy.entries :
        EntryMatches(policy, policy.entries[i], [registers |-> registers])}) <= 1

\* However the prefixes and the profile are spelled, no two roles and peers share
\* a key and none is released the transport key (config/mod.rs:159-166,
\* sealed.rs:34-36).
KeysApart ==
  LET Owner == Role \X (Range(Peer) \cup {"v1"}) IN
  config # Refused =>
    /\ \A o, p \in Owner : o # p => KeyPath(config, o[1], o[2]) # KeyPath(config, p[1], p[2])
    /\ \A o \in Owner : KeyPath(config, o[1], o[2]) # TransportKeyPath

\* A key a session takes for a cluster's is one: no quote a caller can ask for
\* vouches for another (handlers/attest.rs:124-133).
AttestedACluster ==
  \A s \in Session : session[s].stage # "new" /\ Mode[s] # "clear" =>
    session[s].transport \in {TransportKey(root) : root \in Cluster}

\* A session that asked for a sealed key gets the one of its own role and peer,
\* and of the cluster it attested, wherever its messages went (sealed.rs:15-22).
OwnKeyReleased ==
  \A s \in Session : session[s].release # None /\ Mode[s] # "clear" =>
    session[s].release.key =
      StorageKey(session[s].cluster, KeyPath(config, Image[s], Peer[s]))

\* A key leaves sealed, to a TD of the image it is for (policy.rs:7-9,
\* config/mod.rs:80-84).
SealedToItsImage ==
  (Talking /\ config.requireSealed) =>
    \A a \in answers :
      /\ a.domain # "clear"
      /\ Image[a.sealTo] # NoRole
      /\ \E root \in Cluster :
           a.plain.key = StorageKey(root, KeyPath(config, Image[a.sealTo], Peer[a.sealTo]))

\* A boot is never released a counter below what the store had acknowledged to it
\* before the boot asked, whichever boot raised it and whatever came late or twice
\* (handlers/rollback.rs:6-8, get_key.rs:179-187).
AcknowledgedMarksRead ==
  \A s \in Session : (session[s].release # None /\ Mode[s] = "counted") =>
    \A a \in session[s].since :
      (a.transport = session[s].transport /\ a.peer = Peer[s] /\ a.node = NodeId[s]) =>
        LET entry == session[s].release.entry IN
        /\ entry.mark # NoEntry
        /\ EntryLeq(a.entry, entry)

\* An epoch moves, and an entry with it, only where a session asked its own
\* cluster for a reset (handlers/rollback.rs:8-10).
OnlyResetsMoveEpochs ==
  \A w \in written : w.update.epoch > 0 =>
    \E s \in Session : \E m \in session[s].sent :
      /\ m.kind = "reset"
      /\ w.root = session[s].cluster
      /\ w.path = KeyPath(config, "node", m.peer)
      /\ w.update.nodes[m.node].mark = m.mark

=============================================================================
