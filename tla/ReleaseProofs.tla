---------------------------- MODULE ReleaseProofs ----------------------------
(***************************************************************************)
(* Proofs about a TD and its KMS, module Release, for every set of         *)
(* clusters, sessions, environments, calls and marks, whatever arrives     *)
(* late, twice, elsewhere or not at all.                                   *)
(***************************************************************************)
EXTENDS Release, CounterViewsProofs, FiniteSetTheorems, SequenceTheorems,
        WellFoundedInduction

-----------------------------------------------------------------------------
(* The configuration: prefixes, profiles and lists.                        *)

\* A set of naturals has a least element.
LEMMA LeastNatural ==
  ASSUME NEW S \in SUBSET Nat, S # {}
  PROVE  \E i \in S : \A j \in S : i <= j
<1> DEFINE R == {ss \in Nat \X Nat : ss[1] < ss[2]}
<1>1. IsWellFoundedOn(R, Nat)
  BY NatLessThanWellFounded, Zenon DEF OpToRel
<1>2. \A i, j \in Nat : <<j, i>> \in R <=> j < i
  OBVIOUS
<1> HIDE DEF R
<1>3. PICK i \in S : \A j \in S : ~(<<j, i>> \in R)
  BY <1>1, WFMin
<1>4. \A j \in S : ~(j < i)
  BY <1>2, <1>3
<1>5. QED
  BY <1>4

\* Finitely many positions have a first and a last: those that Trim chooses.
LEMMA FirstAndLast ==
  ASSUME NEW n \in Nat, NEW T \in SUBSET (1..n), T # {}
  PROVE  LET first == CHOOSE i \in T : \A j \in T : i <= j
             last == CHOOSE i \in T : \A j \in T : i >= j IN
         /\ first \in T /\ \A j \in T : first <= j
         /\ last \in T /\ \A j \in T : last >= j
<1>1. \E i \in T : \A j \in T : i <= j
  BY LeastNatural
<1>2. \E i \in T : \A j \in T : i >= j
  <2> DEFINE S == {k \in 0..n : n - k \in T}
  <2>1. PICK t \in T : TRUE
    OBVIOUS
  <2>2. S \in SUBSET Nat /\ n - t \in S /\ n - (n - t) = t
    BY <2>1
  <2>3. PICK k \in S : \A j \in S : k <= j
    BY <2>2, LeastNatural
  <2>4. ASSUME NEW j \in T PROVE n - k >= j
    <3>1. n - j \in S
      <4>1. j \in Nat /\ n - (n - j) = j /\ n - j \in 0..n
        OBVIOUS
      <4>2. QED
        BY <4>1
    <3>2. QED
      BY <2>3, <3>1
  <2>5. QED
    BY <2>3, <2>4
<1>3. QED
  BY <1>1, <1>2

\* A path neither starts nor ends with a slash.
Tight(p) == p[1] # "" /\ p[Len(p)] # ""

\* Trimming leaves a path that neither starts nor ends with a slash...
LEMMA TrimTrims ==
  ASSUME NEW S, NEW p \in Seq(S), Trim(p) # <<>>
  PROVE  Trim(p) \in Seq(S) /\ Len(Trim(p)) >= 1 /\ Tight(Trim(p))
<1> DEFINE named == {i \in DOMAIN p : p[i] # ""}
           first == CHOOSE i \in named : \A j \in named : i <= j
           last == CHOOSE i \in named : \A j \in named : i >= j
<1>1. named # {} /\ Trim(p) = SubSeq(p, first, last)
  BY Zenon DEF Trim
<1>2. Len(p) \in Nat /\ DOMAIN p = 1..Len(p)
  BY LenProperties
<1>3. named \in SUBSET (1..Len(p)) /\ \A i \in named : p[i] # ""
  BY <1>2, Zenon
<1> HIDE DEF named
<1>4. first \in named /\ last \in named /\ first <= last
  <2>1. first \in named /\ \A j \in named : first <= j
    BY <1>1, <1>2, <1>3, FirstAndLast
  <2>2. last \in named
    BY <1>1, <1>2, <1>3, FirstAndLast
  <2>3. QED
    BY <2>1, <2>2, Zenon
<1> HIDE DEF first, last
<1>5. first \in 1..Len(p) /\ last \in 1..Len(p)
  BY <1>3, <1>4, Zenon
<1>6. p[first] # "" /\ p[last] # ""
  BY <1>3, <1>4, Zenon
<1> DEFINE q == SubSeq(p, first, last)
<1>7. q \in Seq(S) /\ Len(q) = last - first + 1 /\ q[1] = p[first] /\ q[Len(q)] = p[last]
  <2>1. \A i \in 1..Len(p) : p[i] \in S
    BY ElementOfSeq
  <2>2. \A i \in first..last : p[i] \in S
    BY <1>2, <1>5, <2>1
  <2>3. /\ q \in Seq(S)
        /\ Len(q) = last - first + 1
        /\ \A i \in 1..(last - first + 1) : q[i] = p[first + i - 1]
    BY <1>2, <1>4, <1>5, <2>2, SubSeqProperties
  <2> HIDE DEF q
  <2>4. first + 1 - 1 = first /\ first + (last - first + 1) - 1 = last
    BY <1>2, <1>5
  <2>5. 1 \in 1..(last - first + 1) /\ last - first + 1 \in 1..(last - first + 1)
    BY <1>2, <1>4, <1>5
  <2>6. QED
    BY <2>3, <2>4, <2>5
<1>8. last - first + 1 >= 1
  BY <1>2, <1>4, <1>5
<1>9. QED
  BY <1>1, <1>6, <1>7, <1>8, Zenon DEF Tight

\* ...and such a path is left as it is.
LEMMA TrimmedStays ==
  ASSUME NEW S, NEW p \in Seq(S), Len(p) >= 1, Tight(p)
  PROVE  Trim(p) = p
<1> DEFINE named == {i \in DOMAIN p : p[i] # ""}
           first == CHOOSE i \in named : \A j \in named : i <= j
           last == CHOOSE i \in named : \A j \in named : i >= j
           n == Len(p)
<1>1. n \in Nat /\ DOMAIN p = 1..n
  BY LenProperties
<1>2. 1 \in 1..n /\ n \in 1..n
  BY <1>1
<1>3. 1 \in named /\ n \in named /\ named \in SUBSET (1..n) /\ named # {}
  BY <1>1, <1>2, Zenon DEF Tight
<1>4. Trim(p) = SubSeq(p, first, last)
  BY <1>3, Zenon DEF Trim
<1> HIDE DEF named, n
<1>5. first \in named /\ last \in named /\ first <= 1 /\ last >= n
  BY <1>1, <1>3, FirstAndLast
<1> HIDE DEF first, last
<1>6. first = 1 /\ last = n
  <2>1. first \in 1..n /\ last \in 1..n
    BY <1>3, <1>5, Zenon
  <2>2. QED
    BY <1>1, <1>5, <2>1
<1>7. SubSeq(p, 1, n) = p
  BY SubSeqFull DEF n
<1>8. QED
  BY <1>4, <1>6, <1>7, Zenon

\* A path of two segments.
LEMMA PairOf ==
  ASSUME NEW S, NEW a \in S, NEW b \in S
  PROVE  LET q == <<a, b>> IN
         /\ q \in Seq(S) /\ Len(q) = 2 /\ Len(q) >= 1
         /\ q[1] = a /\ q[2] = b /\ q[Len(q)] = b
OBVIOUS

\* What a prefix is made of, from its variable or by default.
Segment == STRING \cup {"merod", "mero-agent", "storage"}

\* The prefix a key derives under, whatever its variable holds, is a path Trim keeps.
LEMMA PrefixKept ==
  ASSUME NEW e \in Env, NEW r \in Role
  PROVE  LET p == KeyPrefixes(e)[r] IN p \in Seq(Segment) /\ Trim(p) = p
<1> DEFINE value == e.prefix[r]
           p == KeyPrefixes(e)[r]
<1>1. p = KeyPrefix(value, DefaultPrefix[r]) /\ value \in Seq(Segment) \cup {Unset}
  <2>1. Seq(STRING) \subseteq Seq(Segment)
    BY SeqMonotonic DEF Segment
  <2>2. QED
    BY <2>1, EnvAssumption DEF KeyPrefixes
<1>2. CASE value = Unset \/ Trim(value) = <<>>
  <2>1. p = DefaultPrefix[r]
    BY <1>1, <1>2 DEF KeyPrefix
  <2>2. p = <<"merod", "storage">> \/ p = <<"mero-agent", "storage">>
    BY <2>1 DEF DefaultPrefix, Role
  <2> HIDE DEF p
  <2>3. "merod" # "" /\ "mero-agent" # "" /\ "storage" # ""
    OBVIOUS
  <2>4. {"merod", "mero-agent", "storage"} \subseteq Segment
    BY Zenon DEF Segment
  <2>5. p \in Seq(Segment) /\ Len(p) >= 1 /\ Tight(p)
    <3>1. CASE p = <<"merod", "storage">>
      BY <2>3, <2>4, <3>1, PairOf, Zenon DEF Tight
    <3>2. CASE p = <<"mero-agent", "storage">>
      BY <2>3, <2>4, <3>2, PairOf, Zenon DEF Tight
    <3>3. QED
      BY <2>2, <3>1, <3>2
  <2>6. Trim(p) = p
    BY <2>5, TrimmedStays, Zenon
  <2>7. QED
    BY <2>5, <2>6 DEF p
<1>3. CASE value # Unset /\ Trim(value) # <<>>
  <2>1. p = Trim(value) /\ value \in Seq(Segment)
    BY <1>1, <1>3 DEF KeyPrefix
  <2>2. QED
    BY <1>3, <2>1, TrimTrims, TrimmedStays
<1>4. QED
  BY <1>2, <1>3

\* The profile of a service that starts is one of the three.
LEMMA ProfileKnown ==
  ASSUME NEW e, Starts(e)
  PROVE  Profile(e) \in KnownProfile
BY DEF Starts, PinReads, ProfileResolves, Profile, KnownProfile

\* A path with two segments more.
LEMMA TwoMore ==
  ASSUME NEW p \in Seq(Segment), NEW a, NEW b
  PROVE  LET q == p \o <<a, b>> IN
         /\ Len(q) = Len(p) + 2
         /\ \A i \in 1..Len(p) : q[i] = p[i]
         /\ q[Len(p) + 1] = a /\ q[Len(p) + 2] = b
<1> DEFINE S == Segment \cup {a, b}
<1>1. p \in Seq(S)
  OBVIOUS
<1>2. <<a, b>> \in Seq(S) /\ Len(<<a, b>>) = 2 /\ <<a, b>>[1] = a /\ <<a, b>>[2] = b
  OBVIOUS
<1> HIDE DEF S
<1>3. QED
  BY <1>1, <1>2, ConcatProperties

\* Whoever starts, derives keys on paths of its own prefixes, profile and peers.
LEMMA StartedConfig ==
  ASSUME NEW e \in Env, config = Started(e), config # Refused
  PROVE  /\ config = FromEnv(e) /\ Starts(e)
         /\ \A r \in Role : /\ KeyPrefixes(e)[r] \in Seq(Segment)
                            /\ \A peer : KeyPath(config, r, peer) =
                                           KeyPrefixes(e)[r] \o <<Profile(e), peer>>
<1>1. config = FromEnv(e) /\ Starts(e)
  BY DEF Started
<1>2. config.prefix = KeyPrefixes(e) /\ config.profile = Profile(e)
  BY <1>1 DEF FromEnv
<1>3. QED
  BY <1>1, <1>2, PrefixKept DEF KeyPath


\* Whatever an environment holds, the paths keys derive on are apart.
LEMMA PathsApart ==
  ASSUME NEW e \in Env, config = Started(e), config # Refused
  PROVE  KeysApart
<1>1. /\ Starts(e)
      /\ \A r \in Role : /\ KeyPrefixes(e)[r] \in Seq(Segment)
                         /\ \A peer : KeyPath(config, r, peer) =
                                        KeyPrefixes(e)[r] \o <<Profile(e), peer>>
  BY StartedConfig
<1>2. Profile(e) # "x25519"
  BY <1>1, ProfileKnown DEF KnownProfile
<1>3. ASSUME NEW r1 \in Role, NEW r2 \in Role, NEW p1, NEW p2,
             KeyPath(config, r1, p1) = KeyPath(config, r2, p2)
      PROVE  r1 = r2 /\ p1 = p2
  <2> DEFINE u == KeyPrefixes(e)[r1]
             v == KeyPrefixes(e)[r2]
             x == Profile(e)
             uu == u \o <<x, p1>>
             vv == v \o <<x, p2>>
  <2>1. u \in Seq(Segment) /\ v \in Seq(Segment) /\ uu = vv
    BY <1>1, <1>3
  <2>2. /\ Len(uu) = Len(u) + 2 /\ Len(vv) = Len(v) + 2
        /\ \A i \in 1..Len(u) : uu[i] = u[i]
        /\ \A i \in 1..Len(v) : vv[i] = v[i]
        /\ uu[Len(u) + 2] = p1 /\ vv[Len(v) + 2] = p2
    BY <2>1, TwoMore
  <2> HIDE DEF u, v, uu, vv, x
  <2>3. Len(u) \in Nat /\ Len(v) \in Nat
    BY <2>1
  <2>4. Len(u) = Len(v)
    BY <2>1, <2>2, <2>3
  <2>5. p1 = p2
    BY <2>1, <2>2, <2>4
  <2>6. u = v
    BY <2>1, <2>2, <2>4, SeqEqual
  <2>7. KeyPrefixes(e)["agent"] # KeyPrefixes(e)["node"]
    BY <1>1 DEF Starts
  <2>8. r1 = r2
    BY <2>6, <2>7 DEF u, v, Role
  <2>9. QED
    BY <2>5, <2>8
<1>4. ASSUME NEW r \in Role, NEW peer, KeyPath(config, r, peer) = TransportKeyPath
      PROVE  FALSE
  <2> DEFINE u == KeyPrefixes(e)[r]
             x == Profile(e)
             uu == u \o <<x, peer>>
  <2>1. u \in Seq(Segment)
    BY <1>1
  <2>2. uu = TransportKeyPath
    BY <1>1, <1>4
  <2>3. Len(uu) = Len(u) + 2
    BY <2>1, TwoMore
  <2>4. uu[Len(u) + 1] = x
    BY <2>1, TwoMore
  <2>5. Len(TransportKeyPath) = 4
    BY DEF TransportKeyPath
  <2>6. TransportKeyPath[3] = "x25519"
    BY DEF TransportKeyPath
  <2> HIDE DEF u, uu, x
  <2>7. Len(u) \in Nat
    BY <2>1
  <2>8. Len(uu) = 4
    BY <2>2, <2>5
  <2>9. Len(u) = 2
    <3>1. \A k \in Nat : k + 2 = 4 => k = 2
      OBVIOUS
    <3>2. QED
      BY <2>3, <2>7, <2>8, <3>1, Zenon
  <2>10. x = "x25519"
    BY <2>2, <2>4, <2>6, <2>9
  <2>11. QED
    BY <1>2, <2>10 DEF x
<1>5. QED
  <2> DEFINE Owner == Role \X (Range(Peer) \cup {"v1"})
  <2>1. ASSUME NEW o \in Owner
        PROVE  o[1] \in Role /\ o = <<o[1], o[2]>>
    OBVIOUS
  <2>2. ASSUME NEW o \in Owner, NEW p \in Owner, o # p
        PROVE  KeyPath(config, o[1], o[2]) # KeyPath(config, p[1], p[2])
    <3>1. o[1] # p[1] \/ o[2] # p[2]
      BY <2>1, <2>2, Zenon
    <3>2. SUFFICES ASSUME KeyPath(config, o[1], o[2]) = KeyPath(config, p[1], p[2])
                   PROVE  FALSE
      OBVIOUS
    <3>3. QED
      BY <1>3, <2>1, <3>1, <3>2
  <2>3. ASSUME NEW o \in Owner
        PROVE  KeyPath(config, o[1], o[2]) # TransportKeyPath
    BY <1>4, <2>1, Zenon
  <2> HIDE DEF Owner
  <2>4. QED
    BY <2>2, <2>3, Zenon DEF KeysApart, Owner

\* Two entries that could match one quote keep a service from starting.
LEMMA EntriesApart ==
  ASSUME NEW e, config = Started(e), config # Refused
  PROVE  OneRolePerQuote
<1> DEFINE policy == LoadPolicy(e)
<1>1. config.policy = policy /\ ValidPolicy(policy)
  BY DEF Started, FromEnv, Starts
<1>2. DOMAIN policy.entries \in SUBSET Nat
  BY DEF LoadPolicy
<1> HIDE DEF policy
<1>3. ASSUME policy.enforced, NEW registers \in [Register -> Listed(policy)]
      PROVE  Cardinality({i \in DOMAIN policy.entries :
               EntryMatches(policy, policy.entries[i], [registers |-> registers])}) <= 1
  <2> DEFINE M == {i \in DOMAIN policy.entries :
                     EntryMatches(policy, policy.entries[i], [registers |-> registers])}
  <2>1. ASSUME NEW i \in M, NEW j \in M, i < j
        PROVE  FALSE
    <3>1. ~EntriesOverlap(policy.entries[i], policy.entries[j])
      BY <1>1, <1>3, <2>1 DEF ValidPolicy, Apart
    <3>2. \A g \in Register : registers[g] \in policy.entries[i].allowed[g]
                                                \cap policy.entries[j].allowed[g]
      BY <2>1 DEF EntryMatches
    <3>3. QED
      BY <3>1, <3>2 DEF EntriesOverlap
  <2>2. M \in SUBSET Nat
    BY <1>2
  <2> HIDE DEF M
  <2>3. \A i, j \in M : i = j
    BY <2>1, <2>2
  <2>4. M = {} \/ \E i : M = {i}
    BY <2>3
  <2>5. Cardinality(M) = 0 \/ Cardinality(M) = 1
    BY <2>4, FS_EmptySet, FS_Singleton
  <2>6. QED
    BY <2>5 DEF M
<1>4. QED
  BY <1>1, <1>3 DEF OneRolePerQuote

-----------------------------------------------------------------------------
(* The inductive invariant.                                                *)

NodePath(peer) == KeyPath(config, "node", peer)

\* The write an acknowledged raise asked the cluster of root for.
RaiseOf(root, peer, node, entry) ==
  [root |-> root, path |-> NodePath(peer), update |-> Update(0, node, entry)]

EntryIn(m) == [generation |-> m.generation, mark |-> m.mark]

\* A session goes through its stages in order; it takes one challenge, one release.
Ordered(s) ==
  LET x == session[s] IN
  /\ x.stage \in {"new", "attested"} => x.challenge = None
  /\ x.stage \in {"new", "attested", "asking"} => x.release = None /\ x.sent = {} /\ x.acked = {}
  /\ x.stage = "calling" => Mode[s] = "counted" /\ x.waiting \in x.sent

\* The transport key it goes on with is that of the cluster whose quote it was.
Attests(s) ==
  session[s].stage # "new" /\ Mode[s] # "clear" =>
    session[s].cluster \in Cluster /\ session[s].transport = TransportKey(session[s].cluster)

\* What a session was acknowledged, or remembers of all, a majority holds.
IsHeld(a) ==
  /\ a.node \in Node /\ a.entry \in Entry
  /\ \E root \in Cluster :
       a.transport = TransportKey(root) /\ RaiseOf(root, a.peer, a.node, a.entry) \in held

\* The acknowledgements session s must find in a counter read for it at root.
Owed(s, root) ==
  {a \in session[s].since :
     a.transport = TransportKey(root) /\ a.peer = Peer[s] /\ a.node = NodeId[s]}

Covers(entry, e) == entry.mark # NoEntry /\ EntryLeq(e, entry)

\* What a counted session of node s is released by root.
CountedRelease(plain, s, root) ==
  /\ Image[s] = "node"
  /\ plain.sessionKey = SessionKey(root, NodePath(Peer[s]), NodeId[s], plain.id)
  /\ plain.entry.generation \in Nat
  /\ \A a \in Owed(s, root) : Covers(plain.entry, a.entry)

\* A release to s of the key of its image and peer, from root.
ReleaseFrom(plain, s, root) ==
  /\ Image[s] # NoRole
  /\ plain.key = StorageKey(root, KeyPath(config, Image[s], Peer[s]))
  /\ Mode[s] = "counted" => CountedRelease(plain, s, root)

Releases(s) ==
  session[s].stage \in {"released", "calling"} /\ Mode[s] # "clear" =>
    ReleaseFrom(session[s].release, s, session[s].cluster)

\* The calls a session made are made of its release.
Sends(s) ==
  \A m \in session[s].sent :
    /\ Mode[s] = "counted"
    /\ m.kind \in {"raise", "reset"} /\ m.mark \in Mark
    /\ m = MessageOf(s, session[s].release, m.kind, m.mark)

SessionOK(s) ==
  /\ DOMAIN session[s] = DOMAIN NotStarted
  /\ session[s].stage \in Stages
  /\ Ordered(s) /\ Attests(s) /\ Releases(s) /\ Sends(s)
  /\ \A a \in session[s].acked \cup session[s].since : IsHeld(a)

SessionInv == DOMAIN session = Session /\ \A s \in Session : SessionOK(s)

\* What each served request holds in its stage.
ServesKey(q) ==
  LET s == call[q].from IN
  /\ s \in Session /\ call[q].root \in Cluster /\ call[q].peer = Peer[s]
  /\ session[s].stage \notin {"new", "attested"}
  /\ config.requireSealed => Mode[s] # "clear"

Counts(q) ==
  LET s == call[q].from IN
  /\ Mode[s] = "counted" /\ Image[s] = "node"
  /\ \A a \in Owed(s, call[q].root) :
       RaiseOf(call[q].root, a.peer, a.node, a.entry) \in call[q].before

\* A session made the call, and the endpoint is the one it made it to.
ServesCall(q, kind) ==
  LET m == call[q].message IN
  /\ \E s \in Session : m \in session[s].sent
  /\ m.kind = kind /\ call[q].peer = m.peer /\ call[q].root \in Cluster
  /\ MacHolds(call[q].root, m, kind)

Writes(q) ==
  LET m == call[q].message IN
  /\ call[q].write \in written
  /\ call[q].write.update \in View
  /\ m.kind = "raise" => call[q].write = RaiseOf(call[q].root, m.peer, m.node, EntryIn(m))

CallOK(q) ==
  /\ call[q].stage \in {"not served", "attesting", "counting", "resetting", "writing", "done"}
  /\ call[q].stage \in {"attesting", "counting"} => ServesKey(q)
  /\ call[q].stage = "counting" => Counts(q)
  /\ call[q].stage = "resetting" => ServesCall(q, "reset")
  /\ call[q].stage = "writing" => ServesCall(q, call[q].message.kind) /\ Writes(q)

CallInv == DOMAIN call = Call /\ \A q \in Call : CallOK(q)

\* An answer is made for one session, at one root.
AnsweredTo(a, s, root) ==
  /\ session[s].stage \notin {"new", "attested"}
  /\ ReleaseFrom(a.plain, s, root)
  /\ Mode[s] = "clear" => a.domain = "clear" /\ ~config.requireSealed
  /\ Mode[s] # "clear" =>
       /\ a.sealTo = s /\ a.transport = TransportKey(root)
       /\ a.domain # "clear"

AnswerInv == \A a \in answers : \E s \in Session, root \in Cluster : AnsweredTo(a, s, root)

\* An acknowledgement answers a call some session made, and a raise it
\* acknowledges is held.
Acknowledges(ack, root, m) ==
  /\ ack.mac = AckMac(SessionKey(root, NodePath(m.peer), m.node, m.id), m.nonce,
                      ack.epoch, ack.entry)
  /\ MacHolds(root, m, m.kind)
  /\ m.kind = "raise" => RaiseOf(root, m.peer, m.node, EntryIn(m)) \in held

AckInv ==
  \A ack \in acks : \E root \in Cluster, s \in Session :
    \E m \in session[s].sent : Acknowledges(ack, root, m)

WriteInv ==
  /\ \A w \in written : w.root \in Cluster /\ w.update \in View
  /\ held \subseteq written

IInv ==
  /\ config \in {Started(e) : e \in Env}
  /\ SessionInv
  /\ CallInv
  /\ AnswerInv
  /\ AckInv
  /\ WriteInv
  /\ OnlyResetsMoveEpochs

-----------------------------------------------------------------------------
(* The steps of a session, field by field.                                 *)

\* Only session s moves.
Only(s) ==
  /\ UNCHANGED <<config, call, answers, acks, written, held>>
  /\ DOMAIN session' = DOMAIN session
  /\ DOMAIN session'[s] = DOMAIN session[s]
  /\ \A t \in Session : t # s => session'[t] = session[t]

Fields ==
  {"stage", "cluster", "transport", "challenge", "since", "release", "waiting", "sent", "acked"}

LEMMA SessionFields ==
  ASSUME SessionInv, NEW s \in Session
  PROVE  DOMAIN session = Session /\ DOMAIN session[s] = Fields
BY DEF SessionInv, SessionOK, NotStarted, Fields

\* It attests: whatever binding and mode were asked in its place, the quote vouches
\* for no other transport key than that of the cluster it came from.
LEMMA AttestStep ==
  ASSUME SessionInv, NEW s \in Session, Attest(s)
  PROVE  /\ Only(s) /\ session[s].stage = "new"
         /\ session'[s].stage = "attested"
         /\ session'[s].cluster \in Cluster
         /\ session'[s].transport = TransportKey(session'[s].cluster)
         /\ session'[s].challenge = session[s].challenge
         /\ session'[s].since = session[s].since
         /\ session'[s].release = session[s].release
         /\ session'[s].waiting = session[s].waiting
         /\ session'[s].sent = session[s].sent
         /\ session'[s].acked = session[s].acked
<1>1. PICK root \in Cluster, binding \in CallerBinding, mode \in {"clear", "sealed", "counted"},
           transport \in {TransportKey(c) : c \in Cluster} \cup {StrangeKey} :
        /\ AttestedBinding(root, binding, mode) = ExpectedBinding(s, transport)
        /\ session' = [session EXCEPT ![s].stage = "attested", ![s].cluster = root,
                                      ![s].transport = transport]
  BY DEF Attest
<1>2. transport = TransportKey(root)
  <2>1. Mode[s] \in {"sealed", "counted"}
    BY SessionAssumption DEF Attest
  <2>2. \/ /\ Mode[s] = "counted"
           /\ ExpectedBinding(s, transport) = AttestBindingV2(DefaultBinding, transport)
        \/ /\ Mode[s] = "sealed"
           /\ ExpectedBinding(s, transport) = AttestBinding(DefaultBinding, transport)
    BY <2>1 DEF ExpectedBinding
  <2>3. \/ AttestedBinding(root, binding, mode) = AttestBindingV2(binding, TransportKey(root))
        \/ AttestedBinding(root, binding, mode) = AttestBinding(binding, TransportKey(root))
        \/ AttestedBinding(root, binding, mode) = PlainAttestBinding(binding)
    BY DEF AttestedBinding
  <2>4. QED
    BY <1>1, <2>2, <2>3 DEF AttestBindingV2, AttestBinding, PlainAttestBinding
<1>3. DOMAIN session = Session /\ DOMAIN session[s] = Fields
  BY SessionFields
<1>4. QED
  BY <1>1, <1>2, <1>3 DEF Only, Attest, MayStart, Fields

\* It asks, and remembers what all were acknowledged.
LEMMA AskStep ==
  ASSUME SessionInv, NEW s \in Session, Ask(s)
  PROVE  /\ Only(s) /\ session[s].stage \in {"new", "attested"}
         /\ session[s].stage = "new" <=> Mode[s] = "clear"
         /\ session'[s].stage = "asking"
         /\ session'[s].since = UNION {session[u].acked : u \in Session}
         /\ session'[s].cluster = session[s].cluster
         /\ session'[s].transport = session[s].transport
         /\ session'[s].release = session[s].release
         /\ session'[s].waiting = session[s].waiting
         /\ session'[s].sent = session[s].sent
         /\ session'[s].acked = session[s].acked
<1>1. PICK root \in Cluster, t \in Session :
        session' = [session EXCEPT ![s].stage = "asking",
                                   ![s].challenge = Issue(root, t, Peer[t]),
                                   ![s].since = UNION {session[u].acked : u \in Session}]
  BY DEF Ask
<1>2. DOMAIN session = Session /\ DOMAIN session[s] = Fields
  BY SessionFields
<1>3. /\ session[s].stage \in {"new", "attested"}
      /\ session[s].stage = "new" <=> Mode[s] = "clear"
  BY DEF Ask, MayStart
<1>4. QED
  BY <1>1, <1>2, <1>3 DEF Only, Ask, Fields

\* It takes an answer it can read.
LEMMA AcceptStep ==
  ASSUME SessionInv, NEW s \in Session, Accept(s)
  PROVE  /\ Only(s) /\ session[s].stage = "asking"
         /\ session'[s].stage = "released"
         /\ \E a \in answers : Readable(s, a) /\ session'[s].release = a.plain
         /\ session'[s].cluster = session[s].cluster
         /\ session'[s].transport = session[s].transport
         /\ session'[s].challenge = session[s].challenge
         /\ session'[s].since = session[s].since
         /\ session'[s].waiting = session[s].waiting
         /\ session'[s].sent = session[s].sent
         /\ session'[s].acked = session[s].acked
<1>1. PICK a \in answers :
        /\ Readable(s, a)
        /\ session' = [session EXCEPT ![s].stage = "released", ![s].release = a.plain]
  BY DEF Accept
<1>2. DOMAIN session = Session /\ DOMAIN session[s] = Fields
  BY SessionFields
<1>3. QED
  BY <1>1, <1>2 DEF Only, Accept, Fields

\* It makes a call.
LEMMA AskRollbackStep ==
  ASSUME SessionInv, NEW s \in Session, NEW kind, NEW mark, AskRollback(s, kind, mark)
  PROVE  LET m == MessageOf(s, session[s].release, kind, mark) IN
         /\ Only(s) /\ session[s].stage \in {"released", "calling"} /\ Mode[s] = "counted"
         /\ session'[s].stage = "calling"
         /\ session'[s].waiting = m
         /\ session'[s].sent = session[s].sent \cup {m}
         /\ session'[s].cluster = session[s].cluster
         /\ session'[s].transport = session[s].transport
         /\ session'[s].challenge = session[s].challenge
         /\ session'[s].since = session[s].since
         /\ session'[s].release = session[s].release
         /\ session'[s].acked = session[s].acked
<1>1. DOMAIN session = Session /\ DOMAIN session[s] = Fields
  BY SessionFields
<1>2. QED
  BY <1>1 DEF AskRollback, Only, Fields

\* It takes the acknowledgement of the call it waits on.
LEMMA AcceptAckStep ==
  ASSUME SessionInv, NEW s \in Session, AcceptAck(s)
  PROVE  LET m == session[s].waiting IN
         /\ Only(s) /\ session[s].stage = "calling"
         /\ session'[s].stage = "released"
         /\ \E ack \in acks :
              ack.mac = AckMac(session[s].release.sessionKey, m.nonce, ack.epoch, ack.entry)
         /\ session'[s].acked = session[s].acked \cup
              IF m.kind = "reset" THEN {}
              ELSE {[transport |-> session[s].transport, peer |-> Peer[s], node |-> NodeId[s],
                     entry |-> [generation |-> m.generation, mark |-> m.mark]]}
         /\ session'[s].cluster = session[s].cluster
         /\ session'[s].transport = session[s].transport
         /\ session'[s].challenge = session[s].challenge
         /\ session'[s].since = session[s].since
         /\ session'[s].release = session[s].release
         /\ session'[s].waiting = session[s].waiting
         /\ session'[s].sent = session[s].sent
<1>1. DOMAIN session = Session /\ DOMAIN session[s] = Fields
  BY SessionFields
<1>2. QED
  BY <1>1 DEF AcceptAck, Only, Fields

-----------------------------------------------------------------------------
(* What no step undoes.                                                    *)

\* A session keeps what it sent, and once it asked, what it must find and where.
Grows(s) ==
  /\ session[s].sent \subseteq session'[s].sent
  /\ session[s].stage \notin {"new", "attested"} =>
       /\ session'[s].stage \notin {"new", "attested"}
       /\ session'[s].since = session[s].since /\ session'[s].cluster = session[s].cluster

Advances ==
  /\ config' = config
  /\ held \subseteq held' /\ written \subseteq written'
  /\ \A s \in Session : Grows(s)

LEMMA SessionAdvances ==
  ASSUME SessionInv, NEW s \in Session,
         \/ Attest(s) \/ Ask(s) \/ Accept(s) \/ AcceptAck(s)
         \/ \E kind, mark : AskRollback(s, kind, mark)
  PROVE  Advances /\ Only(s)
<1>1. Only(s) /\ Grows(s)
  <2>1. CASE Attest(s)
    BY <2>1, AttestStep DEF Grows
  <2>2. CASE Ask(s)
    BY <2>2, AskStep DEF Grows
  <2>3. CASE Accept(s)
    BY <2>3, AcceptStep DEF Grows
  <2>4. CASE AcceptAck(s)
    BY <2>4, AcceptAckStep DEF Grows
  <2>5. CASE \E kind, mark : AskRollback(s, kind, mark)
    BY <2>5, AskRollbackStep DEF Grows
  <2>6. QED
    BY <2>1, <2>2, <2>3, <2>4, <2>5
<1>2. \A t \in Session : t # s => Grows(t)
  BY <1>1 DEF Only, Grows
<1>3. QED
  BY <1>1, <1>2 DEF Advances, Only

\* An entry a majority holds stays held.
LEMMA HeldStays ==
  ASSUME Advances, NEW a, IsHeld(a)
  PROVE  IsHeld(a)'
BY DEF Advances, IsHeld, RaiseOf, NodePath

\* A release stays what it was made of.
LEMMA ReleaseStays ==
  ASSUME Advances, NEW s \in Session, NEW root, NEW plain, ReleaseFrom(plain, s, root),
         session[s].stage \notin {"new", "attested"}
  PROVE  ReleaseFrom(plain, s, root)'
<1>1. config' = config /\ session'[s].since = session[s].since
  BY DEF Advances, Grows
<1>2. Owed(s, root)' = Owed(s, root)
  BY <1>1 DEF Owed
<1>3. QED
  BY <1>1, <1>2 DEF ReleaseFrom, CountedRelease, NodePath

\* Answers stay answers to whom they were made.
LEMMA AnswersStay ==
  ASSUME Advances, NEW a, NEW s \in Session, NEW root \in Cluster, AnsweredTo(a, s, root)
  PROVE  AnsweredTo(a, s, root)'
<1>1. /\ config' = config
      /\ session'[s].stage \notin {"new", "attested"}
      /\ ReleaseFrom(a.plain, s, root)'
  BY ReleaseStays DEF Advances, Grows, AnsweredTo
<1>2. QED
  BY <1>1 DEF AnsweredTo

LEMMA AnswerInvStays ==
  ASSUME Advances, AnswerInv, answers' = answers
  PROVE  AnswerInv'
BY AnswersStay DEF AnswerInv

\* Acknowledgements stay answers to calls that were made.
LEMMA AcksStay ==
  ASSUME Advances, NEW ack, NEW root, NEW m, Acknowledges(ack, root, m)
  PROVE  Acknowledges(ack, root, m)'
BY DEF Advances, Acknowledges, NodePath, MacHolds, RaiseOf

LEMMA AckInvStays ==
  ASSUME Advances, AckInv, acks' = acks
  PROVE  AckInv'
<1>1. ASSUME NEW ack \in acks
      PROVE  \E root \in Cluster, s \in Session :
               \E m \in session'[s].sent : Acknowledges(ack, root, m)'
  <2>1. PICK root \in Cluster, s \in Session :
          \E m \in session[s].sent : Acknowledges(ack, root, m)
    BY DEF AckInv
  <2>2. PICK m \in session[s].sent : Acknowledges(ack, root, m)
    BY <2>1
  <2>3. m \in session'[s].sent /\ Acknowledges(ack, root, m)'
    BY <2>2, AcksStay DEF Advances, Grows
  <2>4. QED
    BY <2>3
<1>2. QED
  BY <1>1 DEF AckInv

\* A request that is not served in this step keeps what it holds.
LEMMA CallStays ==
  ASSUME Advances, NEW q \in Call, CallOK(q), call'[q] = call[q]
  PROVE  CallOK(q)'
<1>1. config' = config /\ held \subseteq held' /\ written \subseteq written'
  BY DEF Advances
<1>2. ServesKey(q) => ServesKey(q)' /\ (Counts(q) => Counts(q)')
  <2> SUFFICES ASSUME ServesKey(q)
               PROVE  ServesKey(q)' /\ (Counts(q) => Counts(q)')
    OBVIOUS
  <2> DEFINE s == call[q].from
  <2>1. s \in Session /\ session[s].stage \notin {"new", "attested"}
    BY DEF ServesKey
  <2>2. session'[s].stage \notin {"new", "attested"} /\ session'[s].since = session[s].since
    BY <2>1 DEF Advances, Grows
  <2>3. Owed(s, call[q].root)' = Owed(s, call[q].root)
    BY <2>2 DEF Owed
  <2>4. QED
    BY <1>1, <2>1, <2>2, <2>3 DEF ServesKey, Counts, RaiseOf, NodePath
<1>3. ASSUME NEW kind, ServesCall(q, kind)
      PROVE  ServesCall(q, kind)'
  <2>1. \E s \in Session : call[q].message \in session'[s].sent
    BY <1>3 DEF ServesCall, Advances, Grows
  <2>2. QED
    BY <1>1, <1>3, <2>1 DEF ServesCall, MacHolds
<1>4. Writes(q) => Writes(q)'
  BY <1>1 DEF Writes, RaiseOf, NodePath
<1>5. QED
  BY <1>2, <1>3, <1>4 DEF CallOK

LEMMA CallInvStays ==
  ASSUME Advances, CallInv, call' = call
  PROVE  CallInv'
BY CallStays DEF CallInv

\* A session that does not move keeps what it holds.
LEMMA SessionStays ==
  ASSUME Advances, NEW s \in Session, SessionOK(s), session'[s] = session[s]
  PROVE  SessionOK(s)'
<1>1. config' = config
  BY DEF Advances
<1>2. \A a \in (session[s].acked \cup session[s].since)' : IsHeld(a)'
  BY HeldStays DEF SessionOK
<1>3. Releases(s)'
  <2>1. CASE ~(session[s].stage \in {"released", "calling"} /\ Mode[s] # "clear")
    BY <2>1 DEF Releases
  <2>2. CASE session[s].stage \in {"released", "calling"} /\ Mode[s] # "clear"
    <3>1. session[s].stage \notin {"new", "attested"}
      BY <2>2
    <3>2. ReleaseFrom(session[s].release, s, session[s].cluster)'
      BY <2>2, <3>1, ReleaseStays DEF SessionOK, Releases
    <3>3. QED
      BY <3>2 DEF Releases
  <2>3. QED
    BY <2>1, <2>2
<1>4. Ordered(s)' /\ Attests(s)' /\ Sends(s)'
  BY DEF SessionOK, Ordered, Attests, Sends
<1>5. QED
  BY <1>2, <1>3, <1>4 DEF SessionOK

-----------------------------------------------------------------------------
(* A session keeps the invariant as it moves.                              *)

\* What is remembered or acknowledged already stays held.
LEMMA AllHeld ==
  ASSUME SessionInv, Advances, NEW s \in Session, NEW a \in session[s].acked \cup session[s].since
  PROVE  IsHeld(a)'
BY HeldStays DEF SessionInv, SessionOK

LEMMA AttestOK ==
  ASSUME SessionInv, NEW s \in Session, Attest(s)
  PROVE  SessionOK(s)'
<1>1. SessionOK(s)
  BY DEF SessionInv
<1>2. Advances
  BY SessionAdvances
<1>3. \A a \in (session[s].acked \cup session[s].since)' : IsHeld(a)'
  BY <1>2, AttestStep, AllHeld
<1>4. Ordered(s)' /\ Attests(s)' /\ Releases(s)' /\ Sends(s)'
  BY <1>1, AttestStep DEF SessionOK, Ordered, Attests, Releases, Sends
<1>5. QED
  BY <1>1, <1>3, <1>4, AttestStep DEF SessionOK, Stages, Only

LEMMA AskOK ==
  ASSUME SessionInv, NEW s \in Session, Ask(s)
  PROVE  SessionOK(s)'
<1>1. SessionOK(s)
  BY DEF SessionInv
<1>2. Advances
  BY SessionAdvances
<1>3. \A a \in (session[s].acked \cup session[s].since)' : IsHeld(a)'
  BY <1>2, AskStep, AllHeld
<1>4. Ordered(s)' /\ Attests(s)' /\ Releases(s)' /\ Sends(s)'
  BY <1>1, AskStep DEF SessionOK, Ordered, Attests, Releases, Sends
<1>5. QED
  BY <1>1, <1>3, <1>4, AskStep DEF SessionOK, Stages, Only

\* A transport key is its root's.
LEMMA TransportOfRoot ==
  \A c, d : TransportKey(c) = TransportKey(d) => c = d
BY DEF TransportKey

\* An answer session s reads was made for it, by the cluster it attested.
LEMMA ReadIsOwn ==
  ASSUME SessionInv, AnswerInv, NEW s \in Session, session[s].stage = "asking",
         Mode[s] # "clear", NEW a \in answers, Readable(s, a)
  PROVE  ReleaseFrom(a.plain, s, session[s].cluster)
<1>1. session[s].transport = TransportKey(session[s].cluster)
  BY DEF SessionInv, SessionOK, Attests
<1>2. PICK t \in Session, root \in Cluster : AnsweredTo(a, t, root)
  BY DEF AnswerInv
<1>3. a.domain # "clear" /\ a.sealTo = s /\ a.transport = session[s].transport
  BY DEF Readable
<1>4. Mode[t] # "clear"
  BY <1>2, <1>3 DEF AnsweredTo
<1>5. t = s /\ a.transport = TransportKey(root)
  BY <1>2, <1>3, <1>4 DEF AnsweredTo
<1>6. root = session[s].cluster
  BY <1>1, <1>3, <1>5, TransportOfRoot
<1>7. QED
  BY <1>2, <1>5, <1>6 DEF AnsweredTo

LEMMA AcceptOK ==
  ASSUME SessionInv, AnswerInv, NEW s \in Session, Accept(s)
  PROVE  SessionOK(s)'
<1>1. SessionOK(s)
  BY DEF SessionInv
<1>2. Advances
  BY SessionAdvances
<1>3. \A a \in (session[s].acked \cup session[s].since)' : IsHeld(a)'
  BY <1>2, AcceptStep, AllHeld
<1>4. Ordered(s)' /\ Attests(s)' /\ Sends(s)'
  BY <1>1, AcceptStep DEF SessionOK, Ordered, Attests, Sends
<1>5. Releases(s)'
  <2> SUFFICES ASSUME Mode[s] # "clear"
               PROVE  ReleaseFrom(session[s].release, s, session[s].cluster)'
    BY DEF Releases
  <2>1. PICK a \in answers : Readable(s, a) /\ session'[s].release = a.plain
    BY AcceptStep
  <2>2. ReleaseFrom(a.plain, s, session[s].cluster)
    BY <2>1, AcceptStep, ReadIsOwn
  <2> DEFINE p == a.plain
             root == session[s].cluster
  <2>3. ReleaseFrom(p, s, root)
    BY <2>2
  <2>4. Owed(s, root) = {x \in session'[s].since :
           x.transport = TransportKey(root) /\ x.peer = Peer[s] /\ x.node = NodeId[s]}
    BY AcceptStep DEF Owed
  <2>5. config' = config /\ session'[s].cluster = root /\ session'[s].release = p
    BY <1>2, <2>1, AcceptStep DEF Advances
  <2> HIDE DEF p, root
  <2>6. QED
    BY <2>3, <2>4, <2>5 DEF ReleaseFrom, CountedRelease, NodePath, Owed
<1>6. QED
  BY <1>1, <1>3, <1>4, <1>5, AcceptStep DEF SessionOK, Stages, Only

LEMMA AskRollbackOK ==
  ASSUME SessionInv, NEW s \in Session, NEW kind \in {"raise", "reset"}, NEW mark \in Mark,
         AskRollback(s, kind, mark)
  PROVE  SessionOK(s)'
<1> DEFINE m == MessageOf(s, session[s].release, kind, mark)
<1>1. SessionOK(s)
  BY DEF SessionInv
<1>2. Advances
  BY SessionAdvances
<1>3. \A a \in (session[s].acked \cup session[s].since)' : IsHeld(a)'
  BY <1>2, AskRollbackStep, AllHeld
<1>4. Ordered(s)' /\ Attests(s)'
  BY <1>1, AskRollbackStep DEF SessionOK, Ordered, Attests
<1>5. Releases(s)'
  <2>1. ReleaseFrom(session[s].release, s, session[s].cluster)'
    <3>1. PICK p, root : p = session[s].release /\ root = session[s].cluster
      OBVIOUS
    <3>2. ReleaseFrom(p, s, root)
      BY <1>1, <3>1, AskRollbackStep DEF SessionOK, Releases
    <3>3. ReleaseFrom(p, s, root)'
      BY <1>2, <3>2, AskRollbackStep, ReleaseStays
    <3>4. p = session'[s].release /\ root = session'[s].cluster
      BY <3>1, AskRollbackStep
    <3>5. QED
      BY <3>3, <3>4
  <2>2. QED
    BY <2>1 DEF Releases
<1>6. Sends(s)'
  <2>1. m.kind = kind /\ m.mark = mark
    BY DEF MessageOf
  <2> HIDE DEF m
  <2>2. /\ session'[s].sent = session[s].sent \cup {m}
        /\ session'[s].release = session[s].release
        /\ Mode[s] = "counted"
    BY AskRollbackStep DEF m
  <2>3. m = MessageOf(s, session[s].release, m.kind, m.mark)
    BY <2>1 DEF m
  <2>4. QED
    BY <1>1, <2>1, <2>2, <2>3 DEF SessionOK, Sends
<1>7. QED
  BY <1>1, <1>3, <1>4, <1>5, <1>6, AskRollbackStep DEF SessionOK, Stages, Only

\* A message is made by one session, for one call: its nonce says which.
LEMMA OneCall ==
  ASSUME NEW s \in Session, NEW t \in Session, Sends(s), Sends(t),
         NEW m \in session[s].sent, NEW n \in session[t].sent, m.nonce = n.nonce
  PROVE  s = t /\ m = n
<1>1. /\ m = MessageOf(s, session[s].release, m.kind, m.mark)
      /\ n = MessageOf(t, session[t].release, n.kind, n.mark)
  BY DEF Sends
<1>2. m.nonce = <<s, m.kind, m.mark>> /\ n.nonce = <<t, n.kind, n.mark>>
  BY <1>1 DEF MessageOf
<1>3. s = t /\ m.kind = n.kind /\ m.mark = n.mark
  <2>1. <<s, m.kind, m.mark>> = <<t, n.kind, n.mark>>
    BY <1>2, Zenon
  <2>2. QED
    BY <2>1, Zenon
<1>4. QED
  BY <1>1, <1>3

\* What a message of s is made of.
LEMMA MessageParts ==
  ASSUME NEW s \in Session, SessionInv, NEW m \in session[s].sent
  PROVE  LET release == session[s].release IN
         /\ Mode[s] = "counted" /\ m.kind \in {"raise", "reset"}
         /\ m.peer = Peer[s] /\ m.node = NodeId[s] /\ m.node \in Node
         /\ m.id = release.id
         /\ m.generation = release.entry.generation
         /\ m.mark \in Mark
         /\ EntryIn(m) \in Entry
         /\ m.mac = RollbackMac(release.sessionKey, RollbackDomain(m.kind), m)
         /\ CountedRelease(release, s, session[s].cluster)
<1> DEFINE release == session[s].release
<1>1. SessionOK(s)
  BY DEF SessionInv
<1>2. /\ Mode[s] = "counted" /\ m.kind \in {"raise", "reset"} /\ m.mark \in Mark
      /\ m = MessageOf(s, release, m.kind, m.mark)
  BY <1>1 DEF SessionOK, Sends
<1>3. CountedRelease(release, s, session[s].cluster)
  <2>1. session[s].stage \in {"released", "calling"}
    BY <1>1 DEF SessionOK, Ordered, Stages
  <2>2. QED
    BY <1>1, <1>2, <2>1 DEF SessionOK, Releases, ReleaseFrom
<1>4. NodeId[s] \in Node /\ Mark \subseteq Nat /\ release.entry.generation \in Nat
  BY <1>3, SessionAssumption, MarkAssumption DEF CountedRelease
<1> HIDE DEF release
<1>5. /\ m.peer = Peer[s] /\ m.node = NodeId[s] /\ m.id = release.id
      /\ m.generation = release.entry.generation
      /\ m.mac = RollbackMac(release.sessionKey, RollbackDomain(m.kind), m)
  BY <1>2 DEF MessageOf, RollbackMac
<1>6. EntryIn(m) \in Entry
  BY <1>2, <1>4, <1>5 DEF EntryIn, Entry
<1>7. QED
  BY <1>2, <1>3, <1>4, <1>5, <1>6 DEF release

\* The acknowledgement a session takes was made of its call, at its cluster.
LEMMA AckIsOwn ==
  ASSUME SessionInv, AckInv, NEW s \in Session, session[s].stage = "calling",
         NEW ack \in acks,
         ack.mac = AckMac(session[s].release.sessionKey, session[s].waiting.nonce,
                          ack.epoch, ack.entry)
  PROVE  LET m == session[s].waiting IN
         /\ m \in session[s].sent
         /\ m.kind = "raise" =>
              RaiseOf(session[s].cluster, m.peer, m.node, EntryIn(m)) \in held
<1> DEFINE m == session[s].waiting
<1>1. m \in session[s].sent /\ SessionOK(s)
  BY DEF SessionInv, SessionOK, Ordered
<1>2. PICK root \in Cluster, t \in Session :
        \E n \in session[t].sent : Acknowledges(ack, root, n)
  BY DEF AckInv
<1>3. PICK n \in session[t].sent :
        /\ ack.mac = AckMac(SessionKey(root, NodePath(n.peer), n.node, n.id), n.nonce,
                            ack.epoch, ack.entry)
        /\ n.kind = "raise" => RaiseOf(root, n.peer, n.node, EntryIn(n)) \in held
  BY <1>2 DEF Acknowledges
<1> DEFINE key == session[s].release.sessionKey
<1>4. m.nonce = n.nonce /\ key = SessionKey(root, NodePath(n.peer), n.node, n.id)
  BY <1>3 DEF AckMac
<1>5. Sends(s) /\ Sends(t)
  BY DEF SessionInv, SessionOK
<1>6. s = t /\ m = n
  <2> HIDE DEF m
  <2>1. QED
    BY <1>1, <1>4, <1>5, OneCall
<1>7. root = session[s].cluster
  <2>1. CountedRelease(session[s].release, s, session[s].cluster)
    BY <1>1, MessageParts
  <2>2. key = SessionKey(session[s].cluster, NodePath(Peer[s]), NodeId[s], session[s].release.id)
    BY <2>1 DEF CountedRelease
  <2> HIDE DEF key
  <2>3. QED
    BY <1>4, <2>2 DEF SessionKey
<1>8. QED
  BY <1>1, <1>3, <1>6, <1>7

LEMMA AcceptAckOK ==
  ASSUME SessionInv, AckInv, NEW s \in Session, AcceptAck(s)
  PROVE  SessionOK(s)'
<1>1. SessionOK(s)
  BY DEF SessionInv
<1>2. Advances
  BY SessionAdvances
<1> DEFINE m == session[s].waiting
           a == [transport |-> session[s].transport, peer |-> Peer[s], node |-> NodeId[s],
                 entry |-> [generation |-> m.generation, mark |-> m.mark]]
<1>3. /\ m \in session[s].sent
      /\ m.kind = "raise" => RaiseOf(session[s].cluster, m.peer, m.node, EntryIn(m)) \in held
  <2>1. PICK ack \in acks :
          ack.mac = AckMac(session[s].release.sessionKey, m.nonce, ack.epoch, ack.entry)
    BY AcceptAckStep
  <2>2. QED
    BY <2>1, AcceptAckStep, AckIsOwn
<1>4. m.kind = "raise" => IsHeld(a)
  <2>1. /\ Mode[s] = "counted" /\ m.peer = Peer[s] /\ m.node = NodeId[s] /\ m.node \in Node
        /\ EntryIn(m) \in Entry
    BY <1>3, MessageParts
  <2>2. session[s].cluster \in Cluster /\ session[s].transport = TransportKey(session[s].cluster)
    BY <1>1, <2>1, AcceptAckStep DEF SessionOK, Attests
  <2>3. /\ a.transport = session[s].transport /\ a.peer = Peer[s] /\ a.node = NodeId[s]
        /\ a.entry = EntryIn(m)
    BY DEF EntryIn
  <2> HIDE DEF a, m
  <2>4. QED
    BY <1>3, <2>1, <2>2, <2>3 DEF IsHeld
<1>5. \A x \in (session[s].acked \cup session[s].since)' : IsHeld(x)'
  <2>1. m.kind \in {"raise", "reset"}
    BY <1>3, MessageParts
  <2>2. ASSUME NEW x \in session'[s].acked \cup session'[s].since
        PROVE  x \in session[s].acked \cup session[s].since \/ (m.kind = "raise" /\ x = a)
    <3>1. CASE m.kind = "reset"
      BY <3>1, AcceptAckStep
    <3>2. CASE m.kind = "raise"
      BY <3>2, AcceptAckStep
    <3>3. QED
      BY <2>1, <3>1, <3>2
  <2> HIDE DEF a, m
  <2>3. ASSUME NEW x \in session'[s].acked \cup session'[s].since
        PROVE  IsHeld(x)
    BY <1>1, <1>4, <2>2 DEF SessionOK
  <2>4. QED
    BY <1>2, <2>3, HeldStays
<1>6. Ordered(s)' /\ Attests(s)' /\ Sends(s)'
  BY <1>1, AcceptAckStep DEF SessionOK, Ordered, Attests, Sends
<1>7. Releases(s)'
  <2> SUFFICES ASSUME Mode[s] # "clear"
               PROVE  ReleaseFrom(session[s].release, s, session[s].cluster)'
    BY DEF Releases
  <2>1. PICK p, root : p = session[s].release /\ root = session[s].cluster
    OBVIOUS
  <2>2. ReleaseFrom(p, s, root)
    BY <1>1, <2>1, AcceptAckStep DEF SessionOK, Releases
  <2>3. ReleaseFrom(p, s, root)'
    BY <1>2, <2>2, AcceptAckStep, ReleaseStays
  <2>4. p = session'[s].release /\ root = session'[s].cluster
    BY <2>1, AcceptAckStep
  <2>5. QED
    BY <2>3, <2>4
<1>8. QED
  BY <1>1, <1>5, <1>6, <1>7, AcceptAckStep DEF SessionOK, Stages, Only

-----------------------------------------------------------------------------
(* What a cluster makes of what reaches it.                                *)

\* Serving moves no session.
LEMMA ServiceAdvances ==
  ASSUME SessionInv, UNCHANGED <<config, session>>, held \subseteq held', written \subseteq written'
  PROVE  Advances /\ SessionInv'
<1>1. Advances
  BY DEF Advances, Grows
<1>2. ASSUME NEW s \in Session
      PROVE  SessionOK(s)'
  BY <1>1, SessionStays DEF SessionInv
<1>3. QED
  BY <1>1, <1>2 DEF SessionInv

\* The other requests keep what they hold.
LEMMA OneServed ==
  ASSUME Advances, CallInv, NEW q \in Call, NEW x, call' = [call EXCEPT ![q] = x], CallOK(q)'
  PROVE  CallInv'
<1>1. ASSUME NEW p \in Call
      PROVE  CallOK(p)'
  <2>1. CASE p = q
    BY <2>1
  <2>2. CASE p # q
    BY <2>2, CallStays DEF CallInv
  <2>3. QED
    BY <2>1, <2>2
<1>2. QED
  BY <1>1 DEF CallInv

\* The entries of a policy hold the lists of their roles.
LEMMA EntriesOf ==
  ASSUME NEW e
  PROVE  LET entries == LoadPolicy(e).entries IN
         /\ DOMAIN entries \in SUBSET (1..2)
         /\ \A i \in DOMAIN entries : /\ entries[i].role \in Role
                                      /\ entries[i].allowed = Lists(e, entries[i].role)
BY DEF LoadPolicy, Role

\* A quote a session's KMS releases a key for is of the image the key is for.
LEMMA RoleIsImage ==
  ASSUME Talking, NEW s \in Session, NEW quote, quote.registers = Quoted[s].registers,
         RoleOf(config.policy, quote) # NoRole
  PROVE  Image[s] = RoleOf(config.policy, quote) /\ Image[s] \in Role
<1>1. PICK e \in Called : config = Started(e) /\ config # Refused
  BY DEF Talking, CalledConfig
<1> DEFINE policy == LoadPolicy(e)
           matching == {i \in DOMAIN policy.entries : EntryMatches(policy, policy.entries[i], quote)}
           first == CHOOSE i \in matching : \A j \in matching : i <= j
<1>2. config.policy = policy /\ policy.enforced
  <2>1. config = FromEnv(e)
    BY <1>1, Zenon DEF Started
  <2>2. Or(e.enforce, TRUE) = TRUE
    BY CalledAssumption, Zenon
  <2>3. policy.enforced = Or(e.enforce, TRUE)
    BY DEF LoadPolicy
  <2> HIDE DEF policy
  <2>4. config.policy = policy
    BY <2>1 DEF FromEnv, policy
  <2>5. QED
    BY <2>2, <2>3, <2>4
<1>3. matching # {} /\ RoleOf(config.policy, quote) = policy.entries[first].role
  BY <1>2 DEF RoleOf
<1>4. first \in matching
  <2>1. matching \in SUBSET (1..2)
    BY EntriesOf
  <2> HIDE DEF matching
  <2>2. QED
    BY <1>3, <2>1, FirstAndLast
<1> HIDE DEF first
<1>5. policy.entries[first].role \in Role
  BY <1>4, EntriesOf
<1>6. \A g \in Register : Quoted[s].registers[g] \in Lists(e, policy.entries[first].role)[g]
  BY <1>4, EntriesOf DEF EntryMatches
<1> HIDE DEF policy, matching
<1>7. Image[s] = policy.entries[first].role
  BY <1>5, <1>6, CalledAssumption
<1>8. QED
  BY <1>3, <1>5, <1>7

\* What the request of session s asks for.
LEMMA RequestParts ==
  ASSUME NEW s \in Session
  PROVE  /\ Request(s).peer = Peer[s]
         /\ Request(s).quote.registers = Quoted[s].registers
         /\ Request(s).sealTo = NotSealed <=> Mode[s] = "clear"
         /\ Request(s).sealTo # NotSealed => Request(s).sealTo = s
         /\ Request(s).node # NotNamed <=> Mode[s] = "counted"
         /\ Request(s).node # NotNamed => Request(s).node = NodeId[s]
BY SessionAssumption DEF Request, RequestOf

\* The role a session's request is released as is its image.
LEMMA ReleasedRole ==
  ASSUME Talking, NEW s \in Session, NEW root, RoleReleased(root, Request(s)) # NoRole
  PROVE  Image[s] = RoleReleased(root, Request(s)) /\ Image[s] # NoRole
<1>1. RoleReleased(root, Request(s)) = RoleOf(config.policy, Request(s).quote)
  BY DEF RoleReleased
<1>2. Image[s] \in Role /\ Image[s] = RoleReleased(root, Request(s))
  BY <1>1, RequestParts, RoleIsImage
<1>3. QED
  BY <1>2

\* A read's view holds every write it must find, and nothing that is no entry.
LEMMA ViewsRead ==
  ASSUME WriteInv, NEW q \in Call, NEW view \in Views(q)
  PROVE  /\ view.epoch \in Nat
         /\ \A n \in Node : n \in Known(view) => view.nodes[n] \in Entry
         /\ \A w \in call[q].before : Leq(w.update, view)
<1>1. PICK W \in SUBSET Of(written, call[q].root, Path(q)) :
        call[q].before \subseteq W /\ view \in MergeOf(W)
  BY DEF Views
<1>2. \A w \in W : w.update \in View /\ Leq(w.update, view)
  BY <1>1 DEF WriteInv, Of, MergeOf
<1>3. view.epoch \in Nat
  <2>1. view.epoch \in {0} \cup {w.update.epoch : w \in W}
    BY <1>1 DEF MergeOf
  <2>2. QED
    BY <1>2, <2>1 DEF View
<1>4. ASSUME NEW n \in Node, n \in Known(view)
      PROVE  view.nodes[n] \in Entry
  <2>1. PICK w \in W : view.nodes[n] = w.update.nodes[n]
    BY <1>1, <1>4 DEF MergeOf
  <2>2. w.update.nodes[n] \in Entry \cup {NoEntry}
    BY <1>2 DEF View
  <2>3. view.nodes[n] # NoEntry
    BY <1>4 DEF Known
  <2>4. QED
    BY <2>1, <2>2, <2>3
<1>5. QED
  BY <1>1, <1>2, <1>3, <1>4

\* The endpoint that takes a call is the one it was made to.
LEMMA KindOfCall ==
  ASSUME SessionInv, NEW s \in Session, NEW m \in session[s].sent, NEW root,
         NEW kind \in {"raise", "reset"}, MacHolds(root, m, kind)
  PROVE  m.kind = kind
<1>1. m.mac = RollbackMac(session[s].release.sessionKey, RollbackDomain(m.kind), m)
  BY MessageParts
<1>2. m.kind \in {"raise", "reset"}
  BY MessageParts
<1>3. RollbackDomain(m.kind) = RollbackDomain(kind)
  BY <1>1 DEF MacHolds, RollbackMac
<1>4. QED
  BY <1>2, <1>3 DEF RollbackDomain

\* The MAC of a session's call holds at the session's own cluster only.
LEMMA ClusterOfCall ==
  ASSUME SessionInv, NEW s \in Session, NEW m \in session[s].sent, NEW root,
         NEW kind, MacHolds(root, m, kind)
  PROVE  root = session[s].cluster
<1>1. m.mac = RollbackMac(session[s].release.sessionKey, RollbackDomain(m.kind), m)
  BY MessageParts
<1>2. \E path, node, id :
        session[s].release.sessionKey = SessionKey(session[s].cluster, path, node, id)
  BY MessageParts DEF CountedRelease
<1>3. \E path, node, id :
        session[s].release.sessionKey = SessionKey(root, path, node, id)
  BY <1>1 DEF MacHolds, RollbackMac
<1>4. QED
  BY <1>2, <1>3 DEF SessionKey

-----------------------------------------------------------------------------
(* A cluster serves /get-key.                                              *)

\* Every step is taken with a KMS a session talks to: what the step needs of the
\* invariant, and what it keeps of it.
Kept == SessionInv' /\ CallInv' /\ AnswerInv' /\ AckInv' /\ WriteInv' /\ OnlyResetsMoveEpochs'

LEMMA GetKeyKeeps ==
  ASSUME IInv, NEW q \in Call, NEW s \in Session, NEW root \in Cluster, GetKey(q, s, root)
  PROVE  Kept
<1> DEFINE x == [stage |-> "attesting", root |-> root, from |-> s, peer |-> Peer[s]]
<1>1. /\ call' = [call EXCEPT ![q] = x] /\ session[s].challenge # None /\ Admits(root, Request(s))
      /\ UNCHANGED <<config, session, answers, acks, written, held>>
  BY DEF GetKey
<1>2. Advances /\ SessionInv'
  BY <1>1, ServiceAdvances DEF IInv
<1>3. call'[q] = x
  BY <1>1 DEF IInv, CallInv
<1>4. CallOK(q)'
  <2>1. session[s].stage \notin {"new", "attested"}
    BY <1>1 DEF IInv, SessionInv, SessionOK, Ordered
  <2>2. config.requireSealed => Mode[s] # "clear"
    BY <1>1, RequestParts DEF Admits
  <2>3. ServesKey(q)'
    BY <1>1, <1>3, <2>1, <2>2 DEF ServesKey
  <2>4. QED
    BY <1>3, <2>3 DEF CallOK
<1> HIDE DEF x
<1>5. CallInv'
  BY <1>1, <1>2, <1>4, OneServed DEF IInv
<1>6. AnswerInv' /\ AckInv' /\ WriteInv' /\ OnlyResetsMoveEpochs'
  <2>1. AnswerInv'
    BY <1>1, <1>2, AnswerInvStays DEF IInv
  <2>2. AckInv'
    BY <1>1, <1>2, AckInvStays DEF IInv
  <2>3. WriteInv' /\ OnlyResetsMoveEpochs'
    BY <1>1 DEF IInv, WriteInv, OnlyResetsMoveEpochs
  <2>4. QED
    BY <2>1, <2>2, <2>3
<1>7. QED
  BY <1>2, <1>5, <1>6 DEF Kept

\* An answer made for the session that asked.
LEMMA AnswerMade ==
  ASSUME IInv, NEW q \in Call, ServesKey(q), NEW view,
         LET s == call[q].from IN
         /\ Image[s] # NoRole
         /\ Mode[s] = "counted" =>
              /\ Image[s] = "node"
              /\ view.epoch \in Nat
              /\ NodeId[s] \in Known(view) => view.nodes[NodeId[s]].generation \in Nat
              /\ \A a \in Owed(s, call[q].root) :
                   NodeId[s] \in Known(view) /\ Covers(view.nodes[NodeId[s]], a.entry)
  PROVE  LET s == call[q].from
             root == call[q].root IN
         AnsweredTo(AnswerOf(q, root, Request(s), Image[s], view), s, root)
<1> DEFINE s == call[q].from
           root == call[q].root
           request == Request(s)
           a == AnswerOf(q, root, request, Image[s], view)
<1>1. /\ s \in Session /\ session[s].stage \notin {"new", "attested"}
      /\ config.requireSealed => Mode[s] # "clear"
  BY DEF ServesKey
<1>2. /\ request.peer = Peer[s]
      /\ request.sealTo = NotSealed <=> Mode[s] = "clear"
      /\ request.sealTo # NotSealed => request.sealTo = s
      /\ request.node # NotNamed <=> Mode[s] = "counted"
      /\ request.node # NotNamed => request.node = NodeId[s]
  BY <1>1, RequestParts
<1>3. Mode[s] \in {"clear", "sealed", "counted"}
  BY <1>1, SessionAssumption
<1> DEFINE key == StorageKey(root, KeyPath(config, Image[s], Peer[s]))
<1> HIDE DEF s, root, request, key
<1>4. CASE Mode[s] = "clear"
  <2>1. a = [domain |-> "clear", plain |-> [key |-> key]]
    BY <1>2, <1>4 DEF AnswerOf, key
  <2> HIDE DEF a
  <2>2. ReleaseFrom(a.plain, s, root)
    BY <1>4, <2>1 DEF ReleaseFrom, key, s
  <2>3. QED
    BY <1>1, <1>4, <2>1, <2>2 DEF AnsweredTo, a, s, root, request
<1>5. CASE Mode[s] = "sealed"
  <2>1. a = Sealed("sealed-key/v1", root, request, [key |-> key])
    BY <1>2, <1>5 DEF AnswerOf, key
  <2> HIDE DEF a
  <2>2. /\ a.domain = "sealed-key/v1" /\ a.plain = [key |-> key] /\ a.sealTo = s
        /\ a.transport = TransportKey(root)
    BY <1>2, <1>5, <2>1 DEF Sealed
  <2>3. ReleaseFrom(a.plain, s, root)
    BY <1>5, <2>2 DEF ReleaseFrom, key, s
  <2>4. AnsweredTo(a, s, root)
    BY <1>1, <1>5, <2>2, <2>3 DEF AnsweredTo
  <2>5. QED
    BY <2>4 DEF a, s, root, request
<1>6. CASE Mode[s] = "counted"
  <2> DEFINE n == NodeId[s]
             entry == IF n \in Known(view) THEN view.nodes[n]
                      ELSE [generation |-> view.epoch, mark |-> NoEntry]
             plain == [key |-> key, epoch |-> view.epoch, entry |-> entry, id |-> q,
                       sessionKey |-> SessionKey(root, NodePath(Peer[s]), n, q)]
  <2>1. Image[s] = "node"
    BY <1>6 DEF s
  <2>2. a = Sealed("sealed-key/v2", root, request, plain)
    BY <1>2, <1>6, <2>1 DEF AnswerOf, key, NodePath
  <2>3. entry.generation \in Nat /\ \A o \in Owed(s, root) : Covers(entry, o.entry)
    BY <1>6 DEF s, root
  <2>4. plain.key = key /\ plain.id = q /\ plain.entry = entry
        /\ plain.sessionKey = SessionKey(root, NodePath(Peer[s]), n, q)
    OBVIOUS
  <2> HIDE DEF a, plain, entry
  <2>5. /\ a.domain = "sealed-key/v2" /\ a.plain = plain /\ a.sealTo = s
        /\ a.transport = TransportKey(root)
    BY <1>2, <1>6, <2>2 DEF Sealed
  <2>6. ReleaseFrom(a.plain, s, root)
    <3>1. CountedRelease(plain, s, root)
      BY <2>1, <2>3, <2>4 DEF CountedRelease
    <3>2. plain.key = StorageKey(root, KeyPath(config, Image[s], Peer[s]))
      BY <2>4 DEF key
    <3>3. Image[s] # NoRole
      BY DEF s
    <3>4. QED
      BY <2>5, <3>1, <3>2, <3>3 DEF ReleaseFrom
  <2>7. AnsweredTo(a, s, root)
    BY <1>1, <1>6, <2>5, <2>6 DEF AnsweredTo
  <2>8. QED
    BY <2>7 DEF a, s, root, request
<1>7. QED
  BY <1>3, <1>4, <1>5, <1>6

\* A request that answers, or is refused, is done.
LEMMA DoneKeeps ==
  ASSUME IInv, NEW q \in Call, call' = [call EXCEPT ![q] = [stage |-> "done"]],
         UNCHANGED <<config, session, acks, written, held>>,
         \/ UNCHANGED answers
         \/ /\ ServesKey(q)
            /\ \E a : /\ answers' = answers \cup {a}
                      /\ AnsweredTo(a, call[q].from, call[q].root)
  PROVE  Kept
<1>1. Advances /\ SessionInv'
  BY ServiceAdvances DEF IInv
<1>2. CallOK(q)'
  <2>1. call'[q].stage = "done"
    BY DEF IInv, CallInv
  <2>2. QED
    BY <2>1 DEF CallOK
<1>3. CallInv'
  BY <1>1, <1>2, OneServed DEF IInv
<1>4. AnswerInv'
  <2>1. CASE UNCHANGED answers
    BY <1>1, <2>1, AnswerInvStays DEF IInv
  <2>2. CASE /\ ServesKey(q)
             /\ \E a : /\ answers' = answers \cup {a}
                       /\ AnsweredTo(a, call[q].from, call[q].root)
    <3>1. PICK a, s, root : /\ answers' = answers \cup {a} /\ AnsweredTo(a, s, root)
                            /\ s = call[q].from /\ root = call[q].root
      BY <2>2
    <3>2. s \in Session /\ root \in Cluster
      BY <2>2, <3>1 DEF ServesKey
    <3>3. AnsweredTo(a, s, root)'
      BY <1>1, <3>1, <3>2, AnswersStay
    <3>4. ASSUME NEW b \in answers
          PROVE  \E t \in Session, r \in Cluster : AnsweredTo(b, t, r)'
      BY <1>1, AnswersStay DEF IInv, AnswerInv
    <3>5. QED
      BY <3>1, <3>2, <3>3, <3>4 DEF AnswerInv
  <2>3. QED
    BY <2>1, <2>2
<1>5. AckInv' /\ WriteInv' /\ OnlyResetsMoveEpochs'
  <2>1. AckInv'
    BY <1>1, AckInvStays DEF IInv
  <2>2. QED
    BY <2>1 DEF IInv, WriteInv, OnlyResetsMoveEpochs
<1>6. QED
  BY <1>1, <1>3, <1>4, <1>5 DEF Kept

\* A request that goes on, or is taken up, with nothing else changed.
LEMMA ServedKeeps ==
  ASSUME IInv, NEW q \in Call, NEW x, call' = [call EXCEPT ![q] = x],
         UNCHANGED <<config, session, answers, acks, written, held>>, CallOK(q)'
  PROVE  Kept
<1>1. Advances /\ SessionInv'
  BY ServiceAdvances DEF IInv
<1>2. CallInv' /\ AnswerInv' /\ AckInv'
  BY <1>1, OneServed, AnswerInvStays, AckInvStays DEF IInv
<1>3. WriteInv' /\ OnlyResetsMoveEpochs'
  BY DEF IInv, WriteInv, OnlyResetsMoveEpochs
<1>4. QED
  BY <1>1, <1>2, <1>3 DEF Kept

LEMMA RefuseKeeps ==
  ASSUME IInv, NEW q \in Call, Refuse(q), UNCHANGED <<config, session, acks, written, held>>
  PROVE  Kept
BY DoneKeeps DEF Refuse

\* The counter a request reads is that of a node's image, and the acknowledgements
\* it must find are in what was held when it began.
LEMMA CountingOK ==
  ASSUME IInv, Talking, NEW q \in Call, call[q].stage = "attesting",
         Request(call[q].from).node # NotNamed,
         RoleReleased(call[q].root, Request(call[q].from)) = "node",
         call' = [call EXCEPT ![q] =
           [stage |-> "counting", root |-> @.root, from |-> @.from, peer |-> @.peer,
            before |-> Of(held, call[q].root, Path(q))]],
         UNCHANGED <<config, session, answers, acks, written, held>>
  PROVE  Kept
<1>0. PICK s, root, before :
        s = call[q].from /\ root = call[q].root /\ before = Of(held, root, Path(q))
  OBVIOUS
<1>1. /\ s \in Session /\ root \in Cluster /\ call[q].peer = Peer[s]
      /\ session[s].stage \notin {"new", "attested"}
      /\ config.requireSealed => Mode[s] # "clear"
  BY <1>0 DEF IInv, CallInv, CallOK, ServesKey
<1>2. Mode[s] = "counted" /\ Image[s] = "node"
  <2>1. Mode[s] = "counted"
    BY <1>0, <1>1, RequestParts
  <2>2. Image[s] = "node"
    BY <1>0, <1>1, ReleasedRole DEF NoRole
  <2>3. QED
    BY <2>1, <2>2
<1>3. ASSUME NEW a \in Owed(s, root)
      PROVE  RaiseOf(root, a.peer, a.node, a.entry) \in before
  <2>1. IsHeld(a) /\ a.transport = TransportKey(root) /\ a.peer = Peer[s]
    BY <1>1, <1>3 DEF IInv, SessionInv, SessionOK, Owed
  <2>2. PICK c \in Cluster :
          a.transport = TransportKey(c) /\ RaiseOf(c, a.peer, a.node, a.entry) \in held
    BY <2>1 DEF IsHeld
  <2>3. c = root
    BY <2>1, <2>2, TransportOfRoot
  <2> DEFINE w == RaiseOf(root, a.peer, a.node, a.entry)
  <2>4. w.root = root /\ w.path = Path(q)
    BY <1>0, <1>1, <2>1 DEF RaiseOf, NodePath, Path
  <2>5. w \in held
    BY <2>2, <2>3
  <2> HIDE DEF w
  <2>6. QED
    BY <1>0, <2>4, <2>5 DEF Of, w
<1>4. /\ call'[q].stage = "counting" /\ call'[q].root = root /\ call'[q].from = s
      /\ call'[q].peer = call[q].peer /\ call'[q].before = before
  BY <1>0 DEF IInv, CallInv
<1>5. ServesKey(q)'
  BY <1>1, <1>4 DEF ServesKey
<1>6. Counts(q)'
  <2>1. Owed(s, root)' = Owed(s, root)
    BY DEF Owed
  <2>2. \A a \in Owed(s, root)' : RaiseOf(root, a.peer, a.node, a.entry)' \in before
    BY <1>3, <2>1 DEF RaiseOf, NodePath
  <2>3. QED
    BY <1>2, <1>4, <2>2 DEF Counts
<1>7. CallOK(q)'
  BY <1>4, <1>5, <1>6 DEF CallOK
<1>8. QED
  BY <1>7, ServedKeeps

LEMMA AttestedKeeps ==
  ASSUME IInv, Talking, NEW q \in Call, Attested(q)
  PROVE  Kept
<1> DEFINE s == call[q].from
           root == call[q].root
           role == RoleReleased(root, Request(s))
<1>1. ServesKey(q) /\ s \in Session
  BY DEF IInv, CallInv, CallOK, Attested, ServesKey
<1>2. CASE Refuse(q)
  BY <1>2, RefuseKeeps DEF Attested
<1>3. CASE role # NoRole /\ Request(s).node = NotNamed /\ Answer(q, role, EmptyView)
  <2>1. Image[s] = role /\ Image[s] # NoRole /\ Mode[s] # "counted"
    BY <1>1, <1>3, ReleasedRole, RequestParts
  <2>2. AnsweredTo(AnswerOf(q, root, Request(s), Image[s], EmptyView), s, root)
    BY <1>1, <2>1, AnswerMade
  <2>3. QED
    BY <1>1, <1>3, <2>1, <2>2, DoneKeeps DEF Answer, Attested
<1>4. CASE /\ role = "node" /\ Request(s).node # NotNamed
           /\ call' = [call EXCEPT ![q] =
                [stage |-> "counting", root |-> @.root, from |-> @.from, peer |-> @.peer,
                 before |-> Of(held, call[q].root, Path(q))]]
           /\ UNCHANGED answers
  BY <1>4, CountingOK DEF Attested
<1>5. QED
  BY <1>2, <1>3, <1>4 DEF Attested

LEMMA CountersReadKeeps ==
  ASSUME IInv, NEW q \in Call, CountersRead(q)
  PROVE  Kept
<1> DEFINE s == call[q].from
           root == call[q].root
           n == NodeId[s]
<1>1. ServesKey(q) /\ Counts(q)
  BY DEF IInv, CallInv, CallOK, CountersRead
<1>2. s \in Session /\ Mode[s] = "counted" /\ Image[s] = "node" /\ n \in Node
  BY <1>1, SessionAssumption DEF ServesKey, Counts
<1>3. PICK view \in Views(q) : Answer(q, "node", view)
  BY DEF CountersRead
<1>4. /\ view.epoch \in Nat
      /\ n \in Known(view) => view.nodes[n] \in Entry
      /\ \A w \in call[q].before : Leq(w.update, view)
  BY <1>2, <1>3, ViewsRead DEF IInv
<1>5. ASSUME NEW a \in Owed(s, root)
      PROVE  n \in Known(view) /\ Covers(view.nodes[n], a.entry)
  <2> DEFINE u == Update(0, n, a.entry)
  <2>1. a.node = n /\ a.entry \in Entry
    BY <1>2, <1>5 DEF Owed, IInv, SessionInv, SessionOK, IsHeld
  <2>2. Leq(u, view)
    <3>1. RaiseOf(root, a.peer, a.node, a.entry) \in call[q].before
      BY <1>1, <1>5 DEF Counts
    <3>2. RaiseOf(root, a.peer, a.node, a.entry).update = u
      BY <2>1 DEF RaiseOf
    <3>3. QED
      BY <1>4, <3>1, <3>2
  <2>3. n \in Known(u) /\ u.nodes[n] = a.entry
    BY <1>2, <2>1, NoEntryAssumption DEF Known, Update
  <2> HIDE DEF u, n
  <2>4. n \in Known(view) /\ EntryLeq(a.entry, view.nodes[n])
    BY <2>2, <2>3 DEF Leq
  <2>5. view.nodes[n].mark # NoEntry
    BY <1>4, <2>4, MarkAssumption DEF Entry
  <2>6. QED
    BY <2>4, <2>5 DEF Covers
<1>6. n \in Known(view) => view.nodes[n].generation \in Nat
  BY <1>4 DEF Entry
<1>7. AnsweredTo(AnswerOf(q, root, Request(s), Image[s], view), s, root)
  <2>1. Image[s] # NoRole
    BY <1>2 DEF NoRole
  <2>2. QED
    BY <1>1, <1>2, <1>4, <1>5, <1>6, <2>1, AnswerMade
<1>8. QED
  BY <1>1, <1>2, <1>3, <1>7, DoneKeeps DEF Answer, CountersRead

-----------------------------------------------------------------------------
(* A cluster serves /rollback/raise and /rollback/reset.                   *)

\* A call its endpoint takes up is one a session made there.
LEMMA CallTaken ==
  ASSUME IInv, NEW s \in Session, NEW m \in session[s].sent, NEW root \in Cluster,
         NEW kind \in {"raise", "reset"}, MacHolds(root, m, kind)
  PROVE  m.kind = kind /\ m.node \in Node /\ m.mark \in Nat /\ EntryIn(m) \in Entry
BY KindOfCall, MessageParts, MarkAssumption DEF IInv

\* A write submitted for a call: a raise of its entry at epoch zero, or a reset.
LEMMA SubmitKeeps ==
  ASSUME IInv, NEW q \in Call, NEW root \in Cluster, NEW s \in Session,
         NEW m \in session[s].sent, NEW update \in View, NEW kind \in {"raise", "reset"},
         MacHolds(root, m, kind),
         kind = "raise" => update = Update(0, m.node, EntryIn(m)),
         kind = "reset" => update.nodes[m.node].mark = m.mark,
         Submit(q, root, m, update),
         UNCHANGED <<config, session, answers, acks, held>>
  PROVE  Kept
<1>1. PICK w : w = [root |-> root, path |-> NodePath(m.peer), update |-> update]
  OBVIOUS
<1>2. PICK x : x = [stage |-> "writing", root |-> root, peer |-> m.peer, message |-> m,
                    write |-> w]
  OBVIOUS
<1>3. call' = [call EXCEPT ![q] = x] /\ written' = written \cup {w}
  BY <1>1, <1>2 DEF Submit, NodePath
<1>4. Advances /\ SessionInv'
  BY <1>3, ServiceAdvances DEF IInv
<1>5. m.kind = kind
  BY CallTaken
<1>6. /\ call'[q].stage = "writing" /\ call'[q].root = root /\ call'[q].peer = m.peer
      /\ call'[q].message = m /\ call'[q].write = w
  BY <1>2, <1>3 DEF IInv, CallInv
<1>7. ServesCall(q, m.kind)'
  <2>1. MacHolds(root, m, m.kind)'
    BY <1>5 DEF MacHolds
  <2>2. QED
    BY <1>6, <2>1 DEF ServesCall
<1>8. Writes(q)'
  <2>1. m.kind = "raise" => w = RaiseOf(root, m.peer, m.node, EntryIn(m))'
    BY <1>1, <1>5 DEF RaiseOf, NodePath
  <2>2. w \in written' /\ w.update \in View
    BY <1>1, <1>3
  <2>3. QED
    BY <1>6, <2>1, <2>2 DEF Writes
<1>9. CallOK(q)'
  BY <1>6, <1>7, <1>8 DEF CallOK
<1>10. CallInv' /\ AnswerInv' /\ AckInv'
  BY <1>3, <1>4, <1>9, OneServed, AnswerInvStays, AckInvStays DEF IInv
<1>11. WriteInv'
  <2>1. w.root \in Cluster /\ w.update \in View
    BY <1>1
  <2>2. QED
    BY <1>3, <2>1 DEF IInv, WriteInv
<1>12. OnlyResetsMoveEpochs'
  <2>1. w.update.epoch > 0 =>
          /\ m.kind = "reset" /\ w.root = session[s].cluster
          /\ w.path = KeyPath(config, "node", m.peer)
          /\ w.update.nodes[m.node].mark = m.mark
    BY <1>1, <1>5, ClusterOfCall DEF IInv, Update, NodePath
  <2>2. QED
    BY <1>3, <2>1 DEF IInv, OnlyResetsMoveEpochs
<1>13. QED
  BY <1>4, <1>10, <1>11, <1>12 DEF Kept

LEMMA RaiseKeeps ==
  ASSUME IInv, NEW q \in Call, NEW s \in Session, NEW root \in Cluster,
         NEW m \in session[s].sent, Raise(q, m, root)
  PROVE  Kept
<1>1. m.kind = "raise" /\ m.node \in Node /\ EntryIn(m) \in Entry
  BY CallTaken DEF Raise
<1>2. Update(0, m.node, EntryIn(m)) \in View
  BY <1>1, ViewTypes
<1>3. QED
  BY <1>2, SubmitKeeps DEF Raise, EntryIn

LEMMA ResetKeeps ==
  ASSUME IInv, NEW q \in Call, NEW s \in Session, NEW root \in Cluster,
         NEW m \in session[s].sent, Reset(q, m, root)
  PROVE  Kept
<1>1. PICK x : x = [stage |-> "resetting", root |-> root, peer |-> m.peer, message |-> m,
                    before |-> Of(held, root, KeyPath(config, "node", m.peer))]
  OBVIOUS
<1>2. call' = [call EXCEPT ![q] = x] /\ MacHolds(root, m, "reset")
  BY <1>1 DEF Reset
<1>3. m.kind = "reset"
  BY <1>2, CallTaken
<1>4. /\ call'[q].stage = "resetting" /\ call'[q].root = root /\ call'[q].peer = m.peer
      /\ call'[q].message = m
  BY <1>1, <1>2 DEF IInv, CallInv
<1>5. ServesCall(q, "reset")'
  <2>1. MacHolds(root, m, "reset")' /\ session' = session
    BY <1>2 DEF Reset, MacHolds
  <2>2. QED
    BY <1>3, <1>4, <2>1 DEF ServesCall
<1>6. CallOK(q)'
  BY <1>4, <1>5 DEF CallOK
<1>7. QED
  BY <1>2, <1>6, ServedKeeps DEF Reset

LEMMA ResetReadKeeps ==
  ASSUME IInv, NEW q \in Call, ResetRead(q)
  PROVE  Kept
<1> DEFINE m == call[q].message
<1>1. /\ m.kind = "reset" /\ call[q].root \in Cluster /\ MacHolds(call[q].root, m, "reset")
      /\ \E s \in Session : m \in session[s].sent
  BY DEF IInv, CallInv, CallOK, ResetRead, ServesCall
<1>2. PICK s \in Session : m \in session[s].sent
  BY <1>1
<1>3. PICK view \in Views(q) :
        Submit(q, call[q].root, m,
               Update(view.epoch + 1, m.node, [generation |-> view.epoch + 1, mark |-> m.mark]))
  BY DEF ResetRead
<1> DEFINE entry == [generation |-> view.epoch + 1, mark |-> m.mark]
           update == Update(view.epoch + 1, m.node, entry)
<1>4. m.node \in Node /\ m.mark \in Nat
  <2> HIDE DEF m
  <2>1. QED
    BY <1>1, <1>2, CallTaken
<1>5. view.epoch + 1 \in Nat
  BY ViewsRead DEF IInv
<1>6. update \in View /\ update.nodes[m.node].mark = m.mark
  <2>1. entry \in Entry /\ entry.mark = m.mark
    BY <1>4, <1>5 DEF Entry
  <2>2. update \in View
    <3> HIDE DEF entry, m
    <3>1. QED
      BY <1>4, <1>5, <2>1, ViewTypes
  <2>3. update.nodes[m.node] = entry
    BY <1>4 DEF Update
  <2>4. QED
    BY <2>1, <2>2, <2>3
<1>7. Submit(q, call[q].root, m, update) /\ UNCHANGED <<config, session, answers, acks, held>>
  BY <1>3 DEF ResetRead
<1> HIDE DEF update, m
<1>8. QED
  BY <1>1, <1>2, <1>6, <1>7, SubmitKeeps

LEMMA WriteAckedKeeps ==
  ASSUME IInv, NEW q \in Call, WriteAcked(q)
  PROVE  Kept
<1>1. PICK m, root, w : m = call[q].message /\ root = call[q].root /\ w = call[q].write
  OBVIOUS
<1>2. /\ root \in Cluster /\ call[q].peer = m.peer /\ MacHolds(root, m, m.kind)
      /\ w \in written
      /\ m.kind = "raise" => w = RaiseOf(root, m.peer, m.node, EntryIn(m))
  BY <1>1 DEF IInv, CallInv, CallOK, WriteAcked, ServesCall, Writes
<1>3. PICK s \in Session : m \in session[s].sent
  BY <1>1 DEF IInv, CallInv, CallOK, WriteAcked, ServesCall
<1>4. \E epoch, entry :
        acks' = acks \cup {[epoch |-> epoch, entry |-> entry,
                            mac |-> AckMac(SessionKey(root, NodePath(m.peer), m.node, m.id),
                                           m.nonce, epoch, entry)]}
  BY <1>1, <1>2 DEF WriteAcked, Path, NodePath
<1>5. PICK ack : /\ acks' = acks \cup {ack}
                 /\ ack.mac = AckMac(SessionKey(root, NodePath(m.peer), m.node, m.id), m.nonce,
                                     ack.epoch, ack.entry)
  <2>1. PICK epoch, entry :
          acks' = acks \cup {[epoch |-> epoch, entry |-> entry,
                              mac |-> AckMac(SessionKey(root, NodePath(m.peer), m.node, m.id),
                                             m.nonce, epoch, entry)]}
    BY <1>4
  <2>2. PICK key : key = SessionKey(root, NodePath(m.peer), m.node, m.id)
    OBVIOUS
  <2>3. PICK x : x = [epoch |-> epoch, entry |-> entry,
                      mac |-> AckMac(key, m.nonce, epoch, entry)]
    OBVIOUS
  <2>4. x.mac = AckMac(key, m.nonce, x.epoch, x.entry) /\ acks' = acks \cup {x}
    BY <2>1, <2>2, <2>3
  <2>5. QED
    BY <2>2, <2>4
<1>6. /\ held' = held \cup {w} /\ call' = [call EXCEPT ![q] = [stage |-> "done"]]
      /\ UNCHANGED <<config, session, answers, written>>
  BY <1>1 DEF WriteAcked
<1>7. Advances /\ SessionInv'
  BY <1>6, ServiceAdvances DEF IInv
<1>8. CallInv'
  <2>1. call'[q].stage = "done"
    BY <1>6 DEF IInv, CallInv
  <2>2. CallOK(q)'
    BY <2>1 DEF CallOK
  <2>3. QED
    BY <1>6, <1>7, <2>2, OneServed DEF IInv
<1>9. AnswerInv'
  BY <1>6, <1>7, AnswerInvStays DEF IInv
<1>10. AckInv'
  <2>1. Acknowledges(ack, root, m)'
    BY <1>2, <1>5, <1>6 DEF Acknowledges, MacHolds, NodePath, RaiseOf
  <2>2. ASSUME NEW b \in acks
        PROVE  \E r \in Cluster, t \in Session :
                 \E n \in session'[t].sent : Acknowledges(b, r, n)'
    <3>1. PICK r \in Cluster, t \in Session : \E n \in session[t].sent : Acknowledges(b, r, n)
      BY DEF IInv, AckInv
    <3>2. PICK n \in session[t].sent : Acknowledges(b, r, n)
      BY <3>1
    <3>3. Acknowledges(b, r, n)' /\ n \in session'[t].sent
      BY <1>6, <1>7, <3>2, AcksStay
    <3>4. QED
      BY <3>3
  <2>3. m \in session'[s].sent
    BY <1>3, <1>6
  <2>4. QED
    BY <1>2, <1>5, <2>1, <2>2, <2>3 DEF AckInv
<1>11. WriteInv' /\ OnlyResetsMoveEpochs'
  BY <1>2, <1>6 DEF IInv, WriteInv, OnlyResetsMoveEpochs
<1>12. QED
  BY <1>7, <1>8, <1>9, <1>10, <1>11 DEF Kept

-----------------------------------------------------------------------------
(* The theorems.                                                           *)

LEMMA InitKeeps == Init => IInv
<1> SUFFICES ASSUME Init PROVE IInv
  OBVIOUS
<1>1. SessionInv
  <2>1. ASSUME NEW s \in Session
        PROVE  session[s] = NotStarted
    BY DEF Init
  <2>2. ASSUME NEW s \in Session
        PROVE  SessionOK(s)
    <3>1. /\ session[s].stage = "new" /\ session[s].challenge = None
          /\ session[s].release = None
          /\ session[s].sent = {} /\ session[s].acked = {} /\ session[s].since = {}
      BY <2>1 DEF NotStarted
    <3>2. QED
      BY <2>1, <3>1 DEF SessionOK, Stages, Ordered, Attests, Releases, Sends
  <2>3. QED
    BY <2>2 DEF Init, SessionInv
<1>2. CallInv
  <2>1. ASSUME NEW q \in Call
        PROVE  call[q].stage = "not served"
    BY DEF Init
  <2>2. QED
    BY <2>1 DEF Init, CallInv, CallOK
<1>3. QED
  BY <1>1, <1>2 DEF Init, IInv, AnswerInv, AckInv, WriteInv, OnlyResetsMoveEpochs

LEMMA SessionKeeps ==
  ASSUME IInv, NEW s \in Session,
         \/ Attest(s) \/ Ask(s) \/ Accept(s) \/ AcceptAck(s)
         \/ \E kind \in {"raise", "reset"}, mark \in Mark : AskRollback(s, kind, mark)
  PROVE  Kept
<1>1. Advances /\ Only(s)
  BY SessionAdvances DEF IInv
<1>2. SessionOK(s)'
  BY AttestOK, AskOK, AcceptOK, AskRollbackOK, AcceptAckOK DEF IInv
<1>3. SessionInv'
  <2>1. ASSUME NEW t \in Session, t # s
        PROVE  SessionOK(t)'
    BY <1>1, <2>1, SessionStays DEF Only, IInv, SessionInv
  <2>2. QED
    BY <1>1, <1>2, <2>1 DEF Only, IInv, SessionInv
<1>4. CallInv' /\ AnswerInv' /\ AckInv'
  BY <1>1, CallInvStays, AnswerInvStays, AckInvStays DEF Only, IInv
<1>5. WriteInv'
  BY <1>1 DEF Only, IInv, WriteInv
<1>6. OnlyResetsMoveEpochs'
  <2> SUFFICES ASSUME NEW w \in written, w.update.epoch > 0
               PROVE  \E t \in Session : \E m \in session'[t].sent :
                        /\ m.kind = "reset"
                        /\ w.root = session'[t].cluster
                        /\ w.path = KeyPath(config', "node", m.peer)
                        /\ w.update.nodes[m.node].mark = m.mark
    BY <1>1 DEF Only, OnlyResetsMoveEpochs
  <2>1. PICK t \in Session : \E m \in session[t].sent :
          /\ m.kind = "reset"
          /\ w.root = session[t].cluster
          /\ w.path = KeyPath(config, "node", m.peer)
          /\ w.update.nodes[m.node].mark = m.mark
    BY DEF IInv, OnlyResetsMoveEpochs
  <2>2. session[t].sent \subseteq session'[t].sent /\ config' = config
    BY <1>1 DEF Advances, Grows
  <2>3. session[t].stage \notin {"new", "attested"}
    BY <2>1 DEF IInv, SessionInv, SessionOK, Ordered
  <2>4. session'[t].cluster = session[t].cluster
    BY <1>1, <2>3 DEF Advances, Grows
  <2>5. QED
    BY <2>1, <2>2, <2>4
<1>7. QED
  BY <1>3, <1>4, <1>5, <1>6 DEF Kept

LEMMA NextKeeps == IInv /\ [Next]_vars => IInv'
<1> SUFFICES ASSUME IInv, [Next]_vars PROVE IInv'
  OBVIOUS
<1>1. CASE Next
  <2>1. config' = config
    <3>1. ASSUME NEW s \in Session,
                 Attest(s) \/ Ask(s) \/ Accept(s) \/ AcceptAck(s)
          PROVE  config' = config
      BY <3>1 DEF Attest, Ask, Accept, AcceptAck
    <3>2. ASSUME NEW s, NEW kind, NEW mark, AskRollback(s, kind, mark)
          PROVE  config' = config
      BY <3>2 DEF AskRollback
    <3>3. ASSUME NEW q, NEW s, NEW root, NEW m,
                 GetKey(q, s, root) \/ Raise(q, m, root) \/ Reset(q, m, root)
          PROVE  config' = config
      BY <3>3 DEF GetKey, Raise, Reset
    <3>4. ASSUME NEW q, Attested(q) \/ CountersRead(q) \/ ResetRead(q) \/ WriteAcked(q)
                        \/ RefuseCall(q)
          PROVE  config' = config
      BY <3>4 DEF Attested, CountersRead, ResetRead, WriteAcked, RefuseCall
    <3>5. QED
      BY <1>1, <3>1, <3>2, <3>3, <3>4, Zenon DEF Next
  <2>2. Kept
    <3>1. ASSUME NEW s \in Session,
                 Attest(s) \/ Ask(s) \/ Accept(s) \/ AcceptAck(s)
          PROVE  Kept
      BY <3>1, SessionKeeps
    <3>2. ASSUME NEW s \in Session, NEW kind \in {"raise", "reset"}, NEW mark \in Mark,
                 AskRollback(s, kind, mark)
          PROVE  Kept
      BY <3>2, SessionKeeps
    <3>3. ASSUME NEW q \in Call, NEW s \in Session, NEW root \in Cluster, GetKey(q, s, root)
          PROVE  Kept
      BY <3>3, GetKeyKeeps
    <3>4. ASSUME NEW q \in Call, NEW s \in Session, NEW root \in Cluster,
                 NEW m \in session[s].sent, Raise(q, m, root) \/ Reset(q, m, root)
          PROVE  Kept
      BY <3>4, RaiseKeeps, ResetKeeps
    <3>5. ASSUME NEW q \in Call, Attested(q)
          PROVE  Kept
      BY <1>1, <3>5, AttestedKeeps DEF Next
    <3>6. ASSUME NEW q \in Call, CountersRead(q) \/ ResetRead(q) \/ WriteAcked(q)
          PROVE  Kept
      BY <3>6, CountersReadKeeps, ResetReadKeeps, WriteAckedKeeps
    <3>7. ASSUME NEW q \in Call, RefuseCall(q)
          PROVE  Kept
      BY <3>7, RefuseKeeps DEF RefuseCall
    <3>8. QED
      BY <1>1, <3>1, <3>2, <3>3, <3>4, <3>5, <3>6, <3>7, Zenon DEF Next
  <2>3. QED
    BY <2>1, <2>2 DEF Kept, IInv
<1>2. CASE UNCHANGED vars
  <2>1. Advances /\ SessionInv'
    BY <1>2, ServiceAdvances DEF vars, IInv
  <2>2. CallInv' /\ AnswerInv' /\ AckInv'
    BY <1>2, <2>1, CallInvStays, AnswerInvStays, AckInvStays DEF vars, IInv
  <2>3. QED
    BY <1>2, <2>1, <2>2 DEF vars, IInv, WriteInv, OnlyResetsMoveEpochs
<1>3. QED
  BY <1>1, <1>2

LEMMA Invariant == Spec => []IInv
BY InitKeeps, NextKeeps, PTL DEF Spec

\* The released image of a session is the only one its quotes give a key of: no
\* policy the service starts with leaves it to the order of the entries
\* (policy.rs:175-176).
THEOREM OneRolePerQuoteHolds == Spec => []OneRolePerQuote
<1>1. IInv => OneRolePerQuote
  <2> SUFFICES ASSUME IInv PROVE OneRolePerQuote
    OBVIOUS
  <2>1. PICK e \in Env : config = Started(e)
    BY DEF IInv
  <2>2. CASE config = Refused
    BY <2>2 DEF OneRolePerQuote
  <2>3. CASE config # Refused
    BY <2>1, <2>3, EntriesApart
  <2>4. QED
    BY <2>2, <2>3
<1>2. QED
  BY <1>1, Invariant, PTL

\* However prefixes and profiles are spelled, no two roles and peers share a key
\* and none is released the transport key (config/mod.rs:159-166, sealed.rs:34-36).
THEOREM KeysApartHolds == Spec => []KeysApart
<1>1. IInv => KeysApart
  <2> SUFFICES ASSUME IInv PROVE KeysApart
    OBVIOUS
  <2>1. PICK e \in Env : config = Started(e)
    BY DEF IInv
  <2>2. CASE config = Refused
    BY <2>2 DEF KeysApart
  <2>3. CASE config # Refused
    BY <2>1, <2>3, PathsApart
  <2>4. QED
    BY <2>2, <2>3
<1>2. QED
  BY <1>1, Invariant, PTL

\* A transport key a session goes on with is a cluster's: whatever binding a caller
\* has quoted, the quote vouches for no other (handlers/attest.rs:124-133).
THEOREM AttestedAClusterHolds == Spec => []AttestedACluster
<1>1. IInv => AttestedACluster
  BY DEF IInv, SessionInv, SessionOK, Attests, AttestedACluster
<1>2. QED
  BY <1>1, Invariant, PTL

\* A sealed key a session takes is that of its own image and peer, from the cluster
\* it attested, wherever its messages went (sealed.rs:15-22).
THEOREM OwnKeyReleasedHolds == Spec => []OwnKeyReleased
<1>1. IInv => OwnKeyReleased
  <2> SUFFICES ASSUME IInv, NEW s \in Session, session[s].release # None, Mode[s] # "clear"
               PROVE  session[s].release.key =
                        StorageKey(session[s].cluster, KeyPath(config, Image[s], Peer[s]))
    BY DEF OwnKeyReleased
  <2>1. session[s].stage \in {"released", "calling"}
    BY DEF IInv, SessionInv, SessionOK, Ordered, Stages
  <2>2. QED
    BY <2>1 DEF IInv, SessionInv, SessionOK, Releases, ReleaseFrom
<1>2. QED
  BY <1>1, Invariant, PTL

\* Where sealing is required, what leaves is sealed to a TD of the image it is for
\* (policy.rs:7-9, config/mod.rs:80-84).
THEOREM SealedToItsImageHolds == Spec => []SealedToItsImage
<1>1. IInv => SealedToItsImage
  <2> SUFFICES ASSUME IInv, Talking, config.requireSealed, NEW a \in answers
               PROVE  /\ a.domain # "clear"
                      /\ Image[a.sealTo] # NoRole
                      /\ \E root \in Cluster :
                           a.plain.key =
                             StorageKey(root, KeyPath(config, Image[a.sealTo], Peer[a.sealTo]))
    BY DEF SealedToItsImage
  <2>1. PICK s \in Session, root \in Cluster : AnsweredTo(a, s, root)
    BY DEF IInv, AnswerInv
  <2>2. Mode[s] # "clear"
    BY <2>1 DEF AnsweredTo
  <2>3. a.sealTo = s /\ a.domain # "clear" /\ ReleaseFrom(a.plain, s, root)
    BY <2>1, <2>2 DEF AnsweredTo
  <2>4. QED
    BY <2>3 DEF ReleaseFrom
<1>2. QED
  BY <1>1, Invariant, PTL

\* A boot is never released a counter below what its cluster had acknowledged to
\* its store before it asked, whichever boot raised it and whatever came late,
\* twice or elsewhere (handlers/rollback.rs:6-8, get_key.rs:179-187).
THEOREM AcknowledgedMarksReadHolds == Spec => []AcknowledgedMarksRead
<1>1. IInv => AcknowledgedMarksRead
  <2> SUFFICES ASSUME IInv, NEW s \in Session,
                      session[s].release # None, Mode[s] = "counted",
                      NEW a \in session[s].since,
                      a.transport = session[s].transport, a.peer = Peer[s], a.node = NodeId[s]
               PROVE  /\ session[s].release.entry.mark # NoEntry
                      /\ EntryLeq(a.entry, session[s].release.entry)
    BY DEF AcknowledgedMarksRead
  <2>1. SessionOK(s)
    BY DEF IInv, SessionInv
  <2>2. session[s].stage \in {"released", "calling"}
    BY <2>1 DEF SessionOK, Ordered, Stages
  <2>3. CountedRelease(session[s].release, s, session[s].cluster)
    BY <2>1, <2>2 DEF SessionOK, Releases, ReleaseFrom
  <2>4. session[s].transport = TransportKey(session[s].cluster)
    BY <2>1, <2>2 DEF SessionOK, Attests
  <2>5. a \in Owed(s, session[s].cluster)
    BY <2>4 DEF Owed
  <2>6. QED
    BY <2>3, <2>5 DEF CountedRelease, Covers
<1>2. QED
  BY <1>1, Invariant, PTL

\* An epoch moves, and an entry with it, only where a session asked its own
\* cluster for a reset (handlers/rollback.rs:8-10).
THEOREM OnlyResetsMoveEpochsHolds == Spec => []OnlyResetsMoveEpochs
<1>1. IInv => OnlyResetsMoveEpochs
  BY DEF IInv
<1>2. QED
  BY <1>1, Invariant, PTL
=============================================================================
