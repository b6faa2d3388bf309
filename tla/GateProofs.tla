----------------------------- MODULE GateProofs -----------------------------
(***************************************************************************)
(* Proofs about the inference gate of module Gate, for every set of        *)
(* clients, configurations and tokens and any number of slots, starts and  *)
(* reboots.                                                                *)
(***************************************************************************)
EXTENDS Gate, FiniteSetTheorems, TLAPS

-----------------------------------------------------------------------------
(* The inductive invariant.                                                *)

\* A process serves what its TD booted with: inference-init runs before it, and a
\* reboot ends it.
ServesItsBoot ==
  process.up => process.config = td.config /\ process.tokens = td.tokens

\* What a slot is held for was hashed by the process that runs, over its own key
\* and configuration, for the client that asked.
QuotesItself ==
  \A c \in Client :
    /\ attest[c].stage # "idle" => process.up
    /\ attest[c].stage \in {"quoting", "answered"} =>
         attest[c].data =
           ReportData(c, Binding(process.key, process.config, attest[c].gpu))
    /\ attest[c].stage = "answered" => attest[c].config = process.config

\* A prompt that is being read came over the running process's key, from a client
\* that pinned it and is listed.
ReadsForPinned ==
  \A c \in Client : prompt[c].stage = "reading" =>
    process.up /\ process.config = Wanted[c] /\ c \in process.tokens

IInv ==
  /\ TypeOK
  /\ ServesItsBoot
  /\ QuotesItself
  /\ ReadsForPinned
  /\ TrustedServesWanted
  /\ PromptsToWanted

-----------------------------------------------------------------------------
(* The queue and the slots.                                                *)

Waits(q, c) == \E i \in DOMAIN q : q[i] = c
Once(q) == \A i, j \in DOMAIN q : q[i] = q[j] => i = j

\* Without a client that waits, the queue is that of the others, in their order.
LEMMA WithoutOne ==
  ASSUME queue \in Seq(Client), Once(queue), NEW c \in Client, Waits(queue, c)
  PROVE  /\ QueueWithout(c) \in Seq(Client)
         /\ Once(QueueWithout(c))
         /\ \A d \in Client : Waits(QueueWithout(c), d) <=> Waits(queue, d) /\ d # c
<1> DEFINE at == CHOOSE i \in DOMAIN queue : queue[i] = c
           n == Len(queue)
           q == QueueWithout(c)
<1>1. n \in Nat /\ DOMAIN queue = 1..n /\ at \in 1..n /\ queue[at] = c
  BY DEF Waits
<1>2. q = [i \in 1..(n - 1) |-> queue[IF i < at THEN i ELSE i + 1]]
  BY DEF QueueWithout
<1> HIDE DEF at, n, q
<1>3. q \in Seq(Client) /\ DOMAIN q = 1..(n - 1)
  <2>1. \A i \in 1..(n - 1) : queue[IF i < at THEN i ELSE i + 1] \in Client
    BY <1>1
  <2>2. n >= 1 /\ n - 1 \in Nat
    BY <1>1
  <2>3. QED
    BY <1>2, <2>1, <2>2
<1>4. \A i \in 1..(n - 1) : q[i] = queue[IF i < at THEN i ELSE i + 1]
  BY <1>2
<1>5. Once(q)
  <2>1. SUFFICES ASSUME NEW i \in 1..(n - 1), NEW j \in 1..(n - 1), q[i] = q[j]
                 PROVE  i = j
    BY <1>3 DEF Once
  <2> DEFINE k == IF i < at THEN i ELSE i + 1
             l == IF j < at THEN j ELSE j + 1
  <2>2. k = l
    <3>1. k \in DOMAIN queue /\ l \in DOMAIN queue /\ queue[k] = queue[l]
      BY <1>1, <1>4, <2>1
    <3>2. QED
      BY <3>1 DEF Once
  <2>3. QED
    BY <1>1, <2>2
<1>6. ASSUME NEW d \in Client
      PROVE  Waits(q, d) <=> Waits(queue, d) /\ d # c
  <2>1. ASSUME Waits(q, d)
        PROVE  Waits(queue, d) /\ d # c
    <3>1. PICK i \in 1..(n - 1) : q[i] = d
      BY <1>3, <2>1 DEF Waits
    <3> DEFINE j == IF i < at THEN i ELSE i + 1
    <3>2. j \in DOMAIN queue /\ j # at /\ queue[j] = d
      BY <1>1, <1>4, <3>1
    <3>3. QED
      BY <1>1, <3>2 DEF Waits, Once
  <2>2. ASSUME Waits(queue, d), d # c
        PROVE  Waits(q, d)
    <3>1. PICK j \in 1..n : queue[j] = d
      BY <1>1, <2>2 DEF Waits
    <3> DEFINE i == IF j < at THEN j ELSE j - 1
    <3>2. j # at
      BY <1>1, <2>2, <3>1
    <3>3. i \in 1..(n - 1) /\ (IF i < at THEN i ELSE i + 1) = j
      BY <1>1, <3>2
    <3>4. q[i] = d
      BY <1>4, <3>1, <3>3
    <3>5. QED
      BY <1>3, <3>3, <3>4 DEF Waits
  <2>3. QED
    BY <2>1, <2>2
<1>7. QED
  BY <1>3, <1>5, <1>6 DEF q

\* The first of the queue leaves it to the others.
LEMMA FirstLeaves ==
  ASSUME queue \in Seq(Client), Once(queue), queue # <<>>
  PROVE  /\ Head(queue) \in Client /\ Waits(queue, Head(queue))
         /\ Tail(queue) \in Seq(Client)
         /\ Once(Tail(queue))
         /\ \A d \in Client : Waits(Tail(queue), d) <=> Waits(queue, d) /\ d # Head(queue)
<1> DEFINE n == Len(queue)
           q == Tail(queue)
<1>1. n \in Nat /\ n >= 1 /\ DOMAIN queue = 1..n /\ Head(queue) = queue[1]
  OBVIOUS
<1>2. q \in Seq(Client) /\ DOMAIN q = 1..(n - 1) /\ \A i \in 1..(n - 1) : q[i] = queue[i + 1]
  OBVIOUS
<1>3. Once(q)
  BY <1>1, <1>2 DEF Once
<1>4. ASSUME NEW d \in Client
      PROVE  Waits(q, d) <=> Waits(queue, d) /\ d # Head(queue)
  <2>1. ASSUME Waits(q, d)
        PROVE  Waits(queue, d) /\ d # Head(queue)
    <3>1. PICK i \in 1..(n - 1) : queue[i + 1] = d
      BY <1>2, <2>1 DEF Waits
    <3>2. i + 1 \in 1..n /\ i + 1 # 1 /\ 1 \in 1..n
      BY <1>1
    <3>3. QED
      BY <1>1, <3>1, <3>2 DEF Waits, Once
  <2>2. ASSUME Waits(queue, d), d # Head(queue)
        PROVE  Waits(q, d)
    <3>1. PICK j \in 1..n : queue[j] = d
      BY <1>1, <2>2 DEF Waits
    <3>2. j # 1
      BY <1>1, <2>2, <3>1
    <3>3. j - 1 \in 1..(n - 1) /\ q[j - 1] = d
      BY <1>1, <1>2, <3>1, <3>2
    <3>4. QED
      BY <1>2, <3>3 DEF Waits
  <2>3. QED
    BY <2>1, <2>2
<1>5. Head(queue) \in Client /\ Waits(queue, Head(queue))
  BY <1>1 DEF Waits
<1>6. QED
  BY <1>2, <1>3, <1>4, <1>5

\* A newcomer is the last of the queue.
LEMMA LastJoins ==
  ASSUME queue \in Seq(Client), Once(queue), NEW c \in Client, ~Waits(queue, c)
  PROVE  /\ Append(queue, c) \in Seq(Client)
         /\ Once(Append(queue, c))
         /\ \A d \in Client : Waits(Append(queue, c), d) <=> Waits(queue, d) \/ d = c
<1> DEFINE n == Len(queue)
           q == Append(queue, c)
<1>1. n \in Nat /\ DOMAIN queue = 1..n
  OBVIOUS
<1>2. /\ q \in Seq(Client) /\ DOMAIN q = 1..(n + 1)
      /\ \A i \in 1..n : q[i] = queue[i]
      /\ q[n + 1] = c
  OBVIOUS
<1> HIDE DEF q, n
<1>3. Once(q)
  <2>1. \A i \in 1..(n + 1) : i \in 1..n \/ i = n + 1
    BY <1>1
  <2>2. \A i \in 1..n : q[i] # c
    BY <1>1, <1>2 DEF Waits
  <2>3. QED
    BY <1>1, <1>2, <2>1, <2>2 DEF Once
<1>4. ASSUME NEW d \in Client
      PROVE  Waits(q, d) <=> Waits(queue, d) \/ d = c
  <2>1. \A i : i \in 1..(n + 1) <=> i \in 1..n \/ i = n + 1
    BY <1>1
  <2>2. QED
    BY <1>1, <1>2, <2>1 DEF Waits
<1>5. QED
  BY <1>2, <1>3, <1>4 DEF q

\* The requests that hold a slot stay within the slots when one leaves.
LEMMA FewerInSlot ==
  ASSUME IsFiniteSet(InSlot), Cardinality(InSlot) <= Slots, NEW S \in SUBSET InSlot
  PROVE  IsFiniteSet(S) /\ Cardinality(S) <= Slots
BY FS_Subset, FS_CardinalityType, SlotsAssumption

\* And when one takes a slot that is free.
LEMMA OneMoreInSlot ==
  ASSUME IsFiniteSet(InSlot), Cardinality(InSlot) < Slots, NEW c
  PROVE  IsFiniteSet(InSlot \cup {c}) /\ Cardinality(InSlot \cup {c}) <= Slots
<1>1. Cardinality(InSlot) \in Nat /\ Slots \in Nat
  BY FS_CardinalityType, SlotsAssumption
<1>2. /\ IsFiniteSet(InSlot \cup {c})
      /\ Cardinality(InSlot \cup {c}) \in {Cardinality(InSlot), Cardinality(InSlot) + 1}
  BY FS_AddElement
<1>3. QED
  BY <1>1, <1>2
\* What a request's new stage means for the slots.
LEMMA SlotsAfter ==
  ASSUME TypeOK, NEW c \in Client, NEW r \in Request, attest' = [attest EXCEPT ![c] = r]
  PROVE  /\ attest' \in [Client -> Request]
         /\ attest'[c] = r /\ \A d \in Client : d # c => attest'[d] = attest[d]
         /\ InSlot' = IF r.stage \in {"collecting", "quoting"} THEN InSlot \cup {c} ELSE InSlot \ {c}
BY DEF TypeOK, InSlot

\* A step of one request keeps the invariant if what it hashed and answers is the
\* running process's, and the queue, the slots and the helpers follow its stage.
LEMMA RequestStep ==
  ASSUME IInv, UNCHANGED <<td, process, started, prompt, given>>,
         trust' \in [Client -> 0..Elsewhere], TrustedServesWanted',
         NEW c \in Client, NEW r \in Request, attest' = [attest EXCEPT ![c] = r],
         r.stage # "idle" => process.up,
         r.stage \in {"quoting", "answered"} =>
           r.data = ReportData(c, Binding(process.key, process.config, r.gpu)),
         r.stage = "answered" => r.config = process.config,
         queue' \in Seq(Client), Once(queue'),
         \A d \in Client :
           Waits(queue', d) <=> IF d = c THEN r.stage = "waiting" ELSE Waits(queue, d),
         r.stage \in {"collecting", "quoting"} => c \in InSlot \/ Cardinality(InSlot) < Slots,
         helpers' = IF r.stage = "collecting" /\ td.helper THEN helpers \cup {c} ELSE helpers \ {c}
  PROVE  IInv'
<1>1. /\ attest' \in [Client -> Request]
      /\ attest'[c] = r /\ \A d \in Client : d # c => attest'[d] = attest[d]
      /\ InSlot' = IF r.stage \in {"collecting", "quoting"} THEN InSlot \cup {c} ELSE InSlot \ {c}
  BY SlotsAfter DEF IInv
<1>2. IsFiniteSet(InSlot') /\ Cardinality(InSlot') <= Slots
  <2>1. IsFiniteSet(InSlot) /\ Cardinality(InSlot) <= Slots
    BY DEF IInv, TypeOK
  <2>2. CASE r.stage \in {"collecting", "quoting"} /\ c \notin InSlot
    BY <1>1, <2>1, <2>2, OneMoreInSlot
  <2>3. CASE r.stage \in {"collecting", "quoting"} /\ c \in InSlot
    <3>1. InSlot' = InSlot
      BY <1>1, <2>3
    <3>2. QED
      BY <2>1, <3>1
  <2>4. CASE r.stage \notin {"collecting", "quoting"}
    <3>1. InSlot' \in SUBSET InSlot
      BY <1>1, <2>4
    <3>2. QED
      BY <2>1, <3>1, FewerInSlot
  <2>5. QED
    BY <2>2, <2>3, <2>4
<1>3. helpers' = {d \in Client : attest'[d].stage = "collecting" /\ td'.helper}
  BY <1>1 DEF IInv, TypeOK
<1>4. \A d \in Client : attest'[d].stage = "waiting" <=> Waits(queue', d)
  BY <1>1 DEF IInv, TypeOK, Waits
<1>5. TypeOK'
  <2>1. /\ td' \in Loads /\ process' \in Process
        /\ started' \in Seq(Process) /\ Len(started') <= MaxStarts
        /\ process'.up => process'.key \in DOMAIN started' /\ process' = started'[process'.key]
        /\ prompt' \in [Client -> [stage : {"idle", "reading"}]]
        /\ given' \subseteq [client : Client, config : Config \cup {NoConfig}, listed : BOOLEAN]
    BY DEF IInv, TypeOK
  <2>2. \A i, j \in DOMAIN queue' : queue'[i] = queue'[j] => i = j
    BY DEF Once
  <2>3. QED
    BY <1>1, <1>2, <1>3, <1>4, <2>1, <2>2 DEF TypeOK, Waits
<1>6. QuotesItself'
  BY <1>1 DEF IInv, QuotesItself
<1>7. ServesItsBoot' /\ ReadsForPinned' /\ PromptsToWanted'
  BY DEF IInv, ServesItsBoot, ReadsForPinned, PromptsToWanted
<1>8. QED
  BY <1>5, <1>6, <1>7 DEF IInv
-----------------------------------------------------------------------------
(* Each step keeps the invariant.                                          *)

\* Every request in the gate, and what the process may put in a quote.
LEMMA Requests ==
  ASSUME IInv, NEW c \in Client
  PROVE  /\ attest[c] \in Request
         /\ attest[c].stage \in {"waiting", "collecting"} =>
              attest[c] = [stage |-> attest[c].stage, over |-> attest[c].over]
         /\ attest[c].stage # "idle" => process.up /\ attest[c].over \in 0..Elsewhere
         /\ Idle \in Request /\ Idle.stage = "idle"
         /\ process.up => /\ process.key \in 1..MaxStarts /\ process = started[process.key]
                          /\ process.config \in Config \cup {NoConfig}
<1>1. attest[c] \in Request
  BY DEF IInv, TypeOK
<1>2. Idle \in Request /\ Idle.stage = "idle"
  BY DEF Request, Idle
<1>3. attest[c].stage \in {"waiting", "collecting"} =>
        attest[c] = [stage |-> attest[c].stage, over |-> attest[c].over]
  BY <1>1 DEF Request, Idle
<1>4. attest[c].stage # "idle" => process.up /\ attest[c].over \in 0..Elsewhere
  BY <1>1 DEF IInv, QuotesItself, Request, Idle
<1>5. process.up => /\ process.key \in 1..MaxStarts /\ process = started[process.key]
                   /\ process.config \in Config \cup {NoConfig}
  <2>1. DOMAIN started = 1..Len(started) /\ Len(started) \in Nat /\ Len(started) <= MaxStarts
    BY DEF IInv, TypeOK
  <2>2. QED
    BY <2>1, SlotsAssumption DEF IInv, TypeOK, Process
<1>6. QED
  BY <1>1, <1>2, <1>3, <1>4, <1>5

LEMMA AskStep ==
  ASSUME IInv, NEW c \in Client, Ask(c)
  PROVE  IInv'
<1>1. PICK key \in {process.key, Elsewhere} :
        attest' = [attest EXCEPT ![c] = [stage |-> "waiting", over |-> key]]
  BY DEF Ask
<1> DEFINE r == [stage |-> "waiting", over |-> key]
<1>2. r \in Request /\ r.stage = "waiting" /\ process.up
  <2>1. process.up /\ process.key \in 1..MaxStarts
    BY Requests DEF Ask
  <2>2. key \in 0..Elsewhere
    BY <1>1, <2>1, SlotsAssumption DEF Elsewhere
  <2>3. QED
    BY <2>1, <2>2 DEF Request
<1>3. queue \in Seq(Client) /\ Once(queue) /\ ~Waits(queue, c)
  <2>1. queue \in Seq(Client) /\ Once(queue)
    BY DEF IInv, TypeOK, Once
  <2>2. attest[c].stage = "waiting" <=> Waits(queue, c)
    BY DEF IInv, TypeOK, Waits
  <2>3. attest[c].stage = "idle"
    BY DEF Ask, Idle
  <2>4. QED
    BY <2>1, <2>2, <2>3
<1>4. /\ queue' \in Seq(Client) /\ Once(queue')
      /\ \A d \in Client : Waits(queue', d) <=> IF d = c THEN TRUE ELSE Waits(queue, d)
  BY <1>3, LastJoins DEF Ask
<1>5. helpers' = helpers \ {c} /\ UNCHANGED <<td, process, started, prompt, given>>
  BY DEF Ask, IInv, TypeOK, Idle
<1>6. trust' \in [Client -> 0..Elsewhere] /\ TrustedServesWanted'
  BY DEF Ask, IInv, TypeOK, TrustedServesWanted
<1>7. attest' = [attest EXCEPT ![c] = r]
  BY <1>1
<1> HIDE DEF r
<1>8. QED
  BY <1>2, <1>4, <1>5, <1>6, <1>7, RequestStep

LEMMA AcquireStep ==
  ASSUME IInv, NEW c \in Client, Acquire(c)
  PROVE  IInv'
<1> DEFINE r == [stage |-> "collecting", over |-> attest[c].over]
<1>1. queue \in Seq(Client) /\ Once(queue) /\ queue # <<>> /\ Head(queue) = c
  BY DEF Acquire, IInv, TypeOK, Once
<1>2. /\ Waits(queue, c)
      /\ queue' \in Seq(Client) /\ Once(queue')
      /\ \A d \in Client : Waits(queue', d) <=> IF d = c THEN FALSE ELSE Waits(queue, d)
  BY <1>1, FirstLeaves DEF Acquire
<1>3. attest[c].stage = "waiting"
  BY <1>2 DEF IInv, TypeOK, Waits
<1>4. r \in Request /\ r.stage = "collecting" /\ process.up
  BY <1>3, Requests DEF Request
<1>5. attest' = [attest EXCEPT ![c] = r]
  <2>1. attest' = [attest EXCEPT ![c] = [attest[c] EXCEPT !.stage = "collecting"]]
    BY DEF Acquire, IInv, TypeOK
  <2>2. attest[c] = [stage |-> "waiting", over |-> attest[c].over]
    BY <1>3, Requests
  <2>3. [attest[c] EXCEPT !.stage = "collecting"] = r
    BY <2>2
  <2>4. QED
    BY <2>1, <2>3
<1>6. trust' \in [Client -> 0..Elsewhere] /\ TrustedServesWanted'
  BY DEF Acquire, IInv, TypeOK, TrustedServesWanted
<1>7. helpers' = IF r.stage = "collecting" /\ td.helper THEN helpers \cup {c} ELSE helpers \ {c}
  <2>1. ~td.helper => helpers = {}
    BY DEF IInv, TypeOK
  <2>2. QED
    BY <1>4, <2>1 DEF Acquire
<1> HIDE DEF r
<1>8. QED
  BY <1>2, <1>4, <1>5, <1>6, <1>7, RequestStep DEF Acquire

LEMMA CollectedStep ==
  ASSUME IInv, NEW c \in Client, Collected(c)
  PROVE  IInv'
<1>1. PICK printed \in Printed(c) :
        LET evidence == IF td.helper /\ Collects(c, printed) THEN printed ELSE NoEvidence
            data == ReportData(c, Binding(process.key, process.config, evidence)) IN
        attest' = [attest EXCEPT ![c] =
          IF evidence = NoEvidence /\ td.helper /\ process.config # NoConfig
          THEN Idle
          ELSE [stage |-> "quoting", over |-> @.over, gpu |-> evidence, data |-> data]]
  BY DEF Collected
<1> DEFINE evidence == IF td.helper /\ Collects(c, printed) THEN printed ELSE NoEvidence
           data == ReportData(c, Binding(process.key, process.config, evidence))
           quoting == [stage |-> "quoting", over |-> attest[c].over, gpu |-> evidence, data |-> data]
           r == IF evidence = NoEvidence /\ td.helper /\ process.config # NoConfig THEN Idle ELSE quoting
<1>2. attest[c].stage = "collecting" /\ process.up /\ c \in InSlot
  BY Requests DEF Collected, InSlot
<1>3. attest' = [attest EXCEPT ![c] = r]
  BY <1>1 DEF IInv, TypeOK
<1>4. evidence \in Evidence /\ data \in Data
  <2>1. evidence \in Printed(c)
    BY DEF Printed
  <2>2. evidence \in Evidence
    BY <2>1 DEF Evidence
  <2>3. process.key \in 1..MaxStarts /\ process.config \in Config \cup {NoConfig}
    BY <1>2, Requests
  <2> HIDE DEF evidence
  <2>4. QED
    BY <2>2, <2>3 DEF Data
<1>5. quoting \in Request
  BY <1>2, <1>4, Requests DEF Request
<1>6. /\ r \in Request /\ r.stage \in {"idle", "quoting"}
      /\ r.stage = "quoting" => r.data = ReportData(c, Binding(process.key, process.config, r.gpu))
  BY <1>5, Requests
<1>7. /\ queue' = queue /\ queue' \in Seq(Client) /\ Once(queue') /\ ~Waits(queue, c)
      /\ helpers' = helpers \ {c}
  BY <1>2 DEF Collected, IInv, TypeOK, Once, Waits
<1>8. trust' \in [Client -> 0..Elsewhere] /\ TrustedServesWanted'
  BY DEF Collected, IInv, TypeOK, TrustedServesWanted
<1> HIDE DEF r, quoting, data, evidence
<1>9. UNCHANGED <<td, process, started, prompt, given>>
  BY DEF Collected
<1>10. \A d \in Client :
         Waits(queue', d) <=> IF d = c THEN r.stage = "waiting" ELSE Waits(queue, d)
  BY <1>6, <1>7
<1>11. QED
  BY <1>2, <1>3, <1>6, <1>7, <1>8, <1>9, <1>10, RequestStep

LEMMA QuotedStep ==
  ASSUME IInv, NEW c \in Client, Quoted(c)
  PROVE  IInv'
<1> DEFINE answer == [stage |-> "answered", over |-> attest[c].over, data |-> attest[c].data,
                      rtmr3 |-> td.rtmr3, config |-> process.config, gpu |-> attest[c].gpu]
<1>1. attest[c].stage = "quoting" /\ process.up
  BY Requests DEF Quoted
<1>2. PICK r \in {Idle, answer} : attest' = [attest EXCEPT ![c] = r]
  BY DEF Quoted, IInv, TypeOK
<1>3. attest[c].data \in Data /\ attest[c].gpu \in Evidence /\ attest[c].over \in 0..Elsewhere
  BY <1>1, Requests DEF Request, Idle
<1>4. answer \in Request
  <2>1. td.rtmr3 \in {l.rtmr3 : l \in Loads}
    BY DEF IInv, TypeOK
  <2>2. QED
    BY <1>1, <1>3, <2>1, Requests DEF Request
<1>5. attest[c].data = ReportData(c, Binding(process.key, process.config, attest[c].gpu))
  BY <1>1 DEF IInv, QuotesItself
<1>6. /\ r \in Request /\ r.stage \in {"idle", "answered"}
      /\ r.stage = "answered" =>
           /\ r.data = ReportData(c, Binding(process.key, process.config, r.gpu))
           /\ r.config = process.config
  <2>1. CASE r = Idle
    BY <2>1, Requests
  <2>2. CASE r = answer
    <3>1. answer.stage = "answered" /\ answer.data = attest[c].data
      OBVIOUS
    <3>2. answer.gpu = attest[c].gpu /\ answer.config = process.config
      OBVIOUS
    <3>3. QED
      BY <1>4, <1>5, <2>2, <3>1, <3>2
  <2>3. QED
    BY <1>2, <2>1, <2>2
<1>7. /\ queue' = queue /\ queue' \in Seq(Client) /\ Once(queue') /\ ~Waits(queue, c)
      /\ c \notin helpers /\ helpers' = helpers
  BY <1>1 DEF Quoted, IInv, TypeOK, Once, Waits
<1>8. trust' \in [Client -> 0..Elsewhere] /\ TrustedServesWanted'
  BY DEF Quoted, IInv, TypeOK, TrustedServesWanted
<1>9. UNCHANGED <<td, process, started, prompt, given>>
  BY DEF Quoted
<1>10. /\ \A d \in Client :
            Waits(queue', d) <=> IF d = c THEN r.stage = "waiting" ELSE Waits(queue, d)
       /\ helpers' = helpers \ {c}
  BY <1>6, <1>7
<1> HIDE DEF answer
<1>11. QED
  BY <1>1, <1>2, <1>6, <1>7, <1>8, <1>9, <1>10, RequestStep

LEMMA DisconnectStep ==
  ASSUME IInv, NEW c \in Client, Disconnect(c)
  PROVE  IInv'
<1>1. queue \in Seq(Client) /\ Once(queue)
  BY DEF IInv, TypeOK, Once
<1>2. Waits(queue, c) <=> attest[c].stage = "waiting"
  BY DEF IInv, TypeOK, Waits
<1>3. /\ queue' \in Seq(Client) /\ Once(queue')
      /\ \A d \in Client : Waits(queue', d) <=> IF d = c THEN FALSE ELSE Waits(queue, d)
  <2>1. CASE attest[c].stage = "waiting"
    BY <1>1, <1>2, <2>1, WithoutOne DEF Disconnect
  <2>2. CASE attest[c].stage # "waiting"
    BY <1>1, <1>2, <2>2 DEF Disconnect
  <2>3. QED
    BY <2>1, <2>2
<1>4. trust' \in [Client -> 0..Elsewhere] /\ TrustedServesWanted'
  BY DEF Disconnect, IInv, TypeOK, TrustedServesWanted
<1>5. /\ attest' = [attest EXCEPT ![c] = Idle]
      /\ helpers' = helpers \ {c}
      /\ UNCHANGED <<td, process, started, prompt, given>>
  BY DEF Disconnect
<1>6. Idle \in Request /\ Idle.stage = "idle"
  BY Requests
<1>7. QED
  BY <1>3, <1>4, <1>5, <1>6, RequestStep

LEMMA VerifyStep ==
  ASSUME IInv, NEW c \in Client, Verify(c)
  PROVE  IInv'
<1>1. attest[c].stage = "answered" /\ process.up
  BY Requests DEF Verify
<1>2. ASSUME Verifies(c, attest[c])
      PROVE  attest[c].over = process.key /\ started[process.key].config = Wanted[c]
  <2>1. /\ attest[c].data = ReportData(c, Binding(process.key, process.config, attest[c].gpu))
        /\ attest[c].config = process.config
    BY <1>1 DEF IInv, QuotesItself
  <2>2. Binding(attest[c].over, attest[c].config, attest[c].gpu) =
          Binding(process.key, process.config, attest[c].gpu)
    BY <1>2, <2>1 DEF Verifies, ReportData
  <2>3. attest[c].over = process.key
    BY <2>2 DEF Binding
  <2>4. QED
    BY <1>1, <1>2, <2>1, <2>3, Requests DEF Verifies
<1>3. trust' \in [Client -> 0..Elsewhere]
  BY <1>1, Requests DEF Verify, IInv, TypeOK
<1>4. TrustedServesWanted'
  <2>1. process.key \in DOMAIN started
    BY <1>1 DEF IInv, TypeOK
  <2>2. ASSUME NEW d \in Client, trust'[d] # Nobody
        PROVE  trust'[d] \in DOMAIN started /\ started[trust'[d]].config = Wanted[d]
    <3>1. CASE d = c /\ Verifies(c, attest[c])
      BY <1>2, <2>1, <3>1 DEF Verify, IInv, TypeOK
    <3>2. CASE ~(d = c /\ Verifies(c, attest[c]))
      <4>1. trust'[d] = trust[d]
        BY <3>2 DEF Verify, IInv, TypeOK
      <4>2. QED
        BY <2>2, <4>1 DEF IInv, TrustedServesWanted
    <3>3. QED
      BY <3>1, <3>2
  <2>3. QED
    BY <2>2 DEF TrustedServesWanted, Verify
<1>5. /\ attest' = [attest EXCEPT ![c] = Idle]
      /\ UNCHANGED <<td, process, started, queue, helpers, prompt, given>>
  BY DEF Verify
<1>6. queue \in Seq(Client) /\ Once(queue) /\ ~Waits(queue, c) /\ c \notin helpers
  BY <1>1 DEF IInv, TypeOK, Once, Waits
<1>7. Idle \in Request /\ Idle.stage = "idle"
  BY Requests
<1>8. /\ queue' \in Seq(Client) /\ Once(queue') /\ helpers' = helpers \ {c}
      /\ \A d \in Client : Waits(queue', d) <=> IF d = c THEN FALSE ELSE Waits(queue, d)
  BY <1>5, <1>6
<1>9. QED
  BY <1>3, <1>4, <1>5, <1>7, <1>8, RequestStep
LEMMA PromptStep ==
  ASSUME IInv, NEW c \in Client, Prompt(c) \/ PromptRefused(c) \/ PromptGiven(c)
  PROVE  IInv'
<1>1. /\ UNCHANGED <<td, process, started, queue, attest, helpers, trust>>
      /\ \A d \in Client : d # c => prompt'[d] = prompt[d]
      /\ prompt' \in [Client -> [stage : {"idle", "reading"}]]
  <2>1. PICK r \in [stage : {"idle", "reading"}] : prompt' = [prompt EXCEPT ![c] = r]
    <3>1. Idle \in [stage : {"idle", "reading"}] /\ [stage |-> "reading"] \in [stage : {"idle", "reading"}]
      BY DEF Idle
    <3>2. prompt' = [prompt EXCEPT ![c] = Idle] \/ prompt' = [prompt EXCEPT ![c] = [stage |-> "reading"]]
      BY DEF Prompt, PromptRefused, PromptGiven
    <3>3. QED
      BY <3>1, <3>2
  <2>2. prompt \in [Client -> [stage : {"idle", "reading"}]]
    BY DEF IInv, TypeOK
  <2>3. QED
    BY <2>1, <2>2 DEF Prompt, PromptRefused, PromptGiven
<1>2. ReadsForPinned'
  <2>1. CASE Prompt(c)
    <3>1. process.config = Wanted[c]
      <4>1. process.key \in DOMAIN started /\ process = started[process.key]
        BY <2>1 DEF Prompt, IInv, TypeOK
      <4>2. trust[c] = process.key /\ trust[c] # Nobody
        BY <2>1, <4>1 DEF Prompt, Nobody, IInv, TypeOK
      <4>3. QED
        BY <4>1, <4>2 DEF IInv, TrustedServesWanted
    <3>2. QED
      BY <1>1, <2>1, <3>1 DEF Prompt, Allows, IInv, ReadsForPinned
  <2>2. CASE PromptRefused(c) \/ PromptGiven(c)
    <3>1. prompt'[c].stage = "idle"
      BY <2>2 DEF PromptRefused, PromptGiven, IInv, TypeOK, Idle
    <3>2. QED
      BY <1>1, <3>1 DEF IInv, ReadsForPinned
  <2>3. QED
    BY <2>1, <2>2
<1>3. /\ given' \subseteq [client : Client, config : Config \cup {NoConfig}, listed : BOOLEAN]
      /\ PromptsToWanted'
  <2>1. CASE PromptGiven(c)
    <3>1. td.config = Wanted[c] /\ c \in td.tokens
      BY <2>1 DEF PromptGiven, IInv, ReadsForPinned, ServesItsBoot
    <3>2. Wanted[c] \in Config \cup {NoConfig}
      BY WantedAssumption
    <3> DEFINE g == [client |-> c, config |-> td.config, listed |-> c \in td.tokens]
    <3>3. given' = given \cup {g}
      BY <2>1 DEF PromptGiven
    <3>4. /\ g \in [client : Client, config : Config \cup {NoConfig}, listed : BOOLEAN]
          /\ g.config = Wanted[g.client] /\ g.listed
      BY <3>1, <3>2
    <3> HIDE DEF g
    <3>5. PromptsToWanted'
      BY <3>3, <3>4 DEF IInv, PromptsToWanted
    <3>6. QED
      BY <3>3, <3>4, <3>5 DEF IInv, TypeOK
  <2>2. CASE ~PromptGiven(c)
    <3>1. given' = given
      BY <2>2 DEF Prompt, PromptRefused
    <3>2. QED
      BY <3>1 DEF IInv, TypeOK, PromptsToWanted
  <2>3. QED
    BY <2>1, <2>2
<1>4. InSlot' = InSlot
  BY <1>1 DEF InSlot
<1>5. TypeOK'
  BY <1>1, <1>3, <1>4 DEF IInv, TypeOK
<1>6. ServesItsBoot' /\ QuotesItself' /\ TrustedServesWanted'
  BY <1>1 DEF IInv, ServesItsBoot, QuotesItself, TrustedServesWanted
<1>7. QED
  BY <1>2, <1>3, <1>5, <1>6 DEF IInv

LEMMA StartStep ==
  ASSUME IInv, Start
  PROVE  IInv'
<1> DEFINE new == [up |-> TRUE, key |-> FreshKey, config |-> td.config, tokens |-> td.tokens]
           n == Len(started)
<1>1. n \in Nat /\ n < MaxStarts /\ DOMAIN started = 1..n /\ FreshKey = n + 1
  BY DEF Start, IInv, TypeOK, FreshKey
<1>2. new \in Process
  <2>1. td.config \in Config \cup {NoConfig} /\ td.tokens \in SUBSET Client
    BY TokensAssumption DEF IInv, TypeOK, Loads, Loaded
  <2>2. QED
    BY <1>1, <2>1 DEF Process
<1>3. process' = new /\ started' = Append(started, new)
  BY DEF Start
<1>4. UNCHANGED <<td, queue, attest, helpers, trust, prompt, given>>
  BY DEF Start
<1> HIDE DEF new
<1>5. /\ started' \in Seq(Process) /\ Len(started') = n + 1 /\ DOMAIN started' = 1..(n + 1)
      /\ \A i \in 1..n : started'[i] = started[i]
      /\ started'[n + 1] = new
  BY <1>1, <1>2, <1>3 DEF IInv, TypeOK
<1>6. new.key = n + 1 /\ new.up /\ new.config = td.config /\ new.tokens = td.tokens
  BY <1>1 DEF new
<1>7. TypeOK'
  <2>1. InSlot' = InSlot
    BY <1>4 DEF InSlot
  <2>2. /\ process' \in Process /\ Len(started') <= MaxStarts
        /\ process'.key \in DOMAIN started' /\ process' = started'[process'.key]
    BY <1>1, <1>2, <1>3, <1>5, <1>6, SlotsAssumption
  <2>3. QED
    BY <1>4, <1>5, <2>1, <2>2 DEF IInv, TypeOK
<1>8. \A c \in Client : attest[c].stage = "idle" /\ prompt[c].stage # "reading"
  BY DEF Start, IInv, QuotesItself, ReadsForPinned
<1>9. ServesItsBoot' /\ QuotesItself' /\ ReadsForPinned'
  BY <1>3, <1>4, <1>6, <1>8 DEF ServesItsBoot, QuotesItself, ReadsForPinned
<1>10. TrustedServesWanted' /\ PromptsToWanted'
  <2>1. \A i \in DOMAIN started : i \in DOMAIN started' /\ started'[i] = started[i]
    BY <1>1, <1>5
  <2>2. QED
    BY <1>4, <2>1 DEF IInv, TrustedServesWanted, PromptsToWanted
<1>11. QED
  BY <1>7, <1>9, <1>10 DEF IInv

\* Whatever the TD loads next, nothing is left of what the process was doing.
LEMMA StoppedStep ==
  ASSUME IInv, Stopped, td' \in Loads, UNCHANGED <<started, trust, given>>
  PROVE  IInv'
<1>1. /\ process' = Down /\ queue' = <<>> /\ attest' = [c \in Client |-> Idle]
      /\ helpers' = {} /\ prompt' = [c \in Client |-> Idle]
  BY DEF Stopped
<1>2. InSlot' = {} /\ IsFiniteSet(InSlot') /\ Cardinality(InSlot') <= Slots
  <2>1. InSlot' = {}
    BY <1>1 DEF InSlot, Idle
  <2>2. QED
    BY <2>1, FS_EmptySet, SlotsAssumption
<1>3. Down \in Process /\ ~Down.up
  BY DEF Down, Process, Nobody
<1>4. TypeOK'
  <2>1. attest' \in [Client -> Request] /\ prompt' \in [Client -> [stage : {"idle", "reading"}]]
    BY <1>1 DEF Request, Idle
  <2>2. queue' \in Seq(Client) /\ DOMAIN queue' = {}
    BY <1>1
  <2>3. \A c \in Client : attest'[c].stage = "idle"
    BY <1>1 DEF Idle
  <2>4. /\ started' \in Seq(Process) /\ Len(started') <= MaxStarts
        /\ trust' \in [Client -> 0..Elsewhere]
        /\ given' \subseteq [client : Client, config : Config \cup {NoConfig}, listed : BOOLEAN]
    BY DEF IInv, TypeOK
  <2>5. QED
    BY <1>1, <1>2, <1>3, <2>1, <2>2, <2>3, <2>4 DEF TypeOK
<1>5. ServesItsBoot' /\ QuotesItself' /\ ReadsForPinned'
  BY <1>1, <1>3 DEF ServesItsBoot, QuotesItself, ReadsForPinned, Idle
<1>6. TrustedServesWanted' /\ PromptsToWanted'
  BY DEF IInv, TrustedServesWanted, PromptsToWanted
<1>7. QED
  BY <1>4, <1>5, <1>6 DEF IInv

-----------------------------------------------------------------------------
(* The theorems.                                                           *)

LEMMA InitInv == Init => IInv
<1> SUFFICES ASSUME Init
             PROVE  IInv
  OBVIOUS
<1>1. InSlot = {} /\ IsFiniteSet(InSlot) /\ Cardinality(InSlot) <= Slots
  <2>1. InSlot = {}
    BY DEF Init, InSlot, Idle
  <2>2. QED
    BY <2>1, FS_EmptySet, SlotsAssumption
<1>2. /\ Down \in Process /\ ~Down.up
      /\ started \in Seq(Process) /\ Len(started) = 0
      /\ queue \in Seq(Client) /\ DOMAIN queue = {}
  BY DEF Init, Down, Process, Nobody
<1>3. /\ attest \in [Client -> Request] /\ prompt \in [Client -> [stage : {"idle", "reading"}]]
      /\ \A c \in Client : attest[c].stage = "idle" /\ prompt[c].stage = "idle"
      /\ trust \in [Client -> 0..Elsewhere]
  BY SlotsAssumption DEF Init, Request, Idle, Nobody, Elsewhere
<1>4. TypeOK
  BY <1>1, <1>2, <1>3, SlotsAssumption DEF Init, TypeOK
<1>5. QED
  BY <1>2, <1>3, <1>4
  DEF Init, IInv, ServesItsBoot, QuotesItself, ReadsForPinned, TrustedServesWanted, PromptsToWanted

LEMMA StepInv == IInv /\ [Next]_vars => IInv'
<1> SUFFICES ASSUME IInv, [Next]_vars
             PROVE  IInv'
  OBVIOUS
<1>1. CASE Start
  BY <1>1, StartStep
<1>2. CASE Stop
  <2>1. td' \in Loads
    BY <1>2 DEF Stop, IInv, TypeOK
  <2>2. QED
    BY <1>2, <2>1, StoppedStep DEF Stop
<1>3. CASE Reboot
  BY <1>3, StoppedStep DEF Reboot
<1>4. ASSUME NEW c \in Client,
             \/ Ask(c) \/ Acquire(c) \/ Collected(c) \/ Quoted(c) \/ Disconnect(c) \/ Verify(c)
             \/ Prompt(c) \/ PromptRefused(c) \/ PromptGiven(c)
      PROVE  IInv'
  BY <1>4, AskStep, AcquireStep, CollectedStep, QuotedStep, DisconnectStep, VerifyStep, PromptStep
<1>5. CASE UNCHANGED vars
  <2>1. InSlot' = InSlot
    BY <1>5 DEF vars, InSlot
  <2>2. QED
    BY <1>5, <2>1
    DEF vars, IInv, TypeOK, ServesItsBoot, QuotesItself, ReadsForPinned, TrustedServesWanted,
        PromptsToWanted
<1>6. QED
  BY <1>1, <1>2, <1>3, <1>4, <1>5 DEF Next

LEMMA InvHolds == Spec => []IInv
BY InitInv, StepInv, PTL DEF Spec

\* Every reachable state of the gate is well typed: the queue has each request that
\* waits, once, and no more requests hold a slot than there are (server.rs:173-205).
THEOREM TypeCorrect == Spec => []TypeOK
<1>1. IInv => TypeOK
  BY DEF IInv
<1>2. QED
  BY InvHolds, <1>1, PTL

\* A key a client pins is a gate's that serves the configuration it asked for, for
\* any number of restarts and reboots (attest.rs:3-12, tls.rs).
THEOREM TrustedKeysServeWanted == Spec => []TrustedServesWanted
<1>1. IInv => TrustedServesWanted
  BY DEF IInv
<1>2. QED
  BY InvHolds, <1>1, PTL

\* Prompts reach only the model their client asked for, from clients the operator
\* of that boot lists (private-inference.md, tls.rs).
THEOREM PromptsReachWanted == Spec => []PromptsToWanted
<1>1. IInv => PromptsToWanted
  BY DEF IInv
<1>2. QED
  BY InvHolds, <1>1, PTL

\* At most Slots helpers run, however requests come and go (server.rs:27-28).
THEOREM HelpersStayBounded == Spec => []HelpersBounded
<1>1. IInv => HelpersBounded
  <2>1. SUFFICES ASSUME IInv
                 PROVE  Cardinality(helpers) <= Slots
    BY DEF HelpersBounded
  <2>2. helpers \in SUBSET InSlot /\ IsFiniteSet(InSlot) /\ Cardinality(InSlot) <= Slots
    BY <2>1 DEF IInv, TypeOK, InSlot
  <2>3. QED
    BY <2>2, FewerInSlot
<1>2. QED
  BY InvHolds, <1>1, PTL
=============================================================================
