-------------------------------- MODULE Gate --------------------------------
(***************************************************************************)
(* mero-inference-gate in front of vLLM (mero-inference-gate/src): /attest *)
(* and the proxy of /v1/*, the restarts of the process and the reboots of  *)
(* its TD, with the clients of docs/design/private-inference.md.           *)
(*                                                                         *)
(* A key is the number of the process that made it.  A client's nonce is   *)
(* its own and fresh in each request.  A measurement that a client goes on *)
(* to check (the image, the quote's signature, NVIDIA's verdict) holds.    *)
(***************************************************************************)
EXTENDS Naturals, FiniteSets, Sequences

CONSTANTS
  Client,
  Config,        \* model configurations
  NoConfig,      \* the measurement VM's: it loads no model
  Wanted,        \* the configuration each client asked for
  Tokens,        \* the sets of clients whose tokens an operator may list
  Slots,         \* ATTEST_CONCURRENCY
  MaxStarts      \* bound on the starts of the process

ASSUME NoConfigAssumption == NoConfig \notin Config
ASSUME SlotsAssumption == Slots \in Nat \ {0} /\ MaxStarts \in Nat
ASSUME WantedAssumption == Wanted \in [Client -> Config]
ASSUME TokensAssumption == Tokens \subseteq SUBSET Client

VARIABLES
  td,        \* what the TD loaded at boot: configuration, RTMR3, tokens and
             \* whether the gate is given an evidence helper (GATE_GPU_EVIDENCE)
  process,   \* the gate: whether it is up, its key and what it read at start
  started,   \* history: what each process read
  queue,     \* clients waiting for an attest slot, first come first
  attest,    \* the /attest request of each client
  helpers,   \* clients whose evidence helper is running
  trust,     \* the key each client verified and pins
  prompt,    \* the /v1 request of each client
  given      \* prompts vLLM was given, and the configuration it serves

vars == <<td, process, started, queue, attest, helpers, trust, prompt, given>>

Nobody == 0                  \* no key trusted
Elsewhere == MaxStarts + 1   \* a key of no gate, where a client's TLS may end

-----------------------------------------------------------------------------
(* attest.rs: what a quote commits to.                                     *)

\* RTMR3 after the image's event and, with a model, its configuration's.
ExpectedRtmr3(config) == IF config = NoConfig THEN <<"image">> ELSE <<"image", config>>

\* Mutant: the TLS key is left out.
BindingWithoutKey(key, config, gpu) == <<"attest/v1", config, gpu>>

Binding(key, config, gpu) == <<"attest/v1", key, config, gpu>>

ReportData(c, binding) == <<c, binding>>

-----------------------------------------------------------------------------
(* gpu.rs: what the helper may print for client c's nonce, and what collect *)
(* takes of it.  A helper that cannot run, fails, outlasts HELPER_TIMEOUT   *)
(* or prints anything else gives none.                                      *)

NoEvidence == [nonce |-> "none", gpus |-> 0]

Printed(c) == [nonce : {c, "another nonce"}, gpus : {0, 1}] \cup {NoEvidence}

Collects(c, evidence) == evidence.nonce = c /\ evidence.gpus > 0

-----------------------------------------------------------------------------
Idle == [stage |-> "idle"]
InFlight == {"waiting", "collecting", "quoting"}

InSlot == {c \in Client : attest[c].stage \in {"collecting", "quoting"}}

Down == [up |-> FALSE, key |-> Nobody, config |-> NoConfig, tokens |-> {}]

Loaded(config, tokens, helper) ==
  [config |-> config, rtmr3 |-> ExpectedRtmr3(config), tokens |-> tokens, helper |-> helper]

Loads ==
  {Loaded(config, tokens, helper) : config \in Config, tokens \in Tokens, helper \in BOOLEAN}
  \cup {Loaded(NoConfig, {}, helper) : helper \in BOOLEAN}

Process == [up : BOOLEAN, key : Nat, config : Config \cup {NoConfig}, tokens : SUBSET Client]

Evidence == UNION {Printed(c) : c \in Client}

Data ==
  {ReportData(c, Binding(key, config, gpu)) :
     c \in Client, key \in 1..MaxStarts, config \in Config \cup {NoConfig}, gpu \in Evidence}

Request ==
  {Idle} \cup [stage : {"waiting", "collecting"}, over : 0..Elsewhere]
  \cup [stage : {"quoting"}, over : 0..Elsewhere, gpu : Evidence, data : Data]
  \cup [stage : {"answered"}, over : 0..Elsewhere, data : Data, gpu : Evidence,
        rtmr3 : {l.rtmr3 : l \in Loads}, config : Config \cup {NoConfig}]

\* Each request that waits is in the queue, once.
TypeOK ==
  /\ td \in Loads
  /\ process \in Process
  /\ started \in Seq(Process) /\ Len(started) <= MaxStarts
  /\ process.up => process.key \in DOMAIN started /\ process = started[process.key]
  /\ queue \in Seq(Client)
  /\ attest \in [Client -> Request]
  /\ \A c \in Client : attest[c].stage = "waiting" <=> \E i \in DOMAIN queue : queue[i] = c
  /\ \A i, j \in DOMAIN queue : queue[i] = queue[j] => i = j
  /\ IsFiniteSet(InSlot) /\ Cardinality(InSlot) <= Slots
  /\ helpers = {c \in Client : attest[c].stage = "collecting" /\ td.helper}
  /\ trust \in [Client -> 0..Elsewhere]
  /\ prompt \in [Client -> [stage : {"idle", "reading"}]]
  /\ given \subseteq [client : Client, config : Config \cup {NoConfig}, listed : BOOLEAN]

Init ==
  /\ td \in Loads
  /\ process = Down
  /\ started = <<>>
  /\ queue = <<>>
  /\ attest = [c \in Client |-> Idle]
  /\ helpers = {}
  /\ trust = [c \in Client |-> Nobody]
  /\ prompt = [c \in Client |-> Idle]
  /\ given = {}

-----------------------------------------------------------------------------
(* The TD and the process.                                                 *)

\* Mutant: the key outlives the process.
KeptKey == 1

\* TlsIdentity::generate: every start has its own key.
FreshKey == Len(started) + 1

\* main: it reads the files inference-init left, once.
Start ==
  /\ ~process.up
  /\ Len(started) < MaxStarts
  /\ process' = [up |-> TRUE, key |-> FreshKey, config |-> td.config, tokens |-> td.tokens]
  /\ started' = Append(started, process')
  /\ UNCHANGED <<td, queue, attest, helpers, trust, prompt, given>>

\* Every request it was serving is gone, and its helpers with it.
Stopped ==
  /\ process' = Down
  /\ queue' = <<>>
  /\ attest' = [c \in Client |-> Idle]
  /\ helpers' = {}
  /\ prompt' = [c \in Client |-> Idle]

Stop ==
  /\ process.up
  /\ Stopped
  /\ UNCHANGED <<td, started, trust, given>>

\* inference-init extends RTMR3 with the configuration it loads, before the gate.
Reboot ==
  /\ Stopped
  /\ td' \in Loads
  /\ UNCHANGED <<started, trust, given>>

-----------------------------------------------------------------------------
(* /attest.                                                                *)

\* A client whose TLS ends in the gate, or somewhere that passes it on.
Ask(c) ==
  /\ process.up
  /\ attest[c] = Idle
  /\ \E key \in {process.key, Elsewhere} :
       attest' = [attest EXCEPT ![c] = [stage |-> "waiting", over |-> key]]
  /\ queue' = Append(queue, c)
  /\ UNCHANGED <<td, process, started, helpers, trust, prompt, given>>

\* The queue without c, which is in it once.
QueueWithout(c) ==
  LET at == CHOOSE i \in DOMAIN queue : queue[i] = c
  IN  [i \in 1..(Len(queue) - 1) |-> queue[IF i < at THEN i ELSE i + 1]]

\* Mutant: a free slot goes to anyone who waits.
AcquireAny(c) ==
  /\ attest[c].stage = "waiting"
  /\ Cardinality(InSlot) < Slots
  /\ queue' = QueueWithout(c)
  /\ attest' = [attest EXCEPT ![c].stage = "collecting"]
  /\ helpers' = IF td.helper THEN helpers \cup {c} ELSE helpers
  /\ UNCHANGED <<td, process, started, trust, prompt, given>>

\* attest_slots.acquire() gives slots in the order they were asked for; collect
\* starts the helper, if the gate has one.
Acquire(c) ==
  /\ queue # <<>> /\ Head(queue) = c
  /\ Cardinality(InSlot) < Slots
  /\ queue' = Tail(queue)
  /\ attest' = [attest EXCEPT ![c].stage = "collecting"]
  /\ helpers' = IF td.helper THEN helpers \cup {c} ELSE helpers
  /\ UNCHANGED <<td, process, started, trust, prompt, given>>

\* Evidence goes into the report data, or none where there is no helper or on the
\* measurement VM; a gate that serves a model and whose helper gave none refuses.
Collected(c) ==
  /\ attest[c].stage = "collecting"
  /\ \E printed \in Printed(c) :
       LET evidence == IF td.helper /\ Collects(c, printed) THEN printed ELSE NoEvidence
           data == ReportData(c, Binding(process.key, process.config, evidence)) IN
       attest' = [attest EXCEPT ![c] =
         IF evidence = NoEvidence /\ td.helper /\ process.config # NoConfig
         THEN Idle
         ELSE [stage |-> "quoting", over |-> @.over, gpu |-> evidence, data |-> data]]
  /\ helpers' = helpers \ {c}
  /\ UNCHANGED <<td, process, started, queue, trust, prompt, given>>

\* The quote fails, or the answer goes out with what was hashed.
Quoted(c) ==
  /\ attest[c].stage = "quoting"
  /\ attest' = [attest EXCEPT ![c] = Idle]
     \/ attest' = [attest EXCEPT ![c] =
          [stage |-> "answered", over |-> @.over, data |-> @.data, rtmr3 |-> td.rtmr3,
           config |-> process.config, gpu |-> @.gpu]]
  /\ UNCHANGED <<td, process, started, queue, helpers, trust, prompt, given>>

\* Mutant: a helper whose request was dropped runs on.
DisconnectOnly(c) ==
  /\ attest[c].stage \in InFlight
  /\ attest' = [attest EXCEPT ![c] = Idle]
  /\ queue' = IF attest[c].stage = "waiting" THEN QueueWithout(c) ELSE queue
  /\ UNCHANGED <<td, process, started, helpers, trust, prompt, given>>

\* The client goes away: its handler is dropped, with its place in the queue or
\* its slot, and its helper (kill_on_drop).
Disconnect(c) ==
  /\ attest[c].stage \in InFlight
  /\ attest' = [attest EXCEPT ![c] = Idle]
  /\ queue' = IF attest[c].stage = "waiting" THEN QueueWithout(c) ELSE queue
  /\ helpers' = helpers \ {c}
  /\ UNCHANGED <<td, process, started, trust, prompt, given>>

\* What the client checks before it pins the key its TLS ended at.
Verifies(c, answer) ==
  /\ answer.config = Wanted[c]
  /\ answer.rtmr3 = ExpectedRtmr3(answer.config)
  /\ answer.gpu.nonce = c
  /\ answer.data = ReportData(c, Binding(answer.over, answer.config, answer.gpu))

Verify(c) ==
  /\ attest[c].stage = "answered"
  /\ trust' = [trust EXCEPT ![c] = IF Verifies(c, attest[c]) THEN attest[c].over ELSE @]
  /\ attest' = [attest EXCEPT ![c] = Idle]
  /\ UNCHANGED <<td, process, started, queue, helpers, prompt, given>>

-----------------------------------------------------------------------------
(* /v1/*.                                                                  *)

Allows(c) == c \in process.tokens

\* proxy up to the body: a route that is served, for a caller whose token is
\* listed, over the key the client pins.  Anything else is refused.
Prompt(c) ==
  /\ process.up
  /\ prompt[c] = Idle
  /\ trust[c] = process.key
  /\ process.config # NoConfig
  /\ Allows(c)
  /\ prompt' = [prompt EXCEPT ![c] = [stage |-> "reading"]]
  /\ UNCHANGED <<td, process, started, queue, attest, helpers, trust, given>>

\* The body is too large, the client is gone, or vLLM is not answering.
PromptRefused(c) ==
  /\ prompt[c].stage = "reading"
  /\ prompt' = [prompt EXCEPT ![c] = Idle]
  /\ UNCHANGED <<td, process, started, queue, attest, helpers, trust, given>>

PromptGiven(c) ==
  /\ prompt[c].stage = "reading"
  /\ prompt' = [prompt EXCEPT ![c] = Idle]
  /\ given' = given \cup {[client |-> c, config |-> td.config, listed |-> c \in td.tokens]}
  /\ UNCHANGED <<td, process, started, queue, attest, helpers, trust>>

-----------------------------------------------------------------------------
Next ==
  \/ Start \/ Stop \/ Reboot
  \/ \E c \in Client :
       \/ Ask(c) \/ Acquire(c) \/ Collected(c) \/ Quoted(c) \/ Disconnect(c) \/ Verify(c)
       \/ Prompt(c) \/ PromptRefused(c) \/ PromptGiven(c)

\* A free slot is given, a helper ends within HELPER_TIMEOUT, and the TD's quote
\* device answers.
Fairness == \A c \in Client : WF_vars(Acquire(c)) /\ WF_vars(Collected(c)) /\ WF_vars(Quoted(c))

Spec == Init /\ [][Next]_vars /\ Fairness

-----------------------------------------------------------------------------
(* Properties.                                                             *)

\* A key a client pins is a gate's that serves the configuration the client asked
\* for, however often the gate restarted or the TD rebooted with another
\* (attest.rs:3-12, tls.rs).
TrustedServesWanted ==
  \A c \in Client : trust[c] # Nobody =>
    trust[c] \in DOMAIN started /\ started[trust[c]].config = Wanted[c]

\* A prompt is only ever given to a model its client asked for, by a caller the
\* operator of this boot lists: a process that serves another has another key
\* (private-inference.md, tls.rs).
PromptsToWanted ==
  \A g \in given : g.config = Wanted[g.client] /\ g.listed

\* However requests come and go, the GPU is asked for at most Slots reports at a
\* time (server.rs:27-28).
HelpersBounded == Cardinality(helpers) <= Slots

\* Every /attest ends: no request that came later, disconnect or failure keeps it
\* waiting (server.rs:173-205).
AttestEnds ==
  \A c \in Client : (attest[c].stage \in InFlight) ~> (attest[c].stage \notin InFlight)

=============================================================================
