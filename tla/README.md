# Specifications of mero-tee

TLA+ models of the parts of this repository whose correctness depends on order,
failure and time, the TLC runs that check them and the TLAPS proofs about them.
`tlc -config X.cfg M` runs a check and `tlapm M.tla` checks a proof, in this
directory; `PROJECT.json` lists the runs, the source lines each definition
stands for, and the hazards the properties are for.

| model | source | checked | proved |
|---|---|---|---|
| `CounterViews`, `Counters` | `mero-kms/src/counters.rs` | safety, liveness | types, growth, reads meet writes, epochs climb, joiners meet writes |
| `Register`, `CountersRegister` | what `counters.rs` promises its callers | refinement | refinement |
| `CounterLimits` | the limits in `counters.rs` | safety | all its properties |
| `KeyRelease` | `stateless_challenge.rs`, `handlers/challenge.rs`, `get_key.rs` | safety | all its properties |
| `Policy`, `Config`, `Release` | `policy.rs`, `config/`, `handlers/`, `sealed.rs`, `backend.rs` | safety | all its properties |
| `Join` | `mero-kms/src/cluster.rs`, `main.rs` | safety, liveness | all its safety properties |
| `NodeBoot` | `merotee/templates/calimero-init.sh.j2` | safety, liveness | all its safety properties |
| `Gate` | `mero-inference-gate/src` | safety, liveness | all its safety properties |

## The system

mero-tee builds VM images that run in Intel TDX guests. A **node** image runs
merod, whose store is encrypted with a key it gets from **mero-kms**, a key
service that runs in TDX as well and gives keys only to nodes whose attestation
quote it accepts. mero-kms keeps nothing on disk: a cluster of replicas shares
one random root in memory. An **inference** image runs a language model behind
**mero-inference-gate**, which proves to clients which model it serves. **mdma**
(not in this repository) creates the VMs and sets their metadata.

### Components

**Rollback counters** (`counters.rs`). State of a replica, behind one mutex:
`ready`, `formed`, `genesis_until` and `map`, from a cluster key path to the
cluster's epoch and each store's `(generation, mark)`. Operations: `read` (by a
key release), `raise` and `reset` (from `/rollback/...`), the peer requests they
send (`answer_read`, `answer_merge`), and `sync_once`, which a started replica
repeats until it is ready. A call asks all peers at once, waits for each up to
`PEER_TIMEOUT`, and needs a majority of `MERO_KMS_REPLICAS`. *Hard:* calls
overlap at different replicas; a request may be handled late or twice; a lost
replica is replaced by an empty one that must not serve what it has not heard;
a first cluster has no majority to sync from and uses a time window ("genesis");
a replica at its limit refuses some merges and keeps a part of others.
*Correct:* a read meets every write acknowledged before it; a replica's view
only grows; a joiner that becomes ready holds what was acknowledged; resets
climb; joiners, calls and writes get done; a caller cannot tell the replicas from
one register.

**Key release** (`/challenge`, `/get-key`, `/rollback/*`). A challenge is a MAC
under the root of a random part and an expiry, so any replica checks it with no
state; each replica remembers those that were spent at it until they expire, up to a
capacity. `release_key` opens the challenge, *awaits* the verification of the
quote, may *await* the counter read, then spends the challenge, and last seals the
key, which can still be refused.
*Hard:* the awaits between check and spend, skewed clocks, the full cache, a
replacement that remembers nothing; messages carried by a host that nobody
trusts, late, twice, or to another cluster. *Correct:* a fresh challenge gives
one key at a replica, a request that does not verify uses nothing up, no replica
refuses what another issued; a session gets its own key, with no counter below what it may rely on.

**KMS configuration and policy** (`config/`, `policy.rs`, `measurement.rs`). Read
once, at start: the profile, the key prefixes, the cluster, and one entry of
allowed measurements for each role. *Hard:* values spelled in different ways,
several sources for one value, an entry that is written in part, two entries one
quote could match. *Correct:* what starts keeps roles, peers and the transport
key apart, and gives a quote one role.

**Replica join** (`/join-nonce`, `/join`). A replica with no root goes round its
`MERO_KMS_PEERS`; giver and joiner each check that the other's quote shows no
debug TD, an accepted TCB status and their own measurements, and the root is
sealed to a one-time key. *Hard:* again a nonce opened before an await and spent
after it; peers that are dead, hold no root or run another image; a root handed on
several times. *Correct:* a root stays with the measurements it was generated
under; a nonce seals once while it is fresh; a joiner that can get the root gets
it.

**Node boot** (`calimero-init.sh.j2`). One script, run at every boot and sometimes
again: it reads the metadata, finds the data disk, formats it on the first boot or
opens it with a key from mero-kms on later ones, mounts it, makes a TLS key, and
runs `merod init` once. State: the disk's signature, LUKS key slot, identity token
and file system; the mount; what lies under `/mnt/data`; the key in `/run`; the
events in RTMR3. *Hard:* the power goes between any two commands; any command,
metadata read or probe fails; the disk attaches late; the KMS cluster was rebuilt
with another root; the script runs over what an earlier run left. *Correct:* data
is never formatted away, a disk with data can be opened again, secrets do not
stay, a locked node's state is nowhere in the clear, it is initialised once and
under its cluster's identity, and it comes back.

**Inference gate** (`mero-inference-gate`). TLS in front of vLLM: a key made at
every start, the configuration and tokens `inference-init` left at boot, a
semaphore for `/attest`. `/attest` awaits a slot, runs a GPU helper, awaits a
quote over the nonce, key, configuration and evidence; `/v1/*` is passed on for
listed tokens. *Hard:* several awaits per answer, clients that go away at any of
them, restarts and reboots with another model between a client's check and its
prompts. *Correct:* a prompt reaches only a model its client verified and wants;
evidence is for the nonce asked; helpers are bounded; every request ends.

**TLS certificates** (`calimero-tls-cert.sh`), **inference and KMS image boot**
(`inference-init`, `kms-init`), **observability** (vector, vmagent),
**attestation verifier** (`attestation-verifier`), **release, attestation and CI
scripts**: see "Not modelled".

### How they interact

    mdma --metadata--> node VM: calimero-init --starts--> merod
                          |  /attest, /challenge, /get-key   |  /rollback/raise, reset
                          v                                  v
                       mero-kms replica  <--- read, merge, join --->  other replicas

    client --/attest, /v1--> inference VM: gate ---> vLLM      (inference-init before both)

A replica joins (`Join`), then syncs its counters (`Counters`), then serves under
its configuration (`Config`). A key release (`Release`, its time and single use
in `KeyRelease`) reads the node's counter over the replicas: `Release` uses what
`Register` promises of them, and `Counters` is shown to implement `Register`. The
node boot meets mero-kms as one step that gives a key for `(identity, root)` or
fails.

## The models

Each module has one action per handler, per end of a round, or per command, and
a step of a model runs from one await (or one command with a lasting effect) to
the next: in mero-kms the state of a replica is behind a mutex that is never held
over an await. Next to some definitions is a "mutant": a plausible bug of the
code, which the property named in `PROJECT.json` is shown to catch.

### CounterViews, Counters

One cluster key path; paths share nothing but the limits. `CounterViews` has the
entries, their order and `Merge`. In `Counters`:

| model | code |
|---|---|
| `up`, `ready`, `formed`, `genesis`, `map` | the process with a root; `Inner` |
| `sync`, `syncing`; `round`, `pc`, `op` | locals of `sync_once`; of `read`, `raise`, `reset`, `write` |
| `net` | requests sent, for good: their MAC binds no receiver and no time |
| `BeginSync`, `AnswerSync`, `SyncFromMajority`, `SyncInGenesis`, `SyncAgain` | `sync_once` |
| `BeginRead` .. `ReadReturns`, `ReadRefused` | `Counters::read` for a release |
| `BeginRaise`, `BeginReset`, `ReadThen...`, `StartWrite`, `AnswerMerge`, `WriteAcked`, `WriteRefused` | `raise`, `reset`, `write` |
| `LateRead`, `LateMerge` | a request handled outside its round |
| `Join`, `Crash`, `GenesisExpires` | loss, replacement, the window |

An answer counts only in the round whose nonce it carries, so it is merged into
the caller's round as it arrives, or is lost. The code merges the answers after
the round: to the same view, since `Merge` is the least upper bound
(`MergeLeast`), and dropped when the round is refused in both.

Two faults can be switched off, and are in the passing runs and in the safety
theorems (`NoFastReplacement`). `ReplaceMidRound`: a replica counted by an open
write round is replaced before the round ends. With it TLC finds, at five
replicas, a write acknowledged with too few holders. A replacement is a new VM
(`mero-kms/README.md:9-11`), so minutes, and a round is over in `PEER_TIMEOUT`;
the assumption is about the deployment and nothing in the code enforces it.
`ReplaceInBringUp`: one is replaced after the first write while some replica is
still in its genesis window; that is the run `genesis_split`, a finding.
`Sized` (theorems only): no more replicas than `MERO_KMS_REPLICAS`.

### Register, CountersRegister

`Register` is the abstract specification: calls that begin and end, no replicas.
An acknowledged read has every write acknowledged before it began, a reset goes
above every reset acknowledged before it, a failed write may or may not be read
later, and nothing is read that no call wrote. `CountersRegister` maps `Counters`
to it: a call's phase is its `pc` with the three running stages as one, its
update is `op.update`, its result the view its last round ended with, and
`since` the `before` of its round (a history that `Counters` keeps). The
linearization needs no choice: a write of `Counters` may be read from the moment
it is known, and so may one of `Register`.

### CounterLimits

Several cluster key paths of one formed KMS, and merges that refuse:
`MAX_COUNTER_CLUSTERS`, `MAX_COUNTER_NODES_PER_CLUSTER`, and in `sync_once` the
early return that keeps what was merged before it. What is kept of a cluster is
the set of its node ids, by which alone a merge refuses. Genesis, resets and
epochs are in `Counters`. `MergeMap` walks a map in the order of its paths, as the
code's `BTreeMap` is; the answers of a sync are merged in any order (`SyncMerges`).
The model has what the code leaves: a refused merge may leave a new cluster's entry
with no nodes (`MergeCluster`), and a read of a cluster that was never written
takes one of the places as well (`ViewKept`).

### KeyRelease

`calls` holds each request and its stage ("attesting", "counting", "released",
"refused"), `spent` each replica's cache, `clock` each replica's own time.
`GetKey`, `Attested`, `CountersRead` and `SpendChallenge` are the pieces of
`release_key` between its awaits. `SpendChallenge` has the three ends of the last
piece: the challenge is used or the cache full (`RefuseSpend`), the key is given
(`Release`), or `seal_bytes` refuses the seal key after the challenge was spent
(`SealRefused`); `LowOrder` names the requests with such a seal key. `spenders` is
a history: who spent a challenge at a replica, with or without a key.
Quotes, signatures and peer ids are not told apart (they are in `Release`): a
request that fails one is refused at once with no change, or after the await
(`RefuseAwaited`). Clocks never step back and stay within `Drift` of each other;
a clock that steps back can make a dropped challenge fresh again.

### Policy, Config, Release

`Policy` and `Config` are the pure part: which environment the service starts
with (`Starts`), what it reads from it (`FromEnv`), and the role a quote has
under its policy (`RoleOf`). Texts are abstracted to what the readers tell apart:
unset, unreadable (`Bad`), or a value; a key prefix is the sequence between its
slashes, since trimming them is what makes two spellings one.

`Release` composes them with the handlers. A *session* is one boot of a TD; it
attests a KMS (`Attest`), asks with a challenge (`Ask`), opens an answer
(`Accept`) and then raises or resets its counter (`AskRollback`, `AcceptAck`). It
is merod, outside this repository, and does what these handlers and `sealed.rs`
say of a requester; those definitions are marked external. `call` is a request in
a cluster: `GetKey`, `Attested`, `CountersRead` are `release_key`, `Raise`,
`Reset`, `ResetRead`, `WriteAcked` the handlers of `/rollback`. `RefuseCall` ends
a call after any await, for any of the reasons the code has there, the refusal to
seal among them; which challenges are spent is in `KeyRelease`.

The network is a set of messages: one that was sent may be delivered anywhere,
late and again. Messages are delivered whole, but `/attest` is asked by whoever
carries a session's request, with a binding and a mode of their own. A hash, MAC
or derived key is the tuple of its inputs under its domain or salt: two are equal
when all of these are. A quote and a signature are verified by comparing what
they carry. The counters of a cluster are the writes submitted (`written`) and
those acknowledged (`held`), and `Views` is what `Register` lets a read answer.

### Join

`exchange` holds the nonces drawn, `handler` the runs of `join_handler` (one
request can be handled more than once), `next` a joiner's place in its list,
`root` the replica whose start generated the root a replica holds. `Image` stands
for the measurements and `Accepts` for what else `check_peer` asks of a quote (no
debug TD, a TCB status in the policy); `Same` is the two together. `Lax` are
replicas of *other* code that give their root to anyone, which is what the
joiner's own check (`GiverIsSame`) is for. The keys, seal and quotes bind an
exchange to its nonce, so the exchange is its nonce.

### NodeBoot

One node, its disk and the metadata server. `pc` is the next command with a
lasting effect. `disk` is the device (signature, key slot, token, file system),
`files` what lies under `/mnt/data` when it is on the disk, on the root or in
memory, `mapper`, `mounted`, `secret` (the files in `/run/calimero-disk`) and
`serving` (who holds merod's port) what the script leaves behind in a boot;
`PowerOff` takes it. The root is `systemd.volatile=overlay` on every profile
(`mkosi-image/build.sh:174`), so files on the root go with it.

A key is the pair of the identity it was asked for and the KMS root it was
derived from; `NewKmsRoot` stands for a KMS cluster that was lost and started
afresh. `extended` counts the image's events in RTMR3 since power-on. Every run of
the script extends it (`Run`), so after a second run in one boot a quote no longer
names the image (`NamesImage`): the KMS gives no key and mdma stamps nothing until
the power goes. `Faults` names what may fail: a metadata request ("metadata": the
reader sees an empty value), a probe, the KMS, any other command. The release
floor, the binaries and swap are one refusal (`RefuseEarly`); making the TLS key
may fail, which the script survives, or a `mkdir` or `chmod` beside it, which ends
it (`MakeTlsKey`, `InitFails`). Device names,
wording, the certificate request, the evidence record and the start of services
are left out. `inits` and `minted` are counters of the model.

### Gate

`td` is what a boot of the TD loaded: a configuration (or `NoConfig`, on the VM
that only measures the image), RTMR3 with its event, the tokens, and whether there
is an evidence helper (without one, `GATE_GPU_EVIDENCE=none`, a gate answers with
no evidence, which a client refuses). `process` is
the gate, whose key is the number of its start; `started` remembers what each
start read. `queue` and `attest` are the requests to `/attest` at each of their
awaits (`Ask`, `Acquire`, `Collected`, `Quoted`, `Verify`), `helpers` the running
GPU helpers, `prompt` the requests to `/v1` up to the one that vLLM is given.
`Disconnect` drops a handler at an await, as axum does; its helper is taken to end
with it (`kill_on_drop`). `Stopped` also takes the answers that clients hold and
have not verified: a client checks an answer by its contents alone, so one that it
verifies later it may as well verify before. Clients (external) check
what `docs/design/private-inference.md` has them check: the configuration, the
RTMR3 it gives, the evidence's nonce, and that the report data names the key
their TLS ended at; that key may also be of something in between (`Elsewhere`).
Signatures of quotes and NVIDIA's verdict are taken as holding.

## The runs

Each module's `TypeOK` is a theorem or a conjunct of the `IInv` that is checked, but
that of `Release`, which holds on the instance of its run (add `INVARIANT TypeOK`
to the cfg to see it).
Symmetry is used in the safety runs only. Deadlock is not checked where calls,
runs or nonces are bounded, so that a run does stop when they are used up.

| run | shows | bounds |
|---|---|---|
| `bring_up` | bring-up from one replica with a read, a raise and a loss: `ReadMeetsAckedWrites`, `SyncMeetsAckedWrites`, `OnlyGrows`, `IInv`, and `Implements` (all of `Register`) | 3 replicas, the least with a majority that is not all |
| `resets` | two resets and a loss, on a cluster brought up and reset once: `ResetsClimb`, `ImplementsSteps` | 3 replicas; the second reset meets `MaxU64` = 2 |
| `limits` | `ReadMeetsAckedWrites`, `NoMajorityForgets`, `JoinerRefusedWhenFull` at the limits | 3 replicas, limits of 1 cluster and 1 node id, 2 of each asked for, 2 raises, 1 read, 1 loss |
| `counters_live` | joiners and replacements become ready, calls end, writes are acknowledged | 3 replicas, new or brought up; 1 loss from a whole cluster |
| `key_release` | `OnceWhileFresh`, `OnlyVerifiedAreSpent`, `IssuedNeverTooLate`, `IInv` | 2 replicas a second apart, 3 requests (one reads its counter, one has a low-order seal key), 2 challenges, a cache of 1, 1 loss |
| `release` | `OneRolePerQuote`, `KeysApart`, `AttestedACluster`, `OwnKeyReleased`, `SealedToItsImage`, `AcknowledgedMarksRead`, `OnlyResetsMoveEpochs` | 5 TDs of which 2 boot, 2 clusters, 3 served calls, 2 rollback calls, 2 marks; about 6000 environments |
| `join` | `SameAsMe`, `SealsOnceWhileFresh` | 4 replicas of 2 images, one a debug TD, a giver of other code, 2 nonces handled twice, expiry in mid-join, 2 faults |
| `join_live` | `JoinersGetRoot` | 4 replicas of 2 images, one a debug TD, each with one list of peers, 1 fault |
| `node_boot` | `Reopenable`, `LockedStateSealed`, `SecretsGone`, `InitialisedOnce`, `KeepsState`, `IInv` | nodes of a cluster in every setup, every first disk, every fault, 3 runs, in one boot or more, 2 KMS roots |
| `node_live` | `StateComesBack`, `SharesClusterIdentity`, `PortIsFree` | every setup, no fault but power loss and what comes late, 4 runs |
| `gate` | `TrustedServesWanted`, `PromptsToWanted`, `HelpersBounded`, `AttestEnds` | 2 clients that want different models, 1 slot, 3 starts, with and without a helper, any number of reboots |

*Why the bounds are enough to be of use.* The counter properties are about two
rounds and one loss between them: a lost write needs one writer, one reader and
one replaced holder, all there in `bring_up`; the third replica is the one that
makes a majority intersect; the theorems lift the bound for safety, among them
for a cluster of one. One mark and three epochs suffice since views only compare.
In `limits` each limit is one below what is asked for, so that of two raises one
must be refused somewhere, by the path or by the node id. In `key_release` and
`join` the hazard is a check and a use on both sides of a second, so lifetimes of
1 and clocks to 3 have before, at and after. In `release` two sessions at a time
are enough for a message to reach the wrong one, and the five differ in all that
a message binds: the image, the peer, the mode; two boots of one node (`n1`, `n2`)
share all but their one-time keys, which is where a late raise or a repeated
answer bites; with 3 calls one raises, one releases and one repeats. The
environments hold every value of each group of variables together (the profile's
three sources, both prefixes and the profile, the lists of both roles, the
cluster's variables), and the groups meet nowhere in the code but in the prefix
and the profile. In `node_boot` a first run is cut off, a second cut off over it
and a third starts: longer histories repeat these states, and the theorems cover
any number. Two roots tell a right key from a wrong one. `node_live` has no
failing command since a failure ends the boot, which is all `StateComesBack`
could then say. In `gate` three starts let a client verify one, a second replace
it, and a third follow; one slot and two clients make the queue. Each passing
property is shown to fail under a mutant of the code.

*A run that ends in a violation* is a disagreement between the code and what it
says of itself (`PROJECT.json`, "findings", has the lines). `genesis_split`: a
replica that never heard the cluster form still vouches for an empty replacement in
its window; the replacement begins a read, then learns from a late merge that the
cluster is formed, and so serves that read with the two empty views it has heard,
without the acknowledged write.

### What a reader of the code's comments may not expect

The modules show these consequences of the code, and no run asks about them:

- A challenge opened in its last second and spent after it can be spent twice,
  since `spend` drops expired entries before it looks
  (`stateless_challenge.rs:149`). The nonces of `Join` are spent in the same way
  (`cluster.rs:128`). So `OnceWhileFresh` and `SealsOnceWhileFresh` speak of
  fresh ones only.
- A request refused for its quote, its role or its counter can be repeated with its
  challenge (`RefuseAwaited` spends nothing), though the comment of the handler
  says that a challenge is consumed before these checks (`get_key.rs:100-103`).
- A request whose seal key is a low-order point is refused after its challenge was
  spent (`SealRefused`; `sealed.rs:175-181`), though the comment of
  `spend_challenge` says that the cache holds "challenges that released a key and
  nothing else" (`get_key.rs:379-380`). `OnlyVerifiedAreSpent` is what holds;
  `INVARIANT OnlyReleasesAreSpent`, added to `MCKeyRelease.cfg`, shows the request
  in question, and the theorem `ReleasesAreSpent` that there is no other.
- Two resets that overlap share an epoch, and the entry of a reset that was
  refused stays where it was taken, so `ResetsClimb` is about resets that follow
  an acknowledged one.
- At the limits the writes acknowledged by different majorities together need not
  fit in one replica, even with no loss: three replicas with a limit of two
  clusters can acknowledge writes of three. A replacement told more than it has
  room for is not ready after that round; `JoinerRefusedWhenFull` says that only
  such a one is refused. A write refused by the others stays where it was submitted, and at
  `MAX_COUNTER_NODES_PER_CLUSTER` a read that hears that replica is refused. A
  joiner keeps what a refused attempt merged.
- `get_meta` gives an empty value when a metadata request fails, and each use asks
  again (`calimero-init.sh.j2:35`, `:1338`, `:1664`): with such failures a locked
  node can be initialised without the `cluster` its check had seen, and a second
  run can find its attest unit on merod's port. `SharesClusterIdentity` and
  `PortIsFree` are checked, and proved, for reads that succeed.
- A node that is not locked is initialised on the volatile root when its disk
  comes late (`CheckPlace`), so `InitialisedOnce` is about locked ones.
- In the gate the semaphore is never closed, so its "closing" answer cannot be
  given (`server.rs:177`); and a quote has no timeout and runs on without its slot
  when its client goes away (`server.rs:204`).
- A cluster of two replicas that lost one cannot sync another, as the one left is
  no majority.

## Fairness

Every task of mero-kms keeps running (tokio) and every call to a peer ends in a
timeout, and a lost replica is replaced: the
continuing steps of a call, a sync, a handler and a replacement are weakly
fair, per replica and call; the start of a client's call, a loss and a clock's
tick past a bound are not. The run `counters_live` also sets
`Timely`: a peer that runs answers within `PEER_TIMEOUT`, and the genesis window
outlasts the joins of a first majority. Without it no quorum protocol answers;
the code only promises these outcomes then. In `join_live` the faults are
bounded by `MaxFaults`: each call fails or is answered, and a loop that goes
round for ever meets every peer. In `NodeBoot` the script's next command is
weakly fair (its waits, for the disk, the key and the gate, are all bounded in
the script), a power loss, a stamp or a new boot is not: `StateComesBack` is
about a boot that is not cut off. In `Gate` a free slot is given to the head of
the queue (tokio's semaphore is first come, first served), a helper ends within
`HELPER_TIMEOUT`, and the quote device answers, which nothing in the code
enforces; clients, restarts and reboots are not fair.

## The proofs

TLAPS proves, for every value of the constants that the modules' `ASSUME`s allow:

- `CounterViewsProofs`: `Merge` gives the least view above both (`MergeLeast`),
  on which the abstraction of a round's answers rests.
- `CountersProofs`. Types and growth: `TypeCorrect`, `ViewsOnlyGrow`, with every
  fault allowed. Safety: `InvHolds`, `ReadsMeetWrites`, `RollbacksClimb`,
  `JoinersMeetWrites`, under `Sized` and `NoFastReplacement`. These are not
  inductive: that a read meets a write depends on who still holds it. `IInv`
  (module `CountersInductive`) says that a write in its round is held by whoever
  was counted and lives (`InvWriting`); that an acknowledged one has a majority of
  holders, of which one that lost it is not ready and began its sync after the
  acknowledgement (`InvAcked`); and that a round in progress that heard a holder
  already has the write (`InvReading`, `InvSyncing`). Two majorities meet
  (`Sized`), so a read or a sync that ends heard a holder. Refinement:
  `CountersImplementRegister`, under the same two assumptions, a step simulation
  over the theorems above and two more invariants: what replicas, rounds and
  messages hold is made of what calls wrote (`InvFrom`), and a write's update is
  known once and is in its own round (`InvUpdates`). Each action is then a `Begin`,
  `Reset`, `Ack`, `Fail`, or changes nothing of the register.
  `StepsImplementRegister` says the steps do so from any state of these
  invariants, which those the run `resets` begins in satisfy.
- `CounterLimitsProofs`: `TypeCorrect` (no map is ever past a limit),
  `ReadsMeetWrites`, `NoMajorityEverForgets`, `JoinersRefusedOnlyWhenFull`, from
  `LimitsAssumption` (limits of at least 1), `CallsAssumption` (no call both reads
  and raises) and `FiniteAssumption` (finitely many replicas and node ids, paths
  in an order). `IInv` says that whoever was counted by a write in its round and
  runs has the write (`WritesHeld`), and that an acknowledged one keeps a majority
  of holders, of which one that lost it is not ready and was told nothing by other
  holders that lacks it (`AckedHeld`). What makes it last is what a merge that
  says it succeeded keeps: all of what it was given and had, whatever order it
  walked in. A merge that says it failed kept only what fits of what it was given
  and had, and the whole of that does not fit. Both are shown of the recursive
  functions as walks (`Walk`), by a first-order induction over their steps.
- `KeyReleaseProofs`: `ReleaseInvHolds`, `TypeCorrect`, `OneKeyWhileFresh`,
  `UnverifiedSpendNothing`, `SkewTolerated` under `Drift <= Skew`, and
  `ReleasesAreSpent` where no request has a low-order seal key. `IInv` adds that a
  call past its check still names an issued challenge and that a spent one, with or
  without a key given, keeps its place until it expires by the same clock.
- `JoinProofs`: `JoinTypeCorrect`, `RootStaysInImage`, `NonceSealsOnce`. A handler
  runs for a nonce that was drawn (`HandlersDrawn`), and a giver remembers each
  nonce it sealed for while it is fresh (`SealsRemembered`); with them the two
  properties are inductive.
- `NodeBootProofs`: `InductiveInvariant` and from it `TypeCorrect`, `DiskIsKept`,
  `DiskReopens`, `SecretsAreGone`, `StateIsSealed` and `NodeIsInitialisedOnce`,
  for any setups, first disks and faults. The properties speak of the disk, but
  why they last is what the script knows at each command: `ProgressInv` (between
  the format and the first mount nothing is on the disk; a token is empty until it
  is written; the key held is the one of the token), `DiskInv` (an open mapper has
  a token, a mounted disk a file system) and `SealInv` (past the locked check the
  mount is the encrypted disk or memory). No step formats where something is
  (`FormatsUnused`), and every write goes where the mount is (`WriteSafe`).
  `NodeSharesIdentity` and `MerodFindsItsPort` need that metadata reads do not
  fail, and what was read to be the metadata from then on (`IdentityInv`,
  `PortInv`).

- `GateProofs`: `TypeCorrect`, `TrustedKeysServeWanted`, `PromptsReachWanted`,
  `HelpersStayBounded`, for any clients, slots, starts, reboots and operators'
  tokens. A process serves what its TD booted with (`ServesItsBoot`); what a slot
  is held for was hashed by the running process over its own key and configuration
  (`QuotesItself`), since a stop drops every request; so an answer that a client
  verifies names the key and configuration of one start. A prompt being read came
  over a pinned key (`ReadsForPinned`). `HelpersBounded` follows from the types:
  helpers are those of requests that hold a slot, and a slot is taken from the
  queue, in which each waiting request is once.
- `ReleaseProofs`: `OneRolePerQuoteHolds`, `KeysApartHolds`,
  `AttestedAClusterHolds`, `OwnKeyReleasedHolds`, `SealedToItsImageHolds`,
  `AcknowledgedMarksReadHolds`, `OnlyResetsMoveEpochsHolds`, for any environments,
  policies, sessions, clusters and calls. The first two are about what starts:
  trimming leaves a path with names at both ends, which a second trim keeps
  (`TrimTrims`, `PrefixKept`), and two entries whose lists meet in every register
  are refused (`EntriesApart`). The others need an invariant over messages: what a
  session holds came from one cluster (`SessionInv`), what a call holds in its
  stage is of the session it serves (`CallInv`), an answer is for one session at
  one root (`AnswerInv`), and an acknowledgement is of a call that some session made
  and, for a raise, of a write that is held (`AckInv`). A MAC is taken to bind its
  inputs, so a message that opens is the one made. The assumptions: a mode and node
  id for each session (`SessionAssumption`), marks and bounds are numbers
  (`MarkAssumption`), a prefix is unset or a sequence of names (`EnvAssumption`),
  and sessions talk to a KMS that enforces a policy whose lists hold what the
  images of a role measure and nothing else (`CalledAssumption`); that last one is
  the operator's part, and no code can check it.

Only model-checked: liveness (`counters_live`, `join_live`, `node_live`,
`AttestEnds`), since the prover has no fairness or ENABLED. Every safety property
of every passing run is a theorem. TLC evaluates each `ASSUME` in the runs; the
`IInv` of `Counters`, `KeyRelease` and `NodeBoot` are invariants of runs as well, and
those of the other proofs held on the same instances.

## Not modelled, and why

- The `mock-attestation` build feature, `/health`, the event log and the join
  error that are only reported; the parsing of measurements, times and addresses.
- Cryptography and byte formats: taken as correct, hashes as injective.
- `calimero-tls-cert.sh`: each run reads the disk and the metadata anew and
  replaces files whole; its outcomes are openssl's verdicts on certificates.
- `inference-init` and the model volume, but for what the gate reads of them;
  `kms-init`, which starts mero-kms once with the environment of its image; the
  start-up refusals of the gate.
- The attestation verifier: one request, one verdict, no state.
- Release, policy, measurement and CI scripts, workflows, image build, docs: no
  part of the running system.
- merod, mdma and clients are not in this repository: merod is what the script
  runs and what the handlers say of a requester (`Told`, the sessions of
  `Release`), mdma is `Attach` and `Stamp`, a client is what the design has it
  check.

## Plan

Written, in this order: `CounterViews`, `Counters` (the core: nothing else here
loses data silently), its invariant and proofs; `KeyRelease` and its proofs;
`Join`; `NodeBoot` and its proofs; `CounterLimits`; `Register` and the refinement;
`JoinProofs`; `Policy`, `Config` and `Release`; `Gate`; `GateProofs`, `ReleaseProofs`
and `CounterLimitsProofs`. What could follow: the publication and installation of
TLS certificates with restarts, and the model volume of the inference image.
