------------------------------ MODULE NodeBoot ------------------------------
(***************************************************************************)
(* The boot of a node VM (calimero-init.sh.j2): it finds, formats or       *)
(* unlocks the data disk, and initialises merod once.  One step of the     *)
(* model is one command whose effect lasts; the power may go, or a command *)
(* fail, between any two.  The root file system is a memory overlay        *)
(* (systemd.volatile=overlay), so what is written there goes at power-off. *)
(***************************************************************************)
EXTENDS Naturals

CONSTANTS
  Setup,     \* the instances: image profile and metadata, fixed for a VM
  Disk,      \* what the attached device may hold at first
  Faults,    \* what may fail, a subset of Failing
  MaxRuns,   \* bound on runs of the script
  MaxRoots   \* bound on KMS clusters: a lost one is followed by a fresh root

Failing == {"metadata", "probe", "kms", "command"}

\* kms, release and cluster: is that metadata set; unlocks, attests: does the
\* baked merod have `kms disk-key' and `attest --serve'.
Setups ==
  [profile : {"locked", "debug"}, kms : BOOLEAN, release : BOOLEAN,
   cluster : BOOLEAN, ephemeral : BOOLEAN, unlocks : BOOLEAN, attests : BOOLEAN]

Signature == {"blank", "luks", "ext4", "other"}

ASSUME SetupAssumption == Setup \subseteq Setups /\ Disk \subseteq Signature \ {"luks"}
ASSUME FaultAssumption == Faults \subseteq Failing
ASSUME BoundAssumption == MaxRuns \in Nat /\ MaxRoots \in Nat \ {0}

VARIABLES
  setup,
  stamped,   \* has mdma set kms-identity
  extended,  \* the image's events in RTMR3 since power-on: none, one or more (2)
  disk,      \* the device: attached, signature, LUKS key slot and token, file system
  files,     \* what lies under /mnt/data in each place it may be
  mapper,    \* is /dev/mapper/calimero-data open
  mounted,   \* the source of the mount at /mnt/data
  secret,    \* the identity and key files in /run/calimero-disk
  serving,   \* who holds merod's port for `attest --serve'
  read,      \* the metadata as this run read it
  pc,        \* the script's next command
  runs, kmsRoot, minted, inits   \* counters; inits is history

vars == <<setup, stamped, extended, disk, files, mapper, mounted, secret, serving, read,
          pc, runs, kmsRoot, minted, inits>>

\* A key is derived for an identity from a root.
Key == (0..MaxRuns) \X (0..MaxRoots)
NoKey == <<0, 0>>
NoSecret == [id |-> 0, key |-> NoKey]
NotRead == [kms |-> FALSE, release |-> FALSE, ephemeral |-> FALSE, identity |-> FALSE]

Device ==
  [there : BOOLEAN, sig : Signature, slot : Key, token : 0..MaxRuns,
   fs : {"none", "torn", "ext4"}]

\* Under merod's home: kmsid, the KMS identity file; node, the `merod init' that
\* wrote config.toml (0: none); args, the checked metadata passed to it.
Place == {"disk", "root", "memory"}
Contents ==
  [used : BOOLEAN, tls : BOOLEAN, kmsid : {"none", "cluster", "own"},
   node : 0..MaxRuns, args : SUBSET {"cluster", "governance"}]
Unused == [used |-> FALSE, tls |-> FALSE, kmsid |-> "none", node |-> 0, args |-> {}]

Ended == {"up", "idle", "failed"}
Unlocking == {"format", "wipe", "token", "open_new", "open"}
Steps == Unlocking \cup {"start", "disk", "create", "unlock", "mkfs", "mkfs_run",
           "mount", "plain", "plain_run", "mount_plain", "check", "tls", "merod",
           "node", "gate", "identity", "init"}

TypeOK ==
  /\ setup \in Setup /\ stamped \in BOOLEAN /\ extended \in 0..2
  /\ disk \in Device /\ files \in [Place -> Contents]
  /\ mapper \in BOOLEAN /\ mounted \in {"nothing", "tmpfs", "mapper", "device"}
  /\ secret \in [id : 0..MaxRuns, key : Key]
  /\ serving \in {"no", "gate", "unit"}
  /\ read \in [kms : BOOLEAN, release : BOOLEAN, ephemeral : BOOLEAN, identity : BOOLEAN]
  /\ pc \in Steps \cup Ended \cup {"off"}
  /\ {runs, minted, inits} \subseteq 0..MaxRuns /\ kmsRoot \in 1..MaxRoots

Init ==
  /\ setup \in Setup /\ stamped \in BOOLEAN /\ extended = 0
  /\ \E sig \in Disk, there \in BOOLEAN :
       /\ disk = [there |-> there, sig |-> sig, slot |-> NoKey, token |-> 0,
                  fs |-> IF sig = "ext4" THEN "ext4" ELSE "none"]
       /\ files = [p \in Place |->
                     IF p = "disk" /\ sig = "ext4"
                     THEN [Unused EXCEPT !.used = TRUE, !.tls = TRUE] ELSE Unused]
  /\ mapper = FALSE /\ mounted = "nothing"
  /\ secret = NoSecret /\ serving = "no" /\ read = NotRead /\ pc = "off"
  /\ runs = 0 /\ kmsRoot = 1 /\ minted = 0 /\ inits = 0

----------------------------------------------------------------------------

MayFail(what) == what \in Faults

\* get_meta: a failed read looks like a key that is not set.
Reads(value) == IF MayFail("metadata") THEN {value, FALSE} ELSE {value}

Probes == IF MayFail("probe") THEN {disk.sig, "unknown"} ELSE {disk.sig}

\* Mutant: a probe that fails is taken for a blank device.
BlankOrUnknown(found) == found \in {"blank", "unknown"}

IsBlank(found) == found = "blank"

Locked == setup.profile = "locked"

Here == CASE mounted = "nothing" -> "root"
          [] mounted = "tmpfs"   -> "memory"
          [] OTHER               -> "disk"

\* Mutant: whatever is mounted already is taken for the encrypted disk.
AnyMountEncrypted == CASE read.ephemeral      -> "ephemeral"
                       [] mounted = "nothing" -> "none"
                       [] OTHER               -> "encrypted"

\* DATA_DISK_STATE.
DiskState == CASE read.ephemeral      -> "ephemeral"
               [] mounted = "mapper"  -> "encrypted"
               [] mounted = "nothing" -> "none"
               [] OTHER               -> "plaintext"

\* Mutant: there is no trap for the key.
Kept == secret

Cleaned == NoSecret
\* Mutant: the gate's server is left running.
LeftServing == serving

Stopped == IF serving = "gate" THEN "no" ELSE serving

\* The script ends and its EXIT trap runs.
Exit(end) == pc' = end /\ secret' = Cleaned /\ serving' = Stopped

\* Parts of the state a command leaves alone.
World == <<setup, stamped, extended, runs, kmsRoot>>
Held == <<World, mapper, read, minted, inits>>

\* A command before the node is configured goes wrong.
Fatal == Exit("failed") /\ UNCHANGED <<Held, disk, files, mounted>>

Then(next) == pc' = next /\ UNCHANGED serving

----------------------------------------------------------------------------
(* The environment.                                                        *)

Attach ==
  /\ ~disk.there
  /\ disk' = [disk EXCEPT !.there = TRUE]
  /\ UNCHANGED <<World, files, mapper, mounted, secret, serving, read, pc, minted, inits>>

\* A quote names the image whose one event RTMR3 holds.
NamesImage == extended = 1

\* mdma verifies the release attestation and sends the cluster's identity.
Stamp ==
  /\ ~stamped /\ serving = "gate" /\ NamesImage
  /\ stamped' = TRUE
  /\ UNCHANGED <<setup, extended, disk, files, mapper, mounted, secret, serving, read, pc,
                 runs, kmsRoot, minted, inits>>

NewKmsRoot ==
  /\ kmsRoot < MaxRoots
  /\ kmsRoot' = kmsRoot + 1
  /\ UNCHANGED <<setup, stamped, extended, disk, files, mapper, mounted, secret,
                 serving, read, pc, runs, minted, inits>>

PowerOff ==
  /\ pc # "off"
  /\ pc' = "off" /\ extended' = 0 /\ mapper' = FALSE /\ mounted' = "nothing"
  /\ files' = [files EXCEPT !["root"] = Unused, !["memory"] = Unused]
  /\ secret' = NoSecret /\ serving' = "no" /\ read' = NotRead
  /\ UNCHANGED <<setup, stamped, disk, runs, kmsRoot, minted, inits>>

\* A boot, or the script run again in one boot: it extends RTMR3 first, again
\* where it was extended already.  A locked node stops where that fails.
Run ==
  /\ pc \in Ended \cup {"off"} /\ runs < MaxRuns
  /\ runs' = runs + 1 /\ read' = NotRead
  /\ \/ extended' = (IF extended = 0 THEN 1 ELSE 2) /\ pc' = "start"
     \/ /\ MayFail("command")
        /\ extended' = extended /\ pc' = IF Locked THEN "failed" ELSE "start"
  /\ UNCHANGED <<setup, stamped, disk, files, mapper, mounted, secret, serving,
                 kmsRoot, minted, inits>>

----------------------------------------------------------------------------
(* The data disk.                                                          *)

ReadMetadata ==
  /\ pc = "start"
  /\ \E kms \in Reads(setup.kms), rel \in Reads(setup.release), eph \in Reads(setup.ephemeral) :
       read' = [kms |-> kms, release |-> rel, ephemeral |-> eph, identity |-> FALSE]
  /\ Then("disk")
  /\ UNCHANGED <<World, disk, files, mapper, mounted, secret, minted, inits>>

\* The release floor, the binaries or swap.
RefuseEarly == pc = "start" /\ MayFail("command") /\ Fatal

MountMemory ==
  /\ pc = "disk" /\ read.ephemeral
  /\ mounted' = "tmpfs"
  /\ Then("check") /\ UNCHANGED <<Held, disk, files, secret>>

MemoryNotMounted == pc = "disk" /\ read.ephemeral /\ mounted # "tmpfs" /\ MayFail("command") /\ Fatal

\* /mnt/data is mounted, or holds files; or no device came while it waited.
KeepPlace ==
  /\ pc = "disk" /\ ~read.ephemeral
  /\ mounted # "nothing" \/ files["root"].used \/ ~disk.there
  /\ Then("check") /\ UNCHANGED <<Held, disk, files, mounted, secret>>

\* blank_disk_plan.
Plan == CASE read.kms /\ ~read.release                -> "failed"
          [] read.kms /\ read.release /\ setup.unlocks -> "create"
          [] OTHER -> IF Locked THEN "failed" ELSE "plain"

\* The branch for what the probe found.
Branch(found) ==
  CASE IsBlank(found)  -> Plan
    [] found = "luks" -> IF setup.unlocks /\ read.kms /\ read.release
                         THEN "unlock" ELSE "failed"
    [] found = "ext4" -> "mount_plain"
    [] OTHER          -> "failed"

ProbeDevice ==
  /\ pc = "disk" /\ ~read.ephemeral /\ mounted = "nothing"
  /\ ~files["root"].used /\ disk.there
  /\ \E found \in Probes :
       IF Branch(found) = "failed" THEN Fatal
       ELSE Then(Branch(found)) /\ UNCHANGED <<Held, disk, files, mounted, secret>>

\* fetch_disk_key: the KMS derives a key for an identity from its root, for a quote
\* of an image it knows.
Fetch(id, next) ==
  /\ secret' = [id |-> id, key |-> <<id, kmsRoot>>]
  /\ Then(next)

CreateKey ==
  /\ pc = "create" /\ NamesImage
  /\ minted' = minted + 1 /\ Fetch(minted + 1, "format")
  /\ UNCHANGED <<World, disk, files, mapper, mounted, read, inits>>

NoKeyReleased ==
  pc \in {"create", "unlock"} /\ (MayFail("kms") \/ ~NamesImage) /\ Fatal

\* luksFormat, which begins with the header and then wipes the device.
Format ==
  /\ pc = "format"
  /\ \E found \in Probes :
       IF ~IsBlank(found) THEN Fatal
       ELSE /\ disk' = [disk EXCEPT !.sig = "luks", !.slot = NoKey, !.token = 0, !.fs = "none"]
            /\ files' = [files EXCEPT !["disk"] = Unused]
            /\ Then("wipe") /\ UNCHANGED <<Held, mounted, secret>>

Wiped ==
  /\ pc = "wipe"
  /\ disk' = [disk EXCEPT !.slot = secret.key]
  /\ Then("token") /\ UNCHANGED <<Held, files, mounted, secret>>

\* Mutant: the token is not read back.
StoreTokenUnread ==
  /\ pc = "token"
  /\ \E token \in {secret.id} \cup (IF MayFail("command") THEN {0} ELSE {}) :
       disk' = [disk EXCEPT !.token = token]
  /\ Then("open_new") /\ UNCHANGED <<Held, files, mounted, secret>>

\* Import the token and read it back; it may not have been written.
StoreToken ==
  /\ pc = "token"
  /\ \E token \in {secret.id} \cup (IF MayFail("command") THEN {0} ELSE {}) :
       /\ disk' = [disk EXCEPT !.token = token]
       /\ IF token = secret.id THEN Then("open_new") /\ UNCHANGED secret
                               ELSE Exit("failed")
  /\ UNCHANGED <<Held, files, mounted>>

\* Mutant: a later boot asks for the key of a new identity too.
UnlockCreating ==
  /\ pc = "unlock" /\ NamesImage
  /\ minted' = minted + 1 /\ Fetch(minted + 1, "open")
  /\ UNCHANGED <<World, disk, files, mapper, mounted, read, inits>>

Unlock ==
  /\ pc = "unlock"
  /\ IF disk.token = 0 THEN Fatal
     ELSE /\ NamesImage /\ Fetch(disk.token, "open")
          /\ UNCHANGED <<Held, disk, files, mounted>>

\* open_data_mapper; the key is shredded at once.
OpenMapper ==
  /\ pc \in {"open", "open_new"}
  /\ IF mapper \/ disk.slot = secret.key
     THEN /\ mapper' = TRUE /\ secret' = Cleaned
          /\ Then(IF pc = "open" THEN "mount" ELSE "mkfs")
          /\ UNCHANGED <<World, read, minted, inits, disk, files, mounted>>
     ELSE Fatal

\* mkfs.ext4 on the mapper, or on the device of a debug node.
BeginMkfs ==
  /\ pc \in {"mkfs", "plain"}
  /\ disk' = [disk EXCEPT !.sig = IF pc = "plain" THEN "ext4" ELSE @, !.fs = "torn"]
  /\ files' = [files EXCEPT !["disk"] = Unused]
  /\ Then(IF pc = "plain" THEN "plain_run" ELSE "mkfs_run")
  /\ UNCHANGED <<Held, mounted, secret>>

EndMkfs ==
  /\ pc \in {"mkfs_run", "plain_run"}
  /\ disk' = [disk EXCEPT !.fs = "ext4"]
  /\ Then(IF pc = "plain_run" THEN "mount_plain" ELSE "mount")
  /\ UNCHANGED <<Held, files, mounted, secret>>

\* On the device a failure is logged, and met at the mount.
MkfsFails ==
  /\ pc \in {"mkfs_run", "plain_run"} /\ MayFail("command")
  /\ IF pc = "mkfs_run" THEN Fatal
     ELSE Then("mount_plain") /\ UNCHANGED <<Held, disk, files, mounted, secret>>

\* Mutant: the volume is mounted whatever its probe found.
MountUnprobed ==
  /\ pc \in {"mount", "mount_plain"}
  /\ mounted' = IF pc = "mount" THEN "mapper" ELSE "device"
  /\ Then("check") /\ UNCHANGED <<Held, disk, files, secret>>

MountDisk ==
  /\ pc \in {"mount", "mount_plain"}
  /\ IF disk.fs # "ext4" THEN Fatal
     ELSE /\ mounted' = IF pc = "mount" THEN "mapper" ELSE "device"
          /\ Then("check") /\ UNCHANGED <<Held, disk, files, secret>>

\* luksFormat, the probe or mount of the volume.
DiskFails == pc \in {"format", "wipe", "mount", "mount_plain"} /\ MayFail("command") /\ Fatal

\* Mutant: a missing disk is let through on the locked profile too.
SealedOrMissing == DiskState \in {"encrypted", "ephemeral", "none"}

Sealed == DiskState \in {"encrypted", "ephemeral"}

CheckPlace ==
  /\ pc = "check"
  /\ IF Locked /\ ~Sealed THEN Fatal
     ELSE Then("tls") /\ UNCHANGED <<Held, disk, files, mounted, secret>>

----------------------------------------------------------------------------
(* The node.                                                               *)

Write(new) ==
  /\ files' = [files EXCEPT ![Here] = new]
  /\ UNCHANGED <<World, mapper, minted, disk, mounted, secret>>

\* Without a key the boot goes on; a mode that cannot be set ends it.
MakeTlsKey ==
  /\ pc = "tls"
  /\ \E made \in {TRUE} \cup (IF MayFail("command") THEN {FALSE} ELSE {}) :
       Write([files[Here] EXCEPT !.used = TRUE, !.tls = @ \/ made])
  /\ Then("merod") \/ (MayFail("command") /\ pc' = "failed" /\ serving' = Stopped)
  /\ UNCHANGED <<read, inits>>

MemoryOnly == Here = "memory"

StartWithoutKms ==
  /\ pc = "merod" /\ ~read.kms
  /\ IF Locked /\ ~MemoryOnly THEN Fatal
     ELSE /\ pc' = "idle" /\ serving' = IF setup.attests THEN "unit" ELSE serving
          /\ UNCHANGED <<Held, disk, files, mounted, secret>>

\* A node whose config.toml is there is started as it is.
StartMerod ==
  /\ pc = "merod" /\ read.kms
  /\ CASE ~read.release          -> Fatal
       [] read.release /\ files[Here].node # 0 ->
            Exit("up") /\ UNCHANGED <<Held, disk, files, mounted>>
       [] OTHER -> Then("node") /\ UNCHANGED <<Held, disk, files, mounted, secret>>

\* Every read of `cluster' is another request to the metadata server.
ReadNode ==
  /\ pc = "node"
  /\ \E cluster, again \in Reads(setup.cluster), identity \in Reads(stamped) :
       LET shared == Locked /\ again /\ ~MemoryOnly
           gate == ~identity /\ files[Here].kmsid = "none" /\ shared /\ setup.attests
       IN  IF Locked /\ ~cluster THEN Fatal
           ELSE /\ read' = [read EXCEPT !.identity = identity]
                /\ pc' = IF gate THEN "gate" ELSE "identity"
                /\ serving' = IF gate THEN "gate" ELSE serving
                /\ UNCHANGED <<World, mapper, minted, inits, disk, files, mounted, secret>>

\* node-id or public-url is missing.
NodeNotNamed == pc = "node" /\ MayFail("metadata") /\ Fatal

GateOpens ==
  /\ pc = "gate" /\ stamped
  /\ read' = [read EXCEPT !.identity = TRUE]
  /\ serving' = Stopped /\ pc' = "identity"
  /\ UNCHANGED <<World, mapper, minted, inits, disk, files, mounted, secret>>

\* kms-identity-wait-sec is over.
GateExpires == pc = "gate" /\ (~stamped \/ MayFail("metadata")) /\ Fatal

\* Mutant: nothing is refused after the gate.
NeedsNoIdentity(cluster) == FALSE

NeedsIdentity(cluster) == Locked /\ cluster /\ ~MemoryOnly

InstallIdentity ==
  /\ pc = "identity"
  /\ \E cluster \in Reads(setup.cluster) :
       CASE read.identity ->
              /\ Write([files[Here] EXCEPT !.kmsid = "cluster"])
              /\ Then("init") /\ UNCHANGED <<read, inits>>
         [] ~read.identity /\ NeedsIdentity(cluster) -> Fatal
         [] OTHER -> Then("init") /\ UNCHANGED <<Held, disk, files, mounted, secret>>

\* meta_arg and governance_args, then `merod init'; merod makes an identity of
\* its own where none was installed.
InitNode ==
  /\ pc = "init"
  /\ \E cluster \in Reads(setup.cluster), governance \in Reads(TRUE) :
       /\ inits' = inits + 1
       /\ Write([files[Here] EXCEPT
            !.node = inits + 1,
            !.kmsid = IF @ = "none" THEN "own" ELSE @,
            !.args = (IF cluster THEN {"cluster"} ELSE {})
                     \cup (IF governance THEN {"governance"} ELSE {})])
  /\ pc' = "up" /\ UNCHANGED <<read, serving>>

\* The TLS directory, the identity's file or `merod init'.
InitFails == pc \in {"tls", "identity", "init"} /\ MayFail("command") /\ Fatal

----------------------------------------------------------------------------

DiskStep ==
  \/ ReadMetadata \/ RefuseEarly \/ MountMemory \/ MemoryNotMounted \/ KeepPlace
  \/ ProbeDevice \/ CreateKey \/ NoKeyReleased \/ Format \/ Wiped \/ StoreToken
  \/ Unlock \/ OpenMapper \/ BeginMkfs \/ EndMkfs \/ MkfsFails \/ MountDisk
  \/ DiskFails \/ CheckPlace

NodeStep ==
  \/ MakeTlsKey \/ StartWithoutKms \/ StartMerod \/ ReadNode \/ NodeNotNamed
  \/ GateOpens \/ GateExpires \/ InstallIdentity \/ InitNode \/ InitFails

Next == DiskStep \/ NodeStep \/ Attach \/ Stamp \/ NewKmsRoot \/ PowerOff \/ Run

Spec == Init /\ [][Next]_vars

\* The script runs on; its waits are bounded.
FairSpec == Spec /\ WF_vars(DiskStep) /\ WF_vars(NodeStep)

----------------------------------------------------------------------------
(* Properties.                                                             *)

\* What the data disk holds is never lost: no failed probe, interrupted format,
\* wrong key or second run ends in a format of it, and a node once initialised
\* there is not initialised again (probe_signature, format_encrypted_data_disk).
KeepsState ==
  [][LET was == files["disk"]
         now == files'["disk"]
     IN  /\ was.used => now.used
         /\ was.tls => now.tls
         /\ was.node # 0 => now.node = was.node /\ now.kmsid = was.kmsid
                              /\ now.args = was.args]_vars

\* A disk that holds anything can be opened again: its header names the identity
\* its key slot was made for, and the volume holds the file system
\* (format_encrypted_data_disk, "written and read back BEFORE any data").
Reopenable ==
  disk.sig = "luks" /\ files["disk"] # Unused =>
    /\ disk.token # 0 /\ disk.slot[1] = disk.token
    /\ disk.fs = "ext4"

\* On the locked profile a node's configuration and KMS identity are in memory
\* or on the encrypted disk, whatever this run or an earlier one in the same
\* boot mounted before it was refused (the check before the TLS material).
LockedStateSealed ==
  Locked => \A p \in DOMAIN files :
    files[p].node # 0 \/ files[p].kmsid # "none" =>
      p = "memory" \/ (p = "disk" /\ disk.sig = "luks")

\* The disk's key and identity are in /run only until the disk is open, however
\* the script ends (disk_secrets_cleanup and its trap).
SecretsGone == secret # NoSecret => pc \in Unlocking

\* A locked node that keeps its state is initialised once in its life.
InitialisedOnce == Locked /\ ~setup.ephemeral => inits <= 1

\* A locked node of a cluster is never configured with a KMS identity of its
\* own, so it derives its cluster's storage key (kms_identity_gate and the
\* refusal after it).
SharesClusterIdentity ==
  Locked /\ files["disk"].node # 0 => files["disk"].kmsid = "cluster"

\* When merod is started nothing else answers on its port, even after a gate
\* that expired and a second run (attest_serve_stop).
PortIsFree == pc = "up" => serving = "no"

\* A boot of a node whose disk holds its configuration starts merod on it,
\* unless the power goes (unlock_encrypted_data_disk to the end).
StateComesBack ==
  (pc = "start" /\ files["disk"].node # 0)
    ~> (pc = "off" \/ (pc = "up" /\ Here = "disk"))

----------------------------------------------------------------------------
(* The inductive invariant, by parts.                                      *)

Formatting == {"create", "format", "wipe", "token", "open_new", "mkfs", "mkfs_run"}
OnVolume == {"wipe", "token", "unlock", "open_new", "open", "mkfs", "mkfs_run", "mount"}
OnDevice == {"plain", "plain_run", "mount_plain"}
Configuring == {"node", "gate", "identity", "init"}

\* A run mints one identity and initialises merod once, at most.
CountInv ==
  /\ minted <= runs /\ (pc \in {"start", "disk", "create"} => minted < runs)
  /\ inits <= runs /\ (pc \in Steps => inits < runs)

\* What the device's header says of what is on it.
DiskInv ==
  /\ disk.sig = "blank" => files["disk"] = Unused
  /\ disk.sig = "luks" /\ disk.token # 0 => disk.slot[1] = disk.token
  /\ mapper => disk.sig = "luks" /\ disk.token # 0
  /\ mounted = "mapper" => mapper /\ disk.fs = "ext4"
  /\ mounted = "device" => disk.sig = "ext4"

\* What the script knows at each command, from those before it.
ProgressInv ==
  /\ pc \in Formatting \cup OnVolume \cup OnDevice =>
       mounted = "nothing" /\ ~read.ephemeral
  /\ pc \in {"create", "format", "plain"} => disk.sig = "blank"
  /\ pc \in OnVolume => disk.sig = "luks"
  /\ pc \in {"plain_run", "mount_plain"} => disk.sig = "ext4"
  /\ pc \in (Formatting \ {"create", "format"}) \cup {"plain_run"} =>
       files["disk"] = Unused
  /\ pc \in Unlocking => secret.id # 0
  /\ secret.key[1] = secret.id
  /\ pc \in {"wipe", "token"} => disk.token = 0
  /\ pc = "token" => disk.slot = secret.key
  /\ pc \in {"open_new", "open"} => disk.token = secret.id
  /\ pc \in {"mkfs", "mkfs_run", "mount"} => mapper
  /\ pc \in Configuring => files[Here].node = 0

BootInv ==
  /\ TypeOK /\ CountInv /\ DiskInv /\ ProgressInv
  /\ Reopenable /\ SecretsGone

\* On the locked profile, what the script goes on with after its check of where
\* the state will be; and a node that keeps its state is the one on the disk.
SealInv ==
  Locked =>
    /\ pc = "check" /\ read.ephemeral => mounted = "tmpfs"
    /\ pc \in {"tls", "merod"} \cup Configuring => mounted \in {"tmpfs", "mapper"}
    /\ ~setup.ephemeral =>
         /\ ~read.ephemeral /\ mounted # "tmpfs"
         /\ inits = 0 \/ files["disk"].node # 0

\* A disk that holds anything is one whose key slot, token and file system were
\* written before it, and a locked node's state is on no other; the rest says why
\* the script's order makes that last.
IInv == BootInv /\ SealInv /\ LockedStateSealed /\ InitialisedOnce
=============================================================================
