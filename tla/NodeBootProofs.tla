--------------------------- MODULE NodeBootProofs ---------------------------
(***************************************************************************)
(* The inductive invariant of NodeBoot and what follows from it, for any   *)
(* setups, disks and faults and any number of runs and KMS roots.          *)
(***************************************************************************)
EXTENDS NodeBoot, TLAPS

LEMMA Bounds == MaxRuns \in Nat /\ MaxRoots \in Nat /\ MaxRoots >= 1
BY BoundAssumption

LEMMA SetupType == TypeOK => setup \in Setups
BY SetupAssumption DEF TypeOK

LEMMA NoSecretType == NoSecret \in [id : 0..MaxRuns, key : Key]
BY Bounds DEF NoSecret, NoKey, Key

LEMMA NoKeyType == NoKey \in Key
BY Bounds DEF NoKey, Key

LEMMA HereType == TypeOK => Here \in Place /\ files[Here] \in Contents
BY DEF TypeOK, Here, Place

LEMMA UnusedType == Unused \in Contents
BY Bounds DEF Unused, Contents

\* What is on the device is as safe as it was when nothing of it changes.
LEMMA DeviceKept ==
  ASSUME BootInv, UNCHANGED <<disk, files, mapper, mounted>>
  PROVE  DiskInv' /\ Reopenable'
BY DEF BootInv, DiskInv, Reopenable

LEMMA FatalInv == ASSUME BootInv, Fatal PROVE BootInv'
<1> USE DEF Fatal, Exit, Cleaned, Stopped, Held, World
<1>1. TypeOK'
  BY NoSecretType DEF BootInv, TypeOK, Ended
<1>2. CountInv'
  BY DEF BootInv, CountInv, Steps, Unlocking
<1>3. DiskInv' /\ Reopenable'
  BY DeviceKept
<1>4. ProgressInv'
  BY DEF BootInv, ProgressInv, Unlocking, Formatting, OnVolume, OnDevice, Configuring,
     NoSecret, NoKey
<1>5. SecretsGone'
  BY DEF SecretsGone
<1> QED
  BY <1>1, <1>2, <1>3, <1>4, <1>5 DEF BootInv

\* A write under /mnt/data lands on the disk only through a mount of it, so on a
\* disk that can be opened again.
LEMMA WriteSafe ==
  ASSUME BootInv, NEW new \in Contents, Write(new)
  PROVE  files' \in [Place -> Contents] /\ DiskInv' /\ Reopenable'
<1>1. files \in [Place -> Contents] /\ Here \in Place /\ files' = [files EXCEPT ![Here] = new]
  BY HereType DEF BootInv, TypeOK, Write
<1>2. files' \in [Place -> Contents]
  BY <1>1
<1>3. UNCHANGED <<disk, mapper, mounted>>
  BY DEF Write
<1>4. CASE Here # "disk"
  <2>1. files'["disk"] = files["disk"]
    BY <1>1, <1>4 DEF Place
  <2> QED
    BY <1>2, <1>3, <2>1 DEF BootInv, DiskInv, Reopenable
<1>5. CASE Here = "disk"
  <2>1. mounted \in {"mapper", "device"}
    BY <1>5 DEF BootInv, TypeOK, Here
  <2> QED
    BY <1>2, <1>3, <2>1 DEF BootInv, DiskInv, Reopenable
<1> QED
  BY <1>4, <1>5




-----------------------------------------------------------------------------
(* The environment's steps and the data disk.  A command that fails is     *)
(* FatalInv; what is left of each lemma is the command done.                *)

LEMMA AttachInv == ASSUME BootInv, Attach PROVE BootInv'
<1>1. TypeOK'
  <2>1. disk' \in Device
    BY Bounds DEF Attach, BootInv, TypeOK, Device
  <2> QED
    BY <2>1, Bounds DEF Attach, World, BootInv, TypeOK, Steps, Ended, Unlocking
<1>2. CountInv'
  BY Bounds DEF Attach, World, BootInv, CountInv
<1>3. DiskInv'
  BY DEF Attach, BootInv, DiskInv
<1>4. Reopenable'
  BY DEF Attach, BootInv, Reopenable
<1>5. ProgressInv'
  BY DEF Attach, BootInv, ProgressInv, Here
<1>6. SecretsGone'
  BY DEF Attach, BootInv, SecretsGone
<1> QED
  BY <1>1, <1>2, <1>3, <1>4, <1>5, <1>6 DEF BootInv

LEMMA StampInv == ASSUME BootInv, Stamp PROVE BootInv'
<1>1. TypeOK'
  BY Bounds DEF Stamp, BootInv, TypeOK
<1>2. CountInv'
  BY Bounds DEF Stamp, BootInv, CountInv
<1>3. DiskInv' /\ Reopenable'
  BY DeviceKept DEF Stamp
<1>4. ProgressInv'
  BY DEF Stamp, BootInv, ProgressInv, Here
<1>5. SecretsGone'
  BY DEF Stamp, BootInv, SecretsGone
<1> QED
  BY <1>1, <1>2, <1>3, <1>4, <1>5 DEF BootInv

LEMMA NewKmsRootInv == ASSUME BootInv, NewKmsRoot PROVE BootInv'
<1>1. TypeOK'
  BY Bounds DEF NewKmsRoot, BootInv, TypeOK
<1>2. CountInv'
  BY Bounds DEF NewKmsRoot, BootInv, CountInv
<1>3. DiskInv' /\ Reopenable'
  BY DeviceKept DEF NewKmsRoot
<1>4. ProgressInv'
  BY DEF NewKmsRoot, BootInv, ProgressInv, Here
<1>5. SecretsGone'
  BY DEF NewKmsRoot, BootInv, SecretsGone
<1> QED
  BY <1>1, <1>2, <1>3, <1>4, <1>5 DEF BootInv

LEMMA PowerOffInv == ASSUME BootInv, PowerOff PROVE BootInv'
<1>1. TypeOK'
  <2>1. files' \in [Place -> Contents]
    BY UnusedType DEF PowerOff, BootInv, TypeOK
  <2>2. extended' \in 0..2
    BY DEF PowerOff
  <2> QED
    BY <2>1, <2>2, NoSecretType DEF PowerOff, BootInv, TypeOK, NotRead
<1>2. CountInv'
  BY Bounds DEF PowerOff, BootInv, CountInv, Steps, Unlocking
<1>3. DiskInv'
  BY DEF PowerOff, BootInv, TypeOK, DiskInv, Place
<1>4. Reopenable'
  BY DEF PowerOff, BootInv, TypeOK, Reopenable, Place
<1>5. ProgressInv'
  BY DEF PowerOff, BootInv, ProgressInv, Formatting, OnVolume, OnDevice, Configuring,
     Unlocking, NoSecret, NoKey
<1>6. SecretsGone'
  BY DEF PowerOff, BootInv, SecretsGone
<1> QED
  BY <1>1, <1>2, <1>3, <1>4, <1>5, <1>6 DEF BootInv

LEMMA RunInv == ASSUME BootInv, Run PROVE BootInv'
<1>1. TypeOK'
  <2>1. extended' \in 0..2
    BY DEF Run, BootInv, TypeOK
  <2>2. runs' \in 0..MaxRuns /\ pc' \in {"start", "failed"}
    BY Bounds DEF Run, BootInv, TypeOK
  <2> QED
    BY <2>1, <2>2 DEF Run, BootInv, TypeOK, NotRead, Steps, Ended
<1>2. CountInv'
  BY Bounds DEF Run, BootInv, TypeOK, CountInv
<1>3. DiskInv' /\ Reopenable'
  BY DeviceKept DEF Run
<1>4. ProgressInv'
  BY DEF Run, BootInv, ProgressInv, Formatting, OnVolume, OnDevice, Configuring,
     Unlocking
<1>5. SecretsGone'
  BY DEF Run, BootInv, SecretsGone, Unlocking, Ended
<1> QED
  BY <1>1, <1>2, <1>3, <1>4, <1>5 DEF BootInv

LEMMA ReadMetadataInv == ASSUME BootInv, ReadMetadata PROVE BootInv'
<1>1. TypeOK'
  <2>1. \A value \in BOOLEAN : Reads(value) \subseteq BOOLEAN
    BY DEF Reads
  <2>2. {setup.kms, setup.release, setup.ephemeral} \subseteq BOOLEAN
    BY SetupType DEF BootInv, Setups
  <2>3. read' \in [kms : BOOLEAN, release : BOOLEAN, ephemeral : BOOLEAN, identity : BOOLEAN]
    BY <2>1, <2>2 DEF ReadMetadata
  <2> QED
    BY <2>3 DEF ReadMetadata, BootInv, TypeOK, Steps, Unlocking, Then, World
<1>2. CountInv'
  BY Bounds DEF ReadMetadata, BootInv, CountInv, Steps, World
<1>3. DiskInv' /\ Reopenable'
  BY DeviceKept DEF ReadMetadata
<1>4. ProgressInv'
  BY DEF ReadMetadata, BootInv, ProgressInv, Formatting, OnVolume, OnDevice,
     Configuring, Unlocking, Then
<1>5. SecretsGone'
  BY DEF ReadMetadata, BootInv, SecretsGone, Unlocking
<1> QED
  BY <1>1, <1>2, <1>3, <1>4, <1>5 DEF BootInv

LEMMA MountMemoryInv == ASSUME BootInv, MountMemory PROVE BootInv'
<1>1. TypeOK'
  BY Bounds DEF MountMemory, BootInv, TypeOK, Steps, Then, Held, World
<1>2. CountInv'
  BY Bounds DEF MountMemory, BootInv, CountInv, Steps, Held, World
<1>3. DiskInv'
  BY DEF MountMemory, BootInv, DiskInv, Held
<1>4. Reopenable'
  BY DEF MountMemory, BootInv, Reopenable
<1>5. ProgressInv'
  BY DEF MountMemory, BootInv, ProgressInv, Formatting, OnVolume, OnDevice, Configuring,
     Unlocking, Then
<1>6. SecretsGone'
  BY DEF MountMemory, BootInv, SecretsGone, Unlocking
<1> QED
  BY <1>1, <1>2, <1>3, <1>4, <1>5, <1>6 DEF BootInv

LEMMA KeepPlaceInv == ASSUME BootInv, KeepPlace PROVE BootInv'
<1>1. TypeOK'
  BY Bounds DEF KeepPlace, BootInv, TypeOK, Steps, Then, Held, World
<1>2. CountInv'
  BY Bounds DEF KeepPlace, BootInv, CountInv, Steps, Held, World
<1>3. DiskInv' /\ Reopenable'
  BY DeviceKept DEF KeepPlace, Held
<1>4. ProgressInv'
  BY DEF KeepPlace, BootInv, ProgressInv, Formatting, OnVolume, OnDevice, Configuring,
     Unlocking, Then
<1>5. SecretsGone'
  BY DEF KeepPlace, BootInv, SecretsGone, Unlocking
<1> QED
  BY <1>1, <1>2, <1>3, <1>4, <1>5 DEF BootInv

LEMMA ProbeDeviceInv == ASSUME BootInv, ProbeDevice PROVE BootInv'
<1> SUFFICES ASSUME ~Fatal PROVE BootInv'
  BY FatalInv
<1>1. TypeOK'
  BY Bounds DEF ProbeDevice, BootInv, TypeOK, Steps, Branch, Plan, Then, Held, World
<1>2. CountInv'
  BY Bounds DEF ProbeDevice, BootInv, CountInv, Steps, Held, World
<1>3. DiskInv' /\ Reopenable'
  BY DeviceKept DEF ProbeDevice, Held
<1>4. ProgressInv'
  BY DEF ProbeDevice, BootInv, ProgressInv, Formatting, OnVolume, Configuring,
     Unlocking, Probes, Branch, IsBlank, Plan, Then, Held
<1>5. SecretsGone'
  BY DEF ProbeDevice, BootInv, SecretsGone, Unlocking
<1> QED
  BY <1>1, <1>2, <1>3, <1>4, <1>5 DEF BootInv

LEMMA CreateKeyInv == ASSUME BootInv, CreateKey PROVE BootInv'
<1>1. TypeOK'
  BY Bounds DEF CreateKey, BootInv, TypeOK, Key, CountInv, Steps, Unlocking, Fetch,
     Then, World
<1>2. CountInv'
  BY Bounds DEF CreateKey, BootInv, TypeOK, CountInv, Steps, Fetch, Then, World
<1>3. DiskInv' /\ Reopenable'
  BY DeviceKept DEF CreateKey
<1>4. ProgressInv'
  BY DEF CreateKey, BootInv, TypeOK, ProgressInv, Formatting, OnVolume, Configuring,
     Fetch, Then
<1>5. SecretsGone'
  BY DEF CreateKey, BootInv, SecretsGone, Unlocking, Fetch, Then
<1> QED
  BY <1>1, <1>2, <1>3, <1>4, <1>5 DEF BootInv

LEMMA FormatInv == ASSUME BootInv, Format PROVE BootInv'
<1> SUFFICES ASSUME ~Fatal PROVE BootInv'
  BY FatalInv DEF Format
<1>1. /\ pc = "format" /\ pc' = "wipe" /\ files' = [files EXCEPT !["disk"] = Unused]
      /\ disk' = [disk EXCEPT !.sig = "luks", !.slot = NoKey, !.token = 0, !.fs = "none"]
      /\ UNCHANGED <<setup, stamped, extended, runs, kmsRoot, mapper, read, minted,
                      inits, mounted, secret, serving>>
  BY DEF Format, Then, Held, World
<1>2. disk \in Device /\ files \in [Place -> Contents]
  BY DEF BootInv, TypeOK
<1>3. disk'.sig = "luks" /\ disk'.token = 0 /\ files'["disk"] = Unused
  BY <1>1, <1>2 DEF Device, Place
<1>4. mounted = "nothing" /\ ~mapper
  BY <1>1 DEF BootInv, ProgressInv, DiskInv, Formatting
<1>5. TypeOK'
  <2>1. disk' \in Device
    <3>1. disk' = [there |-> disk.there, sig |-> "luks", slot |-> NoKey, token |-> 0,
                   fs |-> "none"]
      BY <1>1, <1>2 DEF Device
    <3>2. disk.there \in BOOLEAN
      BY <1>2 DEF Device
    <3> QED
      BY <3>1, <3>2, NoKeyType, Bounds DEF Device, Signature
  <2>2. files' \in [Place -> Contents]
    BY <1>1, <1>2, UnusedType
  <2> QED
    BY <1>1, <2>1, <2>2 DEF BootInv, TypeOK, Steps, Unlocking
<1>6. CountInv'
  BY <1>1 DEF BootInv, CountInv, Steps, Unlocking
<1>7. DiskInv' /\ Reopenable'
  BY <1>1, <1>3, <1>4 DEF DiskInv, Reopenable
<1>8. ProgressInv'
  BY <1>1, <1>3, <1>4 DEF BootInv, ProgressInv, Formatting, OnVolume, OnDevice, Configuring,
     Unlocking
<1>9. SecretsGone'
  BY <1>1 DEF SecretsGone, Unlocking
<1> QED
  BY <1>5, <1>6, <1>7, <1>8, <1>9 DEF BootInv

LEMMA WipedInv == ASSUME BootInv, Wiped PROVE BootInv'
<1>1. TypeOK'
  <2>1. disk' \in Device
    BY Bounds DEF Wiped, BootInv, TypeOK, Device
  <2> QED
    BY <2>1, Bounds DEF Wiped, BootInv, TypeOK, Steps, Ended, Unlocking, Then, Held,
       World
<1>2. CountInv'
  BY Bounds DEF Wiped, BootInv, CountInv, Steps, Unlocking, Then, Held, World
<1>3. DiskInv'
  BY DEF Wiped, BootInv, DiskInv, ProgressInv, Held
<1>4. Reopenable'
  BY DEF Wiped, BootInv, ProgressInv, Reopenable
<1>5. ProgressInv'
  BY DEF Wiped, BootInv, ProgressInv, Formatting, OnVolume, Configuring, Unlocking,
     Then, Held
<1>6. SecretsGone'
  BY DEF Wiped, BootInv, SecretsGone, Unlocking, Then
<1> QED
  BY <1>1, <1>2, <1>3, <1>4, <1>5, <1>6 DEF BootInv

LEMMA StoreTokenInv == ASSUME BootInv, StoreToken PROVE BootInv'
<1>1. TypeOK'
  <2>1. disk' \in Device
    BY Bounds DEF StoreToken, BootInv, TypeOK, Device
  <2> QED
    BY <2>1, NoSecretType DEF StoreToken, BootInv, TypeOK, Steps, Ended, Unlocking,
       MayFail, Then, Exit, Cleaned, Stopped, Held, World
<1>2. CountInv'
  BY Bounds DEF StoreToken, BootInv, CountInv, Steps, Unlocking, Then, Exit, Held, World
<1>3. DiskInv'
  BY DEF StoreToken, BootInv, DiskInv, ProgressInv, Held
<1>4. Reopenable'
  BY DEF StoreToken, BootInv, ProgressInv, Reopenable
<1>5. ProgressInv'
  BY DEF StoreToken, BootInv, ProgressInv, Formatting, OnVolume, Configuring, Unlocking,
     NoSecret, NoKey, Then, Exit, Cleaned, Held
<1>6. SecretsGone'
  BY DEF StoreToken, BootInv, SecretsGone, Unlocking, Then, Exit, Cleaned
<1> QED
  BY <1>1, <1>2, <1>3, <1>4, <1>5, <1>6 DEF BootInv

LEMMA UnlockInv == ASSUME BootInv, Unlock PROVE BootInv'
<1> SUFFICES ASSUME ~Fatal PROVE BootInv'
  BY FatalInv
<1>1. TypeOK'
  BY Bounds DEF Unlock, BootInv, TypeOK, Key, Device, Steps, Unlocking, Fetch, Then,
     Held, World
<1>2. CountInv'
  BY Bounds DEF Unlock, BootInv, CountInv, Steps, Fetch, Then, Held, World
<1>3. DiskInv' /\ Reopenable'
  BY DeviceKept DEF Unlock, Held
<1>4. ProgressInv'
  BY DEF Unlock, BootInv, ProgressInv, Formatting, OnVolume, Configuring, Fetch, Then,
     Held
<1>5. SecretsGone'
  BY DEF Unlock, BootInv, SecretsGone, Unlocking, Fetch, Then
<1> QED
  BY <1>1, <1>2, <1>3, <1>4, <1>5 DEF BootInv

LEMMA OpenMapperInv == ASSUME BootInv, OpenMapper PROVE BootInv'
<1> SUFFICES ASSUME ~Fatal PROVE BootInv'
  BY FatalInv
<1>1. TypeOK'
  BY NoSecretType DEF OpenMapper, BootInv, TypeOK, Steps, Cleaned, Then, World
<1>2. CountInv'
  BY Bounds DEF OpenMapper, BootInv, CountInv, Steps, Unlocking, Then, World
<1>3. DiskInv'
  BY DEF OpenMapper, BootInv, DiskInv, ProgressInv, OnVolume, Unlocking
<1>4. Reopenable'
  BY DEF OpenMapper, BootInv, Reopenable
<1>5. ProgressInv'
  BY DEF OpenMapper, BootInv, ProgressInv, Formatting, OnVolume, Configuring, Unlocking,
     NoSecret, NoKey, Cleaned, Then
<1>6. SecretsGone'
  BY DEF OpenMapper, BootInv, SecretsGone, Cleaned
<1> QED
  BY <1>1, <1>2, <1>3, <1>4, <1>5, <1>6 DEF BootInv

LEMMA BeginMkfsInv == ASSUME BootInv, BeginMkfs PROVE BootInv'
<1>1. TypeOK'
  <2>1. disk' \in Device
    BY Bounds DEF BeginMkfs, BootInv, TypeOK, Device, Signature
  <2>2. files' \in [Place -> Contents]
    BY UnusedType DEF BeginMkfs, BootInv, TypeOK
  <2> QED
    BY <2>1, <2>2, Bounds DEF BeginMkfs, BootInv, TypeOK, Steps, Ended, Unlocking, Then,
       Held, World
<1>2. CountInv'
  BY Bounds DEF BeginMkfs, BootInv, CountInv, Steps, Then, Held, World
<1>3. DiskInv'
  BY DEF BeginMkfs, BootInv, DiskInv, ProgressInv, OnVolume, Held
<1>4. Reopenable'
  BY DEF BeginMkfs, BootInv, ProgressInv, Reopenable, Formatting
<1>5. ProgressInv'
  BY DEF BeginMkfs, BootInv, ProgressInv, DiskInv, Formatting, OnVolume, OnDevice,
     Configuring, Unlocking, Then, Held
<1>6. SecretsGone'
  BY DEF BeginMkfs, BootInv, SecretsGone, Unlocking
<1> QED
  BY <1>1, <1>2, <1>3, <1>4, <1>5, <1>6 DEF BootInv

LEMMA EndMkfsInv == ASSUME BootInv, EndMkfs PROVE BootInv'
<1>1. TypeOK'
  <2>1. disk' \in Device
    BY Bounds DEF EndMkfs, BootInv, TypeOK, Device
  <2> QED
    BY <2>1, Bounds DEF EndMkfs, BootInv, TypeOK, Steps, Ended, Unlocking, Then, Held,
       World
<1>2. CountInv'
  BY Bounds DEF EndMkfs, BootInv, CountInv, Steps, Then, Held, World
<1>3. DiskInv'
  BY DEF EndMkfs, BootInv, DiskInv, Held
<1>4. Reopenable'
  BY DEF EndMkfs, BootInv, Reopenable
<1>5. ProgressInv'
  BY DEF EndMkfs, BootInv, ProgressInv, Formatting, OnVolume, OnDevice, Configuring,
     Unlocking, Then, Held
<1>6. SecretsGone'
  BY DEF EndMkfs, BootInv, SecretsGone, Unlocking
<1> QED
  BY <1>1, <1>2, <1>3, <1>4, <1>5, <1>6 DEF BootInv

LEMMA MkfsFailsInv == ASSUME BootInv, MkfsFails PROVE BootInv'
<1> SUFFICES ASSUME ~Fatal PROVE BootInv'
  BY FatalInv
<1>1. TypeOK'
  BY Bounds DEF MkfsFails, BootInv, TypeOK, Steps, Then, Held, World
<1>2. CountInv'
  BY Bounds DEF MkfsFails, BootInv, CountInv, Steps, Then, Held, World
<1>3. DiskInv' /\ Reopenable'
  BY DeviceKept DEF MkfsFails, Held
<1>4. ProgressInv'
  BY DEF MkfsFails, BootInv, ProgressInv, OnVolume, OnDevice, Configuring, Unlocking,
     Then, Held
<1>5. SecretsGone'
  BY DEF MkfsFails, BootInv, SecretsGone, Unlocking
<1> QED
  BY <1>1, <1>2, <1>3, <1>4, <1>5 DEF BootInv

LEMMA MountDiskInv == ASSUME BootInv, MountDisk PROVE BootInv'
<1> SUFFICES ASSUME ~Fatal PROVE BootInv'
  BY FatalInv
<1>1. TypeOK'
  BY Bounds DEF MountDisk, BootInv, TypeOK, Steps, Then, Held, World
<1>2. CountInv'
  BY Bounds DEF MountDisk, BootInv, CountInv, Steps, Then, Held, World
<1>3. DiskInv'
  BY DEF MountDisk, BootInv, DiskInv, ProgressInv, Held
<1>4. Reopenable'
  BY DEF MountDisk, BootInv, Reopenable
<1>5. ProgressInv'
  BY DEF MountDisk, BootInv, ProgressInv, Formatting, OnVolume, OnDevice, Configuring,
     Unlocking, Then
<1>6. SecretsGone'
  BY DEF MountDisk, BootInv, SecretsGone, Unlocking
<1> QED
  BY <1>1, <1>2, <1>3, <1>4, <1>5, <1>6 DEF BootInv

LEMMA CheckPlaceInv == ASSUME BootInv, CheckPlace PROVE BootInv'
<1> SUFFICES ASSUME ~Fatal PROVE BootInv'
  BY FatalInv
<1>1. TypeOK'
  BY Bounds DEF CheckPlace, BootInv, TypeOK, Steps, Then, Held, World
<1>2. CountInv'
  BY Bounds DEF CheckPlace, BootInv, CountInv, Steps, Then, Held, World
<1>3. DiskInv' /\ Reopenable'
  BY DeviceKept DEF CheckPlace, Held
<1>4. ProgressInv'
  BY DEF CheckPlace, BootInv, ProgressInv, Formatting, OnVolume, OnDevice, Configuring,
     Unlocking, Then
<1>5. SecretsGone'
  BY DEF CheckPlace, BootInv, SecretsGone, Unlocking
<1> QED
  BY <1>1, <1>2, <1>3, <1>4, <1>5 DEF BootInv

-----------------------------------------------------------------------------
(* The node.                                                               *)

LEMMA MakeTlsKeyInv == ASSUME BootInv, MakeTlsKey PROVE BootInv'
<1>1. PICK made \in BOOLEAN : Write([files[Here] EXCEPT !.used = TRUE, !.tls = @ \/ made])
  BY DEF MakeTlsKey
<1>2. /\ pc = "tls" /\ pc' \in {"merod", "failed"} /\ serving' \in {"no", serving}
      /\ UNCHANGED <<read, inits>>
  BY DEF MakeTlsKey, Then, Stopped
<1>3. UNCHANGED <<World, mapper, minted, disk, mounted, secret>>
  BY <1>1 DEF Write
<1>4. [files[Here] EXCEPT !.used = TRUE, !.tls = @ \/ made] \in Contents
  BY HereType DEF BootInv, Contents
<1>5. files' \in [Place -> Contents] /\ DiskInv' /\ Reopenable'
  BY <1>1, <1>4, WriteSafe
<1>6. TypeOK'
  BY <1>2, <1>3, <1>5 DEF World, BootInv, TypeOK, Steps, Ended
<1>7. CountInv'
  BY <1>2, <1>3 DEF World, BootInv, CountInv, Steps, Unlocking
<1>8. ProgressInv'
  BY <1>2, <1>3 DEF BootInv, ProgressInv, Formatting, OnVolume, OnDevice, Configuring, Unlocking
<1>9. SecretsGone'
  BY <1>2, <1>3 DEF BootInv, SecretsGone, Unlocking
<1> QED
  BY <1>5, <1>6, <1>7, <1>8, <1>9 DEF BootInv

LEMMA StartWithoutKmsInv == ASSUME BootInv, StartWithoutKms PROVE BootInv'
<1> SUFFICES ASSUME ~Fatal PROVE BootInv'
  BY FatalInv
<1>1. TypeOK'
  BY Bounds DEF StartWithoutKms, BootInv, TypeOK, Ended, Held, World
<1>2. CountInv'
  BY Bounds DEF StartWithoutKms, BootInv, CountInv, Steps, Held, World
<1>3. DiskInv' /\ Reopenable'
  BY DeviceKept DEF StartWithoutKms, Held
<1>4. ProgressInv'
  BY DEF StartWithoutKms, BootInv, ProgressInv, Formatting, OnVolume, OnDevice,
     Configuring, Unlocking
<1>5. SecretsGone'
  BY DEF StartWithoutKms, BootInv, SecretsGone, Unlocking
<1> QED
  BY <1>1, <1>2, <1>3, <1>4, <1>5 DEF BootInv

LEMMA StartMerodInv == ASSUME BootInv, StartMerod PROVE BootInv'
<1> SUFFICES ASSUME ~Fatal PROVE BootInv'
  BY FatalInv
<1>1. TypeOK'
  BY NoSecretType DEF StartMerod, BootInv, TypeOK, Steps, Ended, Exit, Cleaned, Stopped,
     Held, World, Then
<1>2. CountInv'
  BY Bounds DEF StartMerod, BootInv, CountInv, Steps, Exit, Held, World, Then
<1>3. DiskInv' /\ Reopenable'
  BY DeviceKept DEF StartMerod, Held
<1>4. ProgressInv'
  BY DEF StartMerod, BootInv, ProgressInv, Here, Formatting, OnVolume, OnDevice,
     Configuring, Unlocking, NoSecret, NoKey, Exit, Cleaned, Then
<1>5. SecretsGone'
  BY DEF StartMerod, BootInv, SecretsGone, Unlocking, Exit, Cleaned
<1> QED
  BY <1>1, <1>2, <1>3, <1>4, <1>5 DEF BootInv

LEMMA ReadNodeInv == ASSUME BootInv, ReadNode PROVE BootInv'
<1> SUFFICES ASSUME ~Fatal PROVE BootInv'
  BY FatalInv
<1>1. TypeOK'
  <2>1. /\ read' = [read EXCEPT !.identity = read'.identity]
        /\ read'.identity \in BOOLEAN
    BY DEF ReadNode, BootInv, TypeOK, Reads
  <2>2. pc' \in {"gate", "identity"} /\ serving' \in {serving, "gate"}
    BY DEF ReadNode
  <2>3. UNCHANGED <<World, mapper, minted, inits, disk, files, mounted, secret>>
    BY DEF ReadNode
  <2> QED
    BY <2>1, <2>2, <2>3 DEF BootInv, TypeOK, Steps, World
<1>2. CountInv'
  BY Bounds DEF ReadNode, BootInv, CountInv, Steps, World
<1>3. DiskInv' /\ Reopenable'
  BY DeviceKept DEF ReadNode
<1>4. ProgressInv'
  BY DEF ReadNode, BootInv, ProgressInv, Here, Formatting, OnVolume, OnDevice,
     Configuring, Unlocking
<1>5. SecretsGone'
  BY DEF ReadNode, BootInv, SecretsGone, Unlocking
<1> QED
  BY <1>1, <1>2, <1>3, <1>4, <1>5 DEF BootInv

LEMMA GateOpensInv == ASSUME BootInv, GateOpens PROVE BootInv'
<1>1. TypeOK'
  BY Bounds DEF GateOpens, BootInv, TypeOK, Steps, Stopped, World
<1>2. CountInv'
  BY Bounds DEF GateOpens, BootInv, CountInv, Steps, World
<1>3. DiskInv' /\ Reopenable'
  BY DeviceKept DEF GateOpens
<1>4. ProgressInv'
  BY DEF GateOpens, BootInv, ProgressInv, Here, Formatting, OnVolume, OnDevice,
     Configuring, Unlocking
<1>5. SecretsGone'
  BY DEF GateOpens, BootInv, SecretsGone, Unlocking
<1> QED
  BY <1>1, <1>2, <1>3, <1>4, <1>5 DEF BootInv

LEMMA InstallIdentityInv == ASSUME BootInv, InstallIdentity PROVE BootInv'
<1> SUFFICES ASSUME ~Fatal PROVE BootInv'
  BY FatalInv DEF InstallIdentity
<1>1. pc = "identity" /\ pc' = "init" /\ UNCHANGED <<World, mapper, read, minted, inits, disk,
                                                     mounted, secret, serving>>
  BY DEF InstallIdentity, Then, Held, Write
<1>2. CASE UNCHANGED files
  <2>1. TypeOK'
    BY <1>1, <1>2 DEF World, BootInv, TypeOK, Steps
  <2>2. CountInv'
    BY <1>1 DEF World, BootInv, CountInv, Steps
  <2>3. ProgressInv'
    BY <1>1, <1>2 DEF BootInv, ProgressInv, Formatting, OnVolume, OnDevice, Configuring, Unlocking,
       Here
  <2> QED
    BY <1>1, <1>2, <2>1, <2>2, <2>3, DeviceKept DEF BootInv, SecretsGone, Unlocking
<1>3. CASE Write([files[Here] EXCEPT !.kmsid = "cluster"])
  <2>1. [files[Here] EXCEPT !.kmsid = "cluster"] \in Contents
    BY HereType DEF BootInv, Contents
  <2>2. files' \in [Place -> Contents] /\ DiskInv' /\ Reopenable'
    BY <1>3, <2>1, WriteSafe
  <2>3. files'[Here].node = files[Here].node /\ Here' = Here
    BY <1>1, <1>3, HereType DEF Write, Here, BootInv, TypeOK, Contents
  <2>4. TypeOK'
    BY <1>1, <2>2 DEF World, BootInv, TypeOK, Steps
  <2>5. CountInv'
    BY <1>1 DEF World, BootInv, CountInv, Steps
  <2>6. ProgressInv'
    BY <1>1, <2>3 DEF BootInv, ProgressInv, Formatting, OnVolume, OnDevice, Configuring, Unlocking
  <2> QED
    BY <1>1, <2>2, <2>4, <2>5, <2>6 DEF BootInv, SecretsGone, Unlocking
<1> QED
  BY <1>2, <1>3 DEF InstallIdentity, Held

LEMMA InitWrites ==
  ASSUME BootInv, InitNode
  PROVE  \E kmsid \in {"cluster", "own"}, args \in SUBSET {"cluster", "governance"} :
           Write([files[Here] EXCEPT !.node = inits + 1, !.kmsid = kmsid, !.args = args])
<1>1. PICK cluster \in Reads(setup.cluster), governance \in Reads(TRUE) :
        Write([files[Here] EXCEPT
          !.node = inits + 1,
          !.kmsid = IF @ = "none" THEN "own" ELSE @,
          !.args = (IF cluster THEN {"cluster"} ELSE {})
                   \cup (IF governance THEN {"governance"} ELSE {})])
  BY DEF InitNode
<1>2. files[Here].kmsid \in {"none", "cluster", "own"}
  BY HereType DEF BootInv, Contents
<1> QED
  BY <1>1, <1>2

LEMMA InitNodeInv == ASSUME BootInv, InitNode PROVE BootInv'
<1>1. PICK kmsid \in {"cluster", "own"}, args \in SUBSET {"cluster", "governance"} :
        Write([files[Here] EXCEPT !.node = inits + 1, !.kmsid = kmsid, !.args = args])
  BY InitWrites
<1>2. pc = "init" /\ pc' = "up" /\ inits' = inits + 1 /\ UNCHANGED <<read, serving>>
  BY DEF InitNode
<1>3. UNCHANGED <<World, mapper, minted, disk, mounted, secret>>
  BY <1>1 DEF Write
<1>4. inits \in Nat /\ runs \in 0..MaxRuns /\ inits < runs
  BY <1>2, Bounds DEF BootInv, TypeOK, CountInv, Steps
<1>5. [files[Here] EXCEPT !.node = inits + 1, !.kmsid = kmsid, !.args = args] \in Contents
  <2>1. files[Here] \in Contents /\ inits + 1 \in 0..MaxRuns
    BY <1>4, HereType, Bounds DEF BootInv
  <2> QED
    BY <2>1 DEF Contents
<1>6. files' \in [Place -> Contents] /\ DiskInv' /\ Reopenable'
  BY <1>1, <1>5, WriteSafe
<1>7. TypeOK'
  BY <1>2, <1>3, <1>4, <1>6, Bounds DEF World, BootInv, TypeOK, Ended
<1>8. CountInv'
  BY <1>2, <1>3, <1>4 DEF World, BootInv, CountInv, Steps, Unlocking
<1>9. ProgressInv'
  BY <1>2, <1>3 DEF BootInv, ProgressInv, Formatting, OnVolume, OnDevice, Configuring, Unlocking
<1>10. SecretsGone'
  BY <1>2, <1>3 DEF BootInv, SecretsGone, Unlocking
<1> QED
  BY <1>6, <1>7, <1>8, <1>9, <1>10 DEF BootInv

-----------------------------------------------------------------------------

LEMMA BootInit == Init => BootInv
<1> SUFFICES ASSUME Init PROVE BootInv
  OBVIOUS
<1>1. PICK sig \in Disk, there \in BOOLEAN :
        /\ disk = [there |-> there, sig |-> sig, slot |-> NoKey, token |-> 0,
                   fs |-> IF sig = "ext4" THEN "ext4" ELSE "none"]
        /\ files = [p \in Place |->
                      IF p = "disk" /\ sig = "ext4"
                      THEN [Unused EXCEPT !.used = TRUE, !.tls = TRUE] ELSE Unused]
  BY DEF Init
<1>2. sig \in Signature /\ sig # "luks"
  BY SetupAssumption
<1>3. disk \in Device
  BY <1>1, <1>2, NoKeyType, Bounds DEF Device
<1>4. files \in [Place -> Contents]
  BY <1>1, UnusedType, Bounds DEF Unused, Contents
<1>5. TypeOK
  <2>1. read \in [kms : BOOLEAN, release : BOOLEAN, ephemeral : BOOLEAN, identity : BOOLEAN]
    BY DEF Init, NotRead
  <2>2. runs = 0 /\ minted = 0 /\ inits = 0 /\ kmsRoot = 1
    BY DEF Init
  <2>3. {runs, minted, inits} \subseteq 0..MaxRuns /\ kmsRoot \in 1..MaxRoots
    BY <2>2, Bounds
  <2>4. extended \in 0..2
    BY DEF Init
  <2> QED
    BY <1>3, <1>4, <2>1, <2>3, <2>4, NoSecretType DEF Init, TypeOK
<1>6. DiskInv /\ Reopenable
  BY <1>1, <1>2 DEF Init, DiskInv, Reopenable, Place
<1>7. CountInv /\ ProgressInv /\ SecretsGone
  BY DEF Init, CountInv, ProgressInv, SecretsGone, Steps, Formatting, OnVolume, OnDevice,
     Configuring, Unlocking, NoSecret, NoKey
<1> QED
  BY <1>5, <1>6, <1>7 DEF BootInv

LEMMA BootNext == BootInv /\ [Next]_vars => BootInv'
<1> SUFFICES ASSUME BootInv, [Next]_vars PROVE BootInv'
  OBVIOUS
<1>1. CASE DiskStep
  <2>1. RefuseEarly \/ MemoryNotMounted \/ NoKeyReleased \/ DiskFails => Fatal
    BY DEF RefuseEarly, MemoryNotMounted, NoKeyReleased, DiskFails
  <2> QED
    BY <1>1, <2>1, FatalInv, ReadMetadataInv, MountMemoryInv, KeepPlaceInv, ProbeDeviceInv,
       CreateKeyInv, FormatInv, WipedInv, StoreTokenInv, UnlockInv, OpenMapperInv,
       BeginMkfsInv, EndMkfsInv, MkfsFailsInv, MountDiskInv, CheckPlaceInv
    DEF DiskStep
<1>2. CASE NodeStep
  <2>1. NodeNotNamed \/ GateExpires \/ InitFails => Fatal
    BY DEF NodeNotNamed, GateExpires, InitFails
  <2> QED
    BY <1>2, <2>1, FatalInv, MakeTlsKeyInv, StartWithoutKmsInv, StartMerodInv, ReadNodeInv,
       GateOpensInv, InstallIdentityInv, InitNodeInv
    DEF NodeStep
<1>3. CASE Attach \/ Stamp \/ NewKmsRoot \/ PowerOff \/ Run
  BY <1>3, AttachInv, StampInv, NewKmsRootInv, PowerOffInv, RunInv
<1>4. CASE UNCHANGED vars
  BY <1>4 DEF vars, BootInv, TypeOK, CountInv, DiskInv, ProgressInv, Reopenable, SecretsGone, Here
<1> QED
  BY <1>1, <1>2, <1>3, <1>4 DEF Next

-----------------------------------------------------------------------------

\* What the disk holds never goes, and a node on it stays as it is.
Keeps(was, now) ==
  /\ was.used => now.used
  /\ was.tls => now.tls
  /\ was.node # 0 => now.node = was.node /\ now.kmsid = was.kmsid /\ now.args = was.args

\* A write that keeps what is where it is made keeps what is on the disk.
LEMMA WriteKeeps ==
  ASSUME BootInv, NEW new \in Contents, Write(new), Keeps(files[Here], new)
  PROVE  Keeps(files["disk"], files'["disk"])
<1>1. files' = [files EXCEPT ![Here] = new] /\ files \in [Place -> Contents] /\ Here \in Place
  BY HereType DEF Write, BootInv, TypeOK
<1> QED
  BY <1>1 DEF Keeps, Place

\* A disk is formatted, and a file system made, only where nothing is.
LEMMA FormatsUnused ==
  ASSUME BootInv, Format \/ BeginMkfs, ~Fatal
  PROVE  files["disk"] = Unused
<1>1. disk.sig = "blank" \/ pc = "mkfs"
  BY DEF Format, BeginMkfs, BootInv, ProgressInv
<1> QED
  BY <1>1 DEF BootInv, DiskInv, ProgressInv, Formatting, BeginMkfs

LEMMA NextKeeps == BootInv /\ [Next]_vars => Keeps(files["disk"], files'["disk"])
<1> SUFFICES ASSUME BootInv, [Next]_vars PROVE Keeps(files["disk"], files'["disk"])
  OBVIOUS
<1>1. CASE files'["disk"] = files["disk"]
  BY <1>1 DEF Keeps
<1>2. CASE files["disk"] = Unused
  BY <1>2 DEF Keeps, Unused
<1>3. CASE MakeTlsKey
  <2>1. PICK made \in BOOLEAN : Write([files[Here] EXCEPT !.used = TRUE, !.tls = @ \/ made])
    BY <1>3 DEF MakeTlsKey
  <2>2. files[Here] \in Contents
    BY HereType DEF BootInv
  <2> DEFINE new == [files[Here] EXCEPT !.used = TRUE, !.tls = @ \/ made]
  <2>3. new \in Contents
    BY <2>2 DEF Contents
  <2>4. Keeps(files[Here], new)
    BY <2>2 DEF Keeps, Contents
  <2> QED
    BY <2>1, <2>3, <2>4, WriteKeeps
<1>4. CASE InstallIdentity \/ InitNode
  <2>1. files[Here] \in Contents /\ files[Here].node = 0
    BY <1>4, HereType DEF BootInv, ProgressInv, Configuring, InstallIdentity, InitNode
  <2>2. CASE InstallIdentity /\ files' # files
    <3> DEFINE new == [files[Here] EXCEPT !.kmsid = "cluster"]
    <3>1. Write(new)
      BY <2>2 DEF InstallIdentity, Fatal, Held
    <3>2. new \in Contents /\ Keeps(files[Here], new)
      BY <2>1 DEF Contents, Keeps
    <3> QED
      BY <3>1, <3>2, WriteKeeps
  <2>3. CASE InitNode
    <3>1. PICK kmsid \in {"cluster", "own"}, args \in SUBSET {"cluster", "governance"} :
            Write([files[Here] EXCEPT !.node = inits + 1, !.kmsid = kmsid, !.args = args])
      BY <2>3, InitWrites
    <3> DEFINE new == [files[Here] EXCEPT !.node = inits + 1, !.kmsid = kmsid, !.args = args]
    <3>2. inits + 1 \in 0..MaxRuns
      BY <2>3, Bounds DEF InitNode, BootInv, TypeOK, CountInv, Steps
    <3>3. new \in Contents /\ Keeps(files[Here], new)
      BY <2>1, <3>2 DEF Contents, Keeps
    <3> QED
      BY <3>1, <3>3, WriteKeeps
  <2> QED
    BY <1>4, <2>2, <2>3, <1>1
<1>5. CASE Format \/ BeginMkfs
  BY <1>5, <1>1, <1>2, FormatsUnused DEF Fatal
<1>6. CASE PowerOff
  BY <1>6, <1>1 DEF PowerOff, BootInv, TypeOK, Place
<1>7. CASE DiskStep /\ ~Format /\ ~BeginMkfs
  BY <1>7, <1>1 DEF DiskStep, Fatal, Held, ReadMetadata, RefuseEarly, MountMemory,
     MemoryNotMounted, KeepPlace, ProbeDevice, CreateKey, NoKeyReleased, Wiped, StoreToken,
     Unlock, OpenMapper, EndMkfs, MkfsFails, MountDisk, DiskFails, CheckPlace
<1>8. CASE NodeStep /\ ~MakeTlsKey /\ ~InstallIdentity /\ ~InitNode
  BY <1>8, <1>1 DEF NodeStep, Fatal, StartWithoutKms, StartMerod, ReadNode, NodeNotNamed,
     GateOpens, GateExpires, InitFails
<1>9. CASE Attach \/ Stamp \/ NewKmsRoot \/ Run \/ UNCHANGED vars
  BY <1>9, <1>1 DEF Attach, Stamp, NewKmsRoot, Run, vars
<1> QED
  BY <1>3, <1>4, <1>5, <1>6, <1>7, <1>8, <1>9 DEF Next

-----------------------------------------------------------------------------
(* Where a locked node keeps its state.                                    *)

Placed == {"tls", "merod"} \cup Configuring

\* A node that was initialised stays so while nothing of its disk goes.
LEMMA InitialisedStays ==
  ASSUME BootInv, SealInv, [Next]_vars, Locked, ~setup.ephemeral, UNCHANGED inits
  PROVE  inits' = 0 \/ files'["disk"].node # 0
<1>1. inits = 0 \/ files["disk"].node # 0
  BY DEF SealInv
<1> QED
  BY <1>1, NextKeeps DEF Keeps

LEMMA SetupFixed == [Next]_vars => UNCHANGED setup
BY DEF Next, vars, DiskStep, NodeStep, Fatal, Held, World, Write, ReadMetadata, RefuseEarly,
   MountMemory, MemoryNotMounted, KeepPlace, ProbeDevice, CreateKey, NoKeyReleased, Format,
   Wiped, StoreToken, Unlock, OpenMapper, BeginMkfs, EndMkfs, MkfsFails, MountDisk, DiskFails,
   CheckPlace, MakeTlsKey, StartWithoutKms, StartMerod, ReadNode, NodeNotNamed, GateOpens,
   GateExpires, InstallIdentity, InitNode, InitFails, Attach, Stamp, NewKmsRoot, PowerOff, Run

\* What SealInv says of a step that neither configures the node nor goes past
\* the check of where its state will be.
LEMMA SealKept ==
  ASSUME BootInv, SealInv, [Next]_vars, UNCHANGED inits,
         read'.ephemeral = read.ephemeral \/ ~read'.ephemeral,
         mounted' = mounted \/ mounted' \in {"nothing", "mapper", "device"},
         pc' = "check" => ~read.ephemeral \/ (pc = "check" /\ mounted' = mounted),
         pc' \in {"tls", "merod"} \cup Configuring =>
           pc \in {"tls", "merod"} \cup Configuring /\ mounted' = mounted
  PROVE  SealInv'
BY InitialisedStays, SetupFixed DEF SealInv, Locked

LEMMA SealNext == BootInv /\ SealInv /\ [Next]_vars => SealInv'
<1> SUFFICES ASSUME BootInv, SealInv, [Next]_vars PROVE SealInv'
  OBVIOUS
<1> USE DEF Configuring
<1>1. CASE Fatal
  BY <1>1, SealKept DEF Fatal, Exit, Held, World
<1>2. CASE ReadMetadata
  <2>1. UNCHANGED <<setup, mounted, inits>> /\ pc' = "disk"
    BY <1>2 DEF ReadMetadata, Then, World
  <2>2. ~setup.ephemeral => ~read'.ephemeral
    <3>1. setup.ephemeral \in BOOLEAN
      BY SetupType DEF BootInv, Setups
    <3>2. PICK kms \in Reads(setup.kms), rel \in Reads(setup.release), eph \in Reads(setup.ephemeral) :
            read' = [kms |-> kms, release |-> rel, ephemeral |-> eph, identity |-> FALSE]
      BY <1>2 DEF ReadMetadata
    <3>3. ~setup.ephemeral => eph = FALSE
      BY <3>1 DEF Reads
    <3> QED
      BY <3>2, <3>3
  <2> QED
    BY <2>1, <2>2, InitialisedStays DEF SealInv, Locked
<1>3. CASE MountMemory
  <2>1. read.ephemeral /\ mounted' = "tmpfs" /\ UNCHANGED <<setup, read, inits>> /\ pc' = "check"
    BY <1>3 DEF MountMemory, Then, Held, World
  <2> QED
    BY <2>1 DEF SealInv, Locked
<1>4. CASE CheckPlace /\ ~Fatal
  <2>1. pc = "check" /\ pc' = "tls" /\ UNCHANGED <<setup, read, mounted, inits>> /\ (Locked => Sealed)
    BY <1>4 DEF CheckPlace, Then, Held, World
  <2>2. Locked => mounted \in {"tmpfs", "mapper"}
    BY <2>1 DEF SealInv, Sealed, DiskState
  <2> QED
    BY <2>1, <2>2, InitialisedStays DEF SealInv, Locked
<1>5. CASE InitNode
  <2>1. inits' = inits + 1 /\ pc = "init" /\ pc' = "up" /\ UNCHANGED <<setup, read, mounted>>
    BY <1>5 DEF InitNode, Write, World
  <2>2. Locked /\ ~setup.ephemeral => Here = "disk"
    BY <2>1 DEF SealInv, Here
  <2>3. Here = "disk" => files'["disk"].node # 0
    <3>1. PICK kmsid \in {"cluster", "own"}, args \in SUBSET {"cluster", "governance"} :
            Write([files[Here] EXCEPT !.node = inits + 1, !.kmsid = kmsid, !.args = args])
      BY <1>5, InitWrites
    <3>2. files \in [Place -> Contents] /\ Here \in Place /\ files[Here] \in Contents
      BY HereType DEF BootInv, TypeOK
    <3>3. files'[Here] = [files[Here] EXCEPT !.node = inits + 1, !.kmsid = kmsid, !.args = args]
      BY <3>1, <3>2 DEF Write
    <3>4. files'[Here].node = inits + 1 /\ inits + 1 # 0
      BY <3>2, <3>3, Bounds DEF Contents, BootInv, TypeOK
    <3> QED
      BY <3>4
  <2> QED
    BY <2>1, <2>2, <2>3 DEF SealInv, Locked
<1>6. CASE PowerOff \/ Run
  BY <1>6, SealKept DEF PowerOff, Run, NotRead
<1>7. CASE (MakeTlsKey \/ InstallIdentity) /\ ~Fatal
  BY <1>7, SealKept DEF MakeTlsKey, InstallIdentity, Write, Then, World, Held
<1>8. CASE StartWithoutKms \/ StartMerod
  BY <1>8, <1>1, SealKept DEF StartWithoutKms, StartMerod, Then, World, Held, Exit
<1>9. CASE (ReadNode \/ GateOpens) /\ ~Fatal
  <2>1. read'.ephemeral = read.ephemeral
    BY <1>9 DEF ReadNode, GateOpens, BootInv, TypeOK
  <2>2. pc \in {"node", "gate"} /\ pc' \in {"gate", "identity"} /\ UNCHANGED <<mounted, inits>>
    BY <1>9 DEF ReadNode, GateOpens, World
  <2> QED
    BY <2>1, <2>2, SealKept
<1>10. CASE KeepPlace
  <2>1. ~read.ephemeral /\ pc' = "check" /\ UNCHANGED <<read, inits, mounted>>
    BY <1>10 DEF KeepPlace, Then, World, Held
  <2> QED
    BY <2>1, SealKept
<1>11. CASE MountDisk /\ ~Fatal
  <2>1. pc \in {"mount", "mount_plain"} /\ pc' = "check" /\ UNCHANGED <<read, inits>>
        /\ mounted' \in {"mapper", "device"}
    BY <1>11 DEF MountDisk, Then, World, Held
  <2>2. ~read.ephemeral
    BY <2>1 DEF BootInv, ProgressInv, OnVolume, OnDevice
  <2> QED
    BY <2>1, <2>2, SealKept
<1>12. CASE ProbeDevice /\ ~Fatal
  <2>1. pc' \notin {"check"} \cup Placed /\ UNCHANGED <<read, mounted, inits>>
    BY <1>12 DEF ProbeDevice, Branch, Plan, Then, World, Held, Placed
  <2> QED
    BY <2>1, SealKept DEF Placed
<1>13. CASE CreateKey \/ Format \/ Wiped \/ StoreToken \/ Unlock \/ OpenMapper \/ BeginMkfs
            \/ EndMkfs \/ MkfsFails
  BY <1>13, <1>1, SealKept DEF CreateKey, Format, Wiped, StoreToken, Unlock, OpenMapper,
     BeginMkfs, EndMkfs, MkfsFails, Then, World, Held, Fetch, Exit
<1>14. CASE Attach \/ Stamp \/ NewKmsRoot \/ UNCHANGED vars
  BY <1>14, SealKept DEF Attach, Stamp, NewKmsRoot, vars
<1>15. CASE RefuseEarly \/ MemoryNotMounted \/ NoKeyReleased \/ DiskFails \/ NodeNotNamed
            \/ GateExpires \/ InitFails
  BY <1>15, <1>1 DEF RefuseEarly, MemoryNotMounted, NoKeyReleased, DiskFails, NodeNotNamed,
     GateExpires, InitFails
<1> QED
  BY <1>1, <1>2, <1>3, <1>4, <1>5, <1>6, <1>7, <1>8,
     <1>9, <1>10, <1>11, <1>12, <1>13, <1>14, <1>15
  DEF Next, DiskStep, NodeStep

\* A locked node writes in memory or on the encrypted disk.
LEMMA WriteSealed ==
  ASSUME BootInv, SealInv, LockedStateSealed, NEW new \in Contents, Write(new),
         pc \in Placed, Locked
  PROVE  LockedStateSealed'
<1>1. files \in [Place -> Contents] /\ Here \in Place /\ files' = [files EXCEPT ![Here] = new]
  BY HereType DEF BootInv, TypeOK, Write
<1>2. mounted = "tmpfs" \/ (mounted = "mapper" /\ disk.sig = "luks")
  <2>1. mounted \in {"tmpfs", "mapper"}
    BY DEF SealInv, Placed
  <2>2. mounted = "mapper" => disk.sig = "luks"
    BY DEF BootInv, DiskInv
  <2> QED
    BY <2>1, <2>2
<1>3. Here = "memory" \/ (Here = "disk" /\ disk.sig = "luks")
  BY <1>2 DEF Here
<1>4. UNCHANGED <<setup, disk>>
  BY DEF Write, World
<1> QED
  BY <1>1, <1>3, <1>4 DEF LockedStateSealed, Locked

LEMMA SealedNext == BootInv /\ SealInv /\ LockedStateSealed /\ [Next]_vars => LockedStateSealed'
<1> SUFFICES ASSUME BootInv, SealInv, LockedStateSealed, [Next]_vars, Locked
             PROVE  LockedStateSealed'
  BY SetupFixed DEF LockedStateSealed, Locked
<1>1. files \in [Place -> Contents] /\ disk \in Device
  BY DEF BootInv, TypeOK
<1>2. CASE UNCHANGED files /\ disk'.sig = disk.sig
  BY <1>2 DEF LockedStateSealed
<1>3. CASE Format \/ BeginMkfs
  <2>1. CASE Fatal
    BY <2>1, <1>2 DEF Fatal
  <2>2. CASE ~Fatal
    <3>1. files' = [files EXCEPT !["disk"] = Unused]
      BY <1>3, <2>2 DEF Format, BeginMkfs
    <3>2. files'["disk"] = Unused /\ DOMAIN files' = DOMAIN files
          /\ \A p \in DOMAIN files : p # "disk" => files'[p] = files[p]
      BY <1>1, <3>1 DEF Place
    <3> QED
      BY <3>2 DEF LockedStateSealed, Unused
  <2> QED
    BY <2>1, <2>2
<1>4. CASE PowerOff
  <2>1. files' = [files EXCEPT !["root"] = Unused, !["memory"] = Unused] /\ disk' = disk
    BY <1>4 DEF PowerOff
  <2> QED
    BY <1>1, <2>1 DEF LockedStateSealed, Place, Unused
<1>5. CASE MakeTlsKey
  <2>1. PICK made \in BOOLEAN : Write([files[Here] EXCEPT !.used = TRUE, !.tls = @ \/ made])
    BY <1>5 DEF MakeTlsKey
  <2>2. [files[Here] EXCEPT !.used = TRUE, !.tls = @ \/ made] \in Contents
    BY HereType DEF BootInv, Contents
  <2> QED
    BY <1>5, <2>1, <2>2, WriteSealed DEF MakeTlsKey, Placed
<1>6. CASE InstallIdentity
  <2>1. CASE UNCHANGED files
    BY <1>6, <2>1, <1>2 DEF InstallIdentity, Fatal, Held, Write
  <2>2. CASE Write([files[Here] EXCEPT !.kmsid = "cluster"])
    <3>1. [files[Here] EXCEPT !.kmsid = "cluster"] \in Contents
      BY HereType DEF BootInv, Contents
    <3> QED
      BY <1>6, <2>2, <3>1, WriteSealed DEF InstallIdentity, Placed, Configuring
  <2> QED
    BY <1>6, <2>1, <2>2 DEF InstallIdentity, Fatal, Held
<1>7. CASE InitNode
  <2>1. PICK kmsid \in {"cluster", "own"}, args \in SUBSET {"cluster", "governance"} :
          Write([files[Here] EXCEPT !.node = inits + 1, !.kmsid = kmsid, !.args = args])
    BY <1>7, InitWrites
  <2> DEFINE new == [files[Here] EXCEPT !.node = inits + 1, !.kmsid = kmsid, !.args = args]
  <2>2. new \in Contents
    <3>1. files[Here] \in Contents /\ inits + 1 \in 0..MaxRuns
      BY <1>7, HereType, Bounds DEF InitNode, BootInv, TypeOK, CountInv, Steps
    <3> QED
      BY <3>1 DEF Contents
  <2> QED
    BY <1>7, <2>1, <2>2, WriteSealed DEF InitNode, Placed, Configuring
<1>8. CASE Attach
  BY <1>1, <1>2, <1>8 DEF Attach, Device
<1>9. CASE Wiped \/ StoreToken \/ EndMkfs
  BY <1>1, <1>2, <1>9 DEF Wiped, StoreToken, EndMkfs, Device, Then
<1> QED
  BY <1>2, <1>3, <1>4, <1>5, <1>6, <1>7, <1>8, <1>9 DEF Next, vars, DiskStep, NodeStep, Fatal,
     Held, ReadMetadata, RefuseEarly, MountMemory, MemoryNotMounted, KeepPlace, ProbeDevice,
     CreateKey, NoKeyReleased, Unlock, OpenMapper, MkfsFails, MountDisk, DiskFails, CheckPlace,
     StartWithoutKms, StartMerod, ReadNode, NodeNotNamed, GateOpens, GateExpires, InitFails,
     Stamp, NewKmsRoot, Run

LEMMA OnceNext ==
  BootInv /\ SealInv /\ InitialisedOnce /\ [Next]_vars => InitialisedOnce'
<1> SUFFICES ASSUME BootInv, SealInv, InitialisedOnce, [Next]_vars PROVE InitialisedOnce'
  OBVIOUS
<1>1. CASE UNCHANGED inits
  BY <1>1, SetupFixed DEF InitialisedOnce, Locked
<1>2. CASE InitNode
  <2>1. inits' = inits + 1 /\ pc = "init" /\ files[Here].node = 0
    BY <1>2 DEF InitNode, BootInv, ProgressInv, Configuring
  <2>2. Locked /\ ~setup.ephemeral => inits = 0
    BY <2>1 DEF SealInv, Here, Configuring
  <2> QED
    BY <2>1, <2>2, SetupFixed DEF InitialisedOnce, Locked
<1> QED
  BY <1>1, <1>2 DEF Next, vars, DiskStep, NodeStep, Fatal, Held, Write, ReadMetadata,
     RefuseEarly, MountMemory, MemoryNotMounted, KeepPlace, ProbeDevice, CreateKey,
     NoKeyReleased, Format, Wiped, StoreToken, Unlock, OpenMapper, BeginMkfs, EndMkfs,
     MkfsFails, MountDisk, DiskFails, CheckPlace, MakeTlsKey, StartWithoutKms, StartMerod,
     ReadNode, NodeNotNamed, GateOpens, GateExpires, InstallIdentity, InitFails, Attach, Stamp,
     NewKmsRoot, PowerOff, Run

-----------------------------------------------------------------------------

LEMMA InitInv == Init => IInv
<1>1. Init => Reopenable /\ BootInv
  BY BootInit DEF BootInv
<1>2. Init => SealInv /\ InitialisedOnce
  BY DEF Init, SealInv, InitialisedOnce, NotRead, Configuring
<1>3. Init => LockedStateSealed
  BY DEF Init, LockedStateSealed, Unused
<1> QED
  BY <1>1, <1>2, <1>3 DEF IInv

LEMMA NextInv == IInv /\ [Next]_vars => IInv'
BY BootNext, SealNext, SealedNext, OnceNext DEF IInv

\* Every reachable state satisfies the inductive invariant: what the script knows
\* at each of its commands, whatever failed or was cut off before.
THEOREM InductiveInvariant == Spec => []IInv
BY InitInv, NextInv, PTL DEF Spec

\* The types of the boot's state.
THEOREM TypeCorrect == Spec => []TypeOK
<1>1. IInv => TypeOK
  BY DEF IInv, BootInv
<1> QED
  BY InductiveInvariant, <1>1, PTL

\* A data disk that holds anything can be opened again by the key its token names
\* (format_encrypted_data_disk writes and reads the token back before any data).
THEOREM DiskReopens == Spec => []Reopenable
<1>1. IInv => Reopenable
  BY DEF IInv, BootInv
<1> QED
  BY InductiveInvariant, <1>1, PTL

\* The disk's key leaves /run with the unlock, however the script ends.
THEOREM SecretsAreGone == Spec => []SecretsGone
<1>1. IInv => SecretsGone
  BY DEF IInv, BootInv
<1> QED
  BY InductiveInvariant, <1>1, PTL

\* A locked node's configuration and KMS identity are nowhere but in memory and on
\* the encrypted disk.
THEOREM StateIsSealed == Spec => []LockedStateSealed
<1>1. IInv => LockedStateSealed
  BY DEF IInv
<1> QED
  BY InductiveInvariant, <1>1, PTL

\* A locked node that keeps its state is initialised at most once.
THEOREM NodeIsInitialisedOnce == Spec => []InitialisedOnce
<1>1. IInv => InitialisedOnce
  BY DEF IInv
<1> QED
  BY InductiveInvariant, <1>1, PTL

\* No step of the boot loses what the data disk holds.
THEOREM DiskIsKept == Spec => KeepsState
<1>1. IInv /\ [Next]_vars =>
        [LET was == files["disk"]
             now == files'["disk"]
         IN  /\ was.used => now.used
             /\ was.tls => now.tls
             /\ was.node # 0 => now.node = was.node /\ now.kmsid = was.kmsid
                                  /\ now.args = was.args]_vars
  BY NextKeeps DEF Keeps, IInv
<1> QED
  BY InductiveInvariant, <1>1, PTL DEF Spec, KeepsState

-----------------------------------------------------------------------------
(* When no read of the metadata fails.                                     *)

LEMMA TrueReads == ASSUME "metadata" \notin Faults, NEW value PROVE Reads(value) = {value}
BY DEF Reads, MayFail

\* The port is held by a gate's server only at the gate, and by the unit's only
\* on a node without a KMS.
PortInv ==
  /\ pc \in Steps \ {"start"} => read.kms = setup.kms
  /\ pc \in Configuring => read.kms
  /\ serving = "unit" => ~setup.kms
  /\ serving = "gate" => pc = "gate"
  /\ PortIsFree

LEMMA PortNext ==
  ASSUME "metadata" \notin Faults, TypeOK, PortInv, [Next]_vars
  PROVE  PortInv'
<1> USE DEF PortInv, PortIsFree, Steps, Unlocking, Configuring
<1>1. CASE Fatal
  BY <1>1 DEF Fatal, Exit, Stopped, Held, World, TypeOK
<1>2. CASE ReadMetadata
  BY <1>2, TrueReads DEF ReadMetadata, Then, World
<1>3. CASE MountMemory \/ KeepPlace
  BY <1>3 DEF MountMemory, KeepPlace, Then, Held, World
<1>4. CASE ProbeDevice /\ ~Fatal
  BY <1>4 DEF ProbeDevice, Branch, Plan, Then, Held, World
<1>5. CASE (CreateKey \/ Unlock \/ Format) /\ ~Fatal
  BY <1>5 DEF CreateKey, Unlock, Format, Fetch, Then, Held, World
<1>6. CASE (Wiped \/ StoreToken \/ OpenMapper \/ BeginMkfs) /\ ~Fatal
  BY <1>6 DEF Wiped, StoreToken, OpenMapper, BeginMkfs, Then, Exit, Stopped, Held, World
<1>7. CASE (EndMkfs \/ MkfsFails \/ MountDisk \/ CheckPlace) /\ ~Fatal
  BY <1>7 DEF EndMkfs, MkfsFails, MountDisk, CheckPlace, Then, Held, World
<1>8. CASE MakeTlsKey
  BY <1>8 DEF MakeTlsKey, Write, Then, Stopped, World, TypeOK
<1>9. CASE StartWithoutKms /\ ~Fatal
  BY <1>9 DEF StartWithoutKms, Held, World
<1>10. CASE StartMerod /\ ~Fatal
  BY <1>10 DEF StartMerod, Then, Exit, Stopped, Held, World, TypeOK
<1>11. CASE ReadNode /\ ~Fatal
  <2>1. UNCHANGED <<setup, read.kms>> /\ pc = "node"
    BY <1>11 DEF ReadNode, World, TypeOK
  <2>2. pc' = "gate" \/ (pc' = "identity" /\ serving' = serving)
    BY <1>11 DEF ReadNode
  <2>3. serving' \in {serving, "gate"}
    BY <1>11 DEF ReadNode
  <2> QED
    BY <2>1, <2>2, <2>3
<1>12. CASE GateOpens
  <2>1. UNCHANGED <<setup, read.kms>> /\ pc = "gate" /\ pc' = "identity" /\ serving' = Stopped
    BY <1>12 DEF GateOpens, World, TypeOK
  <2> QED
    BY <2>1 DEF Stopped
<1>13. CASE InstallIdentity /\ ~Fatal
  BY <1>13 DEF InstallIdentity, Write, Then, Held, World
<1>14. CASE InitNode
  <2>1. UNCHANGED <<setup, read, serving>> /\ pc = "init" /\ pc' = "up"
    BY <1>14 DEF InitNode, Write, World
  <2> QED
    BY <2>1 DEF TypeOK
<1>15. CASE Attach \/ Stamp \/ NewKmsRoot \/ PowerOff \/ Run \/ UNCHANGED vars
  BY <1>15 DEF Attach, World, Stamp, NewKmsRoot, PowerOff, Run, vars, NotRead, Ended
<1> QED
  BY <1>1, <1>2, <1>3, <1>4, <1>5, <1>6, <1>7, <1>8, <1>9, <1>10, <1>11, <1>12, <1>13, <1>14,
     <1>15 DEF Next, DiskStep, NodeStep, RefuseEarly, MemoryNotMounted, NoKeyReleased,
     DiskFails, NodeNotNamed, GateExpires, InitFails

\* Past the read of `cluster' a locked node is known to be of a cluster, and it is
\* initialised on the disk only after the cluster's identity was installed there.
IdentityInv ==
  Locked =>
    /\ pc \in {"gate", "identity", "init"} => setup.cluster
    /\ pc = "init" /\ mounted = "mapper" => files["disk"].kmsid = "cluster"
    /\ files["disk"].node # 0 => files["disk"].kmsid = "cluster"

LEMMA IdentityNext ==
  ASSUME "metadata" \notin Faults, BootInv, SealInv, IdentityInv, [Next]_vars, Locked
  PROVE  IdentityInv'
<1> USE DEF IdentityInv
<1>1. UNCHANGED setup /\ Locked'
  BY SetupFixed DEF Locked
<1>2. TypeOK /\ files \in [Place -> Contents] /\ Here \in Place
  BY HereType DEF BootInv, TypeOK
<1>3. CASE Fatal
  BY <1>1, <1>3 DEF Fatal, Exit
<1>4. CASE ReadMetadata \/ MountMemory \/ KeepPlace
  BY <1>1, <1>4 DEF ReadMetadata, MountMemory, KeepPlace, Then
<1>5. CASE ProbeDevice /\ ~Fatal
  BY <1>1, <1>5 DEF ProbeDevice, Branch, Plan, Then
<1>6. CASE CreateKey \/ (Unlock /\ ~Fatal) \/ Wiped \/ StoreToken \/ (OpenMapper /\ ~Fatal)
  BY <1>1, <1>6 DEF CreateKey, Unlock, Wiped, StoreToken, OpenMapper, Fetch, Then, Exit, Held
<1>7. CASE (Format /\ ~Fatal) \/ BeginMkfs
  <2>1. pc' \notin {"gate", "identity", "init"} /\ files' = [files EXCEPT !["disk"] = Unused]
    BY <1>7 DEF Format, BeginMkfs, Then
  <2>2. files'["disk"].node = 0
    BY <1>2, <2>1 DEF Place, Unused
  <2> QED
    BY <1>1, <2>1, <2>2
<1>8. CASE EndMkfs \/ (MkfsFails /\ ~Fatal) \/ (MountDisk /\ ~Fatal) \/ (CheckPlace /\ ~Fatal)
  BY <1>1, <1>8 DEF EndMkfs, MkfsFails, MountDisk, CheckPlace, Then, Held
<1>9. CASE MakeTlsKey
  <2>1. PICK made \in BOOLEAN : Write([files[Here] EXCEPT !.used = TRUE, !.tls = @ \/ made])
    BY <1>9 DEF MakeTlsKey
  <2>2. files'["disk"].node = files["disk"].node /\ files'["disk"].kmsid = files["disk"].kmsid
    BY <1>2, <2>1 DEF Write, Place, Contents
  <2> QED
    BY <1>1, <1>9, <2>2 DEF MakeTlsKey, Then
<1>10. CASE (StartWithoutKms \/ StartMerod) /\ ~Fatal
  BY <1>1, <1>10 DEF StartWithoutKms, StartMerod, Then, Exit, Held
<1>11. CASE ReadNode /\ ~Fatal
  <2>1. PICK cluster \in Reads(setup.cluster) : cluster
    BY <1>11 DEF ReadNode
  <2>2. setup.cluster
    <3>1. cluster = setup.cluster
      BY TrueReads
    <3> QED
      BY <2>1, <3>1
  <2>3. UNCHANGED files /\ pc' \in {"gate", "identity"}
    BY <1>11 DEF ReadNode
  <2> QED
    BY <1>1, <2>2, <2>3
<1>12. CASE GateOpens
  BY <1>1, <1>12 DEF GateOpens
<1>13. CASE InstallIdentity /\ ~Fatal
  <2>1. pc = "identity" /\ pc' = "init" /\ setup.cluster /\ UNCHANGED mounted
    BY <1>13 DEF InstallIdentity, Then, Write, Held
  <2>2. mounted \in {"tmpfs", "mapper"}
    BY <2>1 DEF SealInv, Configuring
  <2>3. CASE read.identity
    <3>1. files' = [files EXCEPT ![Here] = [files[Here] EXCEPT !.kmsid = "cluster"]]
      BY <1>13, <2>3 DEF InstallIdentity, Write
    <3>2. mounted = "mapper" => Here = "disk"
      BY DEF Here
    <3>3. mounted = "tmpfs" => Here = "memory"
      BY DEF Here
    <3>4. CASE mounted = "mapper"
      BY <1>1, <1>2, <2>1, <3>1, <3>2, <3>4 DEF Place, Contents
    <3>5. CASE mounted = "tmpfs"
      BY <1>1, <1>2, <2>1, <3>1, <3>3, <3>5 DEF Place, Contents
    <3> QED
      BY <2>2, <3>4, <3>5
  <2>4. CASE ~read.identity
    <3>1. ~NeedsIdentity(setup.cluster) /\ UNCHANGED files
      BY <1>13, <2>4, TrueReads DEF InstallIdentity, Held
    <3>2. mounted # "mapper"
      BY <2>1, <3>1 DEF NeedsIdentity, MemoryOnly, Here
    <3> QED
      BY <1>1, <2>1, <3>1, <3>2
  <2> QED
    BY <2>3, <2>4
<1>14. CASE InitNode
  <2>1. PICK cluster \in BOOLEAN, governance \in BOOLEAN :
          files' = [files EXCEPT ![Here] = [files[Here] EXCEPT
            !.node = inits + 1,
            !.kmsid = IF @ = "none" THEN "own" ELSE @,
            !.args = (IF cluster THEN {"cluster"} ELSE {})
                     \cup (IF governance THEN {"governance"} ELSE {})]]
    <3>1. setup.cluster \in BOOLEAN
      BY SetupType, <1>2 DEF Setups
    <3> QED
      BY <1>14, <3>1, TrueReads DEF InitNode, Write
  <2>2. pc = "init" /\ pc' = "up"
    BY <1>14 DEF InitNode
  <2>3. mounted \in {"tmpfs", "mapper"}
    BY <2>2 DEF SealInv, Configuring
  <2>4. CASE mounted = "mapper"
    <3>1. Here = "disk" /\ files["disk"].kmsid = "cluster"
      BY <2>2, <2>4 DEF Here
    <3>2. files'["disk"].kmsid = "cluster"
      BY <1>2, <2>1, <3>1 DEF Place, Contents
    <3> QED
      BY <1>1, <2>2, <3>2
  <2>5. CASE mounted = "tmpfs"
    <3>1. Here = "memory"
      BY <2>5 DEF Here
    <3>2. files'["disk"] = files["disk"]
      BY <1>2, <2>1, <3>1 DEF Place
    <3> QED
      BY <1>1, <2>2, <3>2
  <2> QED
    BY <2>3, <2>4, <2>5
<1>15. CASE PowerOff
  <2>1. files'["disk"] = files["disk"] /\ pc' = "off"
    BY <1>2, <1>15 DEF PowerOff, Place
  <2> QED
    BY <1>1, <2>1
<1>16. CASE Attach \/ Stamp \/ NewKmsRoot \/ Run \/ UNCHANGED vars
  BY <1>1, <1>16 DEF Attach, Stamp, NewKmsRoot, Run, vars
<1> QED
  BY <1>3, <1>4, <1>5, <1>6, <1>7, <1>8, <1>9, <1>10, <1>11, <1>12, <1>13, <1>14, <1>15, <1>16
     DEF Next, DiskStep, NodeStep, RefuseEarly, MemoryNotMounted, NoKeyReleased,
     DiskFails, NodeNotNamed, GateExpires, InitFails

LEMMA MetadataInv ==
  ASSUME "metadata" \notin Faults
  PROVE  Spec => [](PortInv /\ IdentityInv)
<1>1. Init => PortInv /\ IdentityInv
  BY DEF Init, PortInv, PortIsFree, IdentityInv, Steps, Unlocking, Configuring, Unused, Place
<1>2. IInv /\ PortInv /\ IdentityInv /\ [Next]_vars => (PortInv /\ IdentityInv)'
  <2> SUFFICES ASSUME IInv, PortInv, IdentityInv, [Next]_vars PROVE PortInv' /\ IdentityInv'
    OBVIOUS
  <2>1. PortInv'
    BY PortNext DEF IInv, BootInv
  <2>2. IdentityInv'
    <3>1. CASE Locked
      BY <3>1, IdentityNext DEF IInv
    <3>2. CASE ~Locked
      BY <3>2, SetupFixed DEF IdentityInv, Locked
    <3> QED
      BY <3>1, <3>2
  <2> QED
    BY <2>1, <2>2
<1> QED
  BY <1>1, <1>2, InductiveInvariant, PTL DEF Spec

\* While the metadata server answers, a locked node that keeps its state is
\* configured with its cluster's KMS identity, whatever else fails and however
\* often the power goes.
THEOREM NodeSharesIdentity ==
  ASSUME "metadata" \notin Faults
  PROVE  Spec => []SharesClusterIdentity
<1>1. IdentityInv => SharesClusterIdentity
  BY DEF IdentityInv, SharesClusterIdentity
<1> QED
  BY <1>1, MetadataInv, PTL

\* ... and merod finds its port free, after a gate that expired too.
THEOREM MerodFindsItsPort ==
  ASSUME "metadata" \notin Faults
  PROVE  Spec => []PortIsFree
<1>1. PortInv => PortIsFree
  BY DEF PortInv
<1> QED
  BY <1>1, MetadataInv, PTL
=============================================================================
