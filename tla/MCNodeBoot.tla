----------------------------- MODULE MCNodeBoot -----------------------------
(* Instances of NodeBoot for TLC. *)
EXTENDS NodeBoot

\* Every profile, with or without a KMS, a release, a memory-only store and a
\* merod that unlocks disks.
EverySetup == {s \in Setups : s.cluster /\ s.attests}

AnyDisk == {"blank", "ext4", "other"}

Everything == Failing
Nothing == {}
=============================================================================
