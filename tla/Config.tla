------------------------------- MODULE Config -------------------------------
(***************************************************************************)
(* The configuration a mero-kms replica starts with, from the environment  *)
(* baked in its image (mero-kms/src/config/mod.rs, config/env.rs).  An     *)
(* environment gives each variable a value as it is read: Unset, Bad (text *)
(* its reader makes nothing of), or what the text says.  A key prefix is   *)
(* the sequence of what its slashes separate: "/a/" is <<"", "a", "">>,    *)
(* and "" is <<"">>.                                                       *)
(*                                                                         *)
(* Left out: LISTEN_ADDR, CORS_ALLOWED_ORIGINS and CHALLENGE_TTL_SECS,     *)
(* which refuse nothing, and the order in which refusals are reported.     *)
(***************************************************************************)
EXTENDS Policy, FiniteSets, SequencesExt

CONSTANTS Unset, Bad

Or(value, default) == IF value = Unset THEN default ELSE value

\* parse_bool_env refuses any other text; unset is the default.
FlagReads(value) == value # Bad

-----------------------------------------------------------------------------
(* The profile.                                                            *)

KnownProfile == {"debug", "debug-read-only", "locked-read-only"}

\* trim and to_ascii_lowercase, of the spellings that tell them apart.
Normal(profile) == IF profile = "DEBUG" THEN "debug" ELSE profile

\* read_image_profile_from_file; Unset when there is no such file.
PinReads(env) == env.pinned = Unset \/ Normal(env.pinned) \in KnownProfile

\* profile_override_from_env: MERO_KMS_PROFILE, or its deprecated name.
OverrideReads(env) ==
  /\ Bad \notin {env.profile, env.legacyProfile}
  /\ Unset \notin {env.profile, env.legacyProfile} =>
       Normal(env.profile) = Normal(env.legacyProfile)

ProfileOverride(env) == Or(env.profile, env.legacyProfile)

\* resolve_kms_profile: an override must agree with the image's profile; with
\* none pinned a blank one is as good as unset.
ProfileResolves(env) ==
  LET override == ProfileOverride(env) IN
  IF env.pinned # Unset
  THEN override = Unset \/ Normal(override) = Normal(env.pinned)
  ELSE override \in {Unset, ""} \/ Normal(override) \in KnownProfile

Profile(env) ==
  LET override == ProfileOverride(env) IN
  CASE env.pinned # Unset -> Normal(env.pinned)
    [] env.pinned = Unset /\ override \notin {Unset, ""} -> Normal(override)
    [] OTHER -> "locked-read-only"

-----------------------------------------------------------------------------
(* Key prefixes and the paths keys derive on.                              *)

\* trim_matches('/').
Trim(path) ==
  LET named == {i \in DOMAIN path : path[i] # ""} IN
  IF named = {} THEN <<>>
  ELSE SubSeq(path, CHOOSE i \in named : \A j \in named : i <= j,
                    CHOOSE i \in named : \A j \in named : i >= j)

\* Mutant: the prefix is kept as it was written.
UntrimmedPrefix(value, default) == IF value \in {Unset, <<"">>} THEN default ELSE value

\* key_prefix_from_env.
KeyPrefix(value, default) ==
  IF value = Unset \/ Trim(value) = <<>> THEN default ELSE Trim(value)

DefaultPrefix == [node |-> <<"merod", "storage">>, agent |-> <<"mero-agent", "storage">>]

KeyPrefixes(env) == [r \in Role |-> KeyPrefix(env.prefix[r], DefaultPrefix[r])]

\* key_path_for_peer; a peer id is one segment (validate_peer_id_shape).
KeyPath(config, role, peer) == Trim(config.prefix[role]) \o <<config.profile, peer>>

\* sealed::TRANSPORT_KEY_PATH.
TransportKeyPath == <<"mero-kms", "transport", "x25519", "v1">>

-----------------------------------------------------------------------------
(* The cluster and the policy.                                             *)

MaxReplicas == 15

\* cluster_from_env and replicas_from_env.
ClusterReads(env) ==
  LET replicas == Or(env.replicas, 1)
      peers == Or(env.peers, {}) IN
  /\ FlagReads(env.bootstrap)
  /\ env.retry # Bad
  /\ Or(env.bootstrap, FALSE) \/ peers # {}
  /\ replicas # Bad /\ replicas \in 1..MaxReplicas
  /\ replicas > 1 => peers # {}

\* parse_measurement_list_env of the five registers of a role.
Lists(env, role) == [g \in Register |-> Or(env.allowed[role][g], {})]

ListsRead(env) == \A r \in Role, g \in Register : env.allowed[r][g] # Bad

FilledLists(env, role) == {g \in Register : Lists(env, role)[g] # {}}

\* optional_entry_from_env: an agent entry has all five lists, or there is none.
AgentEntryWhole(env) == FilledLists(env, "agent") \in {{}, Register}

\* load_policy_from_env and ENFORCE_MEASUREMENT_POLICY.
LoadPolicy(env) ==
  [enforced |-> Or(env.enforce, TRUE),
   tcbStatuses |-> Or(env.tcb, {"uptodate"}),
   entries |->
     <<[role |-> "node", allowed |-> Lists(env, "node")]>> \o
     (IF FilledLists(env, "agent") = {} THEN <<>>
      ELSE <<[role |-> "agent", allowed |-> Lists(env, "agent")]>>)]

-----------------------------------------------------------------------------
(* Config::from_env.                                                       *)

\* The process starts: no check of from_env refuses.
Starts(env) ==
  /\ env.maxConsumed # 0
  /\ PinReads(env)
  /\ OverrideReads(env)
  /\ ProfileResolves(env)
  /\ KeyPrefixes(env)["agent"] # KeyPrefixes(env)["node"]
  /\ FlagReads(env.requireSealed)
  /\ ClusterReads(env)
  /\ ListsRead(env)
  /\ AgentEntryWhole(env)
  /\ FlagReads(env.enforce)
  /\ ValidPolicy(LoadPolicy(env))

\* An unreadable MAX_CONSUMED_CHALLENGES or replica URL list is its default.
FromEnv(env) ==
  [profile |-> Profile(env),
   prefix |-> KeyPrefixes(env),
   requireSealed |-> Or(env.requireSealed, TRUE),
   capacity |-> IF env.maxConsumed \in {Unset, Bad} THEN 10000 ELSE env.maxConsumed,
   bootstrap |-> Or(env.bootstrap, FALSE),
   peers |-> Or(env.peers, {}),
   replicas |-> Or(env.replicas, 1),
   policy |-> LoadPolicy(env)]

=============================================================================
