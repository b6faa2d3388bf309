----------------------------- MODULE MCRelease -----------------------------
(* Instances of Release for TLC. *)
EXTENDS Release

CONSTANTS n1, n2, a1, x1, old, A, B, q1, q2, q3

\* Two boots of one node, an agent with its peer id, a TD whose registers are the
\* node image's but for one of the agent's, and a node that predates sealing.
Sessions == {n1, n2, a1, x1, old}

Images == (n1 :> "node") @@ (n2 :> "node") @@ (a1 :> "agent") @@ (x1 :> NoRole) @@ (old :> "node")

RegistersOf(first, last) == [g \in Register |-> IF g = "RTMR3" THEN last ELSE first]

QuoteOf(first, last) == [registers |-> RegistersOf(first, last), tcb |-> "uptodate"]

Quotes == (n1 :> QuoteOf("n", "n")) @@ (n2 :> QuoteOf("n", "n"))
          @@ (a1 :> QuoteOf("a", "a")) @@ (x1 :> QuoteOf("n", "a"))
          @@ (old :> QuoteOf("n", "n"))

Peers == [s \in Sessions |-> IF s = old THEN "z" ELSE "p"]

NodeIds == [s \in Sessions |-> 7]

Modes == (n1 :> "counted") @@ (n2 :> "counted") @@ (a1 :> "sealed") @@ (x1 :> "sealed")
         @@ (old :> "clear")

-----------------------------------------------------------------------------
ListsOf(first, last) == [g \in Register |-> IF g = "RTMR3" THEN last ELSE first]

Default ==
  [maxConsumed |-> Unset, pinned |-> "locked-read-only", profile |-> Unset,
   legacyProfile |-> Unset, prefix |-> [r \in Role |-> Unset], requireSealed |-> Unset,
   bootstrap |-> Unset, peers |-> {"u"}, retry |-> Unset, replicas |-> 3,
   allowed |-> [node |-> ListsOf({"n"}, {"n"}), agent |-> ListsOf({"a"}, {"a"})],
   tcb |-> Unset, enforce |-> Unset]

Legacy == [Default EXCEPT !.requireSealed = FALSE]

ProfileEnvs ==
  {[Default EXCEPT !.pinned = p, !.profile = m, !.legacyProfile = l] :
     p \in {Unset, Bad, "", "debug", "other"},
     m \in {Unset, Bad, "", "debug", "DEBUG", "locked-read-only", "other"},
     l \in {Unset, Bad, "debug", "locked-read-only"}}

Prefix ==
  {Unset, <<"">>, <<"", "">>, <<"a">>, <<"", "a", "">>, <<"a", "debug">>, <<"merod", "storage">>,
   <<"mero-kms", "transport">>}

PrefixEnvs ==
  {[Default EXCEPT !.pinned = Unset, !.profile = p, !.prefix = [node |-> n, agent |-> a]] :
     p \in {Unset, "debug", "x25519"}, n \in Prefix, a \in Prefix}

List == {Unset, Bad, {"n"}, {"a"}, {"n", "a"}}

PolicyEnvs ==
  {[Default EXCEPT !.allowed = [node |-> ListsOf(i, j), agent |-> ListsOf(k, l)],
                   !.enforce = e, !.tcb = t] :
     i \in List, j \in List, k \in List, l \in List, e \in {Unset, FALSE, Bad}, t \in {Unset, {}}}

ClusterEnvs ==
  {[Default EXCEPT !.bootstrap = b, !.peers = p, !.retry = r, !.replicas = n,
                   !.requireSealed = f, !.maxConsumed = m] :
     b \in {Unset, TRUE, FALSE, Bad}, p \in {Unset, {}, {"u"}}, r \in {Unset, Bad, 0},
     n \in {Unset, Bad, 0, 1, 3, 15, 16}, f \in {Unset, Bad}, m \in {Unset, Bad, 0, 1}}

Envs == {Default, Legacy} \cup ProfileEnvs \cup PrefixEnvs \cup PolicyEnvs \cup ClusterEnvs

CalledEnvs == {Default, Legacy}

Symmetric == UNION {Permutations(S) : S \in {{q1, q2, q3}, {A, B}, {n1, n2}}}

=============================================================================
