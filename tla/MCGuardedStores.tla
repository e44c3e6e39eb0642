-------------------------- MODULE MCGuardedStores --------------------------
(***************************************************************************)
(* A local store with a fork at each of its first two steps, one of them a *)
(* new epoch; bundles with a fork, a new epoch and a third revision; two   *)
(* policies of each store, the first of which ends first.  Two updates of  *)
(* one head, one of the head the second installs, and one that takes the   *)
(* name of the second and fits no head; the second authority bars a key,   *)
(* the third would lift that again.  An administrator who can be joined by *)
(* a second, and can take the right of both; descriptors of the bootstrap  *)
(* and of a later session.                                                 *)
(***************************************************************************)
EXTENDS GuardedStores, TLC

CONSTANTS p1, p2

LocalHead(s, h, checkpoint, epoch) ==
  [sequence |-> s, history |-> h, checkpoint |-> checkpoint, trust |-> <<1, "t">>,
   policy |-> <<1, "p">>, epoch |-> epoch]

MCFirstHead == LocalHead(0, "h0", <<1, "a">>, <<1, "e">>)
MCHeads ==
  {MCFirstHead, LocalHead(1, "h1", <<1, "a">>, <<1, "e">>),
   LocalHead(1, "h1x", <<2, "b">>, <<2, "f">>), LocalHead(2, "h2", <<2, "c">>, <<1, "e">>)}

MCFirstPolicy == [revision |-> 1, until |-> 1, advance |-> {p1, p2}, recovery |-> {p1, p2}]
MCWitnessPolicies ==
  {MCFirstPolicy, [revision |-> 2, until |-> 2, advance |-> {p1}, recovery |-> {p2}]}

Bundle(name, revision, previous, trust, epoch, key, until, transition) ==
  [name |-> name, revision |-> revision, previous |-> previous, trust |-> trust,
   epoch |-> epoch, key |-> key, issued |-> 0, until |-> until, transition |-> transition]

MCBundles ==
  {Bundle("b1", 1, "zero", <<1, "s">>, <<1, "e">>, "k", 2, NoTransition),
   Bundle("b2", 2, "b1", <<2, "t">>, <<1, "e">>, "k", 2, NoTransition),
   Bundle("b2x", 2, "b1", <<1, "s">>, <<2, "f">>, "l", 3,
          [root |-> "r", epoch |-> <<1, "e">>, key |-> "k"]),
   Bundle("b3", 3, "b2", <<2, "t">>, <<1, "e">>, "k", 3, NoTransition)}

DistributionPolicy(revision, keys) ==
  [revision |-> revision, keys |-> keys, root |-> "r",
   bootstrap |-> [revision |-> 1, epoch |-> <<1, "e">>, key |-> "k"]]

Supplied(policy, pin, until) == [policy |-> policy, pin |-> pin, until |-> until]
MCFirstInputs == Supplied(DistributionPolicy(1, {"k", "l"}), "c1", 1)
MCPolicyInputs ==
  {MCFirstInputs, Supplied(DistributionPolicy(1, {"k", "l"}), "c2", 2),
   Supplied(DistributionPolicy(2, {"k"}), "c3", 2)}

Intent(operation, key, sequence, expected, candidate, generation) ==
  [operation |-> operation, publisher |-> "alice", key |-> key, sequence |-> sequence,
   expected |-> expected, candidate |-> candidate, generation |-> generation, until |-> 2]

MCIntents ==
  {Intent("o1", "k", 0, "c0", "c1", 1), Intent("o2", "l", 0, "c0", "c2", 1),
   Intent("o3", "l", 1, "c2", "c3", 2), Intent("o2", "k", 1, "c0", "c4", 1)}
MCBaseHead == [sequence |-> 0, checkpoint |-> "c0", generation |-> 0]

Authority(revision, barred, until) ==
  [revision |-> revision, barred |-> barred, until |-> until, evaluate |-> {"alice"},
   recover |-> {"alice"}]
MCAuthorities == {Authority(1, {}, 2), Authority(2, {"k"}, 2), Authority(3, {}, 2)}

Permission(g, principal, until) ==
  [id |-> g, principal |-> principal, manage |-> TRUE, until |-> until]
MCSeed ==
  [name |-> "m", until |-> 2, enrolled |-> [id |-> "a", principal |-> "alice", until |-> 3],
   granted |-> Permission(1, "alice", 3)]
MCAnchor == [manifest |-> MCSeed, operator |-> "o", session |-> "s", until |-> 1]
MCDescriptors ==
  {MCAnchor, [MCAnchor EXCEPT !.session = "t", !.until = 2]}
MCPayloads ==
  {[kind |-> "CREDENTIAL_ENROLLED", enrolled |-> [id |-> "b", principal |-> "bob", until |-> 2]],
   [kind |-> "PERMISSION_GRANTED", granted |-> Permission(2, "bob", 3)],
   [kind |-> "CREDENTIAL_DISABLED", target |-> "b", expected |-> 3],
   [kind |-> "PERMISSION_REVOKED", target |-> 1, expected |-> 2]}

Interchangeable == Permutations(RequestIds) \cup Permutations(Hosts)
=============================================================================
